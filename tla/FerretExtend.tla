----------------------------- MODULE FerretExtend -----------------------------
(***************************************************************************)
(* One FerretCOT::extend after another (ferret/ferret_cot.hpp:58-75) at the*)
(* grain of its threads and channels: the OT choices are fixed, the trees  *)
(* are shared out to a main thread and pool tasks that own one IO channel  *)
(* each (mpcot_reg.h), the main thread joins them, runs the consistency    *)
(* check and exchanges the seed of the LPN matrix on channel 0.            *)
(*                                                                         *)
(* What a tree's messages let the receiver rebuild is the subject of Spcot;*)
(* here a tree is good when its receiver has read, in order, the messages  *)
(* of that tree, under the OTs that its own choice bits belong to.         *)
(***************************************************************************)
EXTENDS Integers, Sequences

CONSTANTS Shapes,      \* the objects: trees = tree_n, height = tree_height - 1 OTs
                       \* of a tree, threads on both sides, malicious = is_malicious
          FlipSets,    \* bound: the sets of OTs with choice bit 1
          MaxRuns      \* bound: extensions

ASSUME ExtendAssumption ==
    /\ Shapes \subseteq [trees : Nat \ {0}, height : Nat \ {0}, threads : Nat \ {0},
                         malicious : BOOLEAN]
    /\ MaxRuns \in Nat

VARIABLES shape,   \* the parameters of both objects
          me,      \* me[p]: the main thread of p, its tasks and what they share
          bob,     \* of the receiver: OTPre's bits and count, the b of the trees, those
                   \* rebuilt rightly so far, "SPCOT consistency check fails"
          sent,    \* sent[c]: what ALICE has written to channel c and not flushed
          wire,    \* wire[c]: what is on its way to BOB on channel c
          back     \* what is on its way to ALICE on channel 0

vars == <<shape, me, bob, sent, wire, back>>
chan == <<sent, wire, back>>

Party == {"ALICE", "BOB"}
A == me["ALICE"]
B == me["BOB"]
Tree == 0..(shape.trees - 1)
Level == 0..(shape.height - 1)
Thread == 0..(shape.threads - 1)
Main == shape.threads - 1              \* the calling thread takes the last share

\* The trees from First(t) to End(t) - 1 are those of thread t.
First(t) == t * (shape.trees \div shape.threads)
End(t) == IF t = Main THEN shape.trees ELSE First(t + 1)

\* Mutant: every thread is given the channel of the object.
IoZero(t) == 0

\* ios[start / width] of a task, ios[threads - 1] of the main thread
Io(t) == t

(*-------------------------------- messages ------------------------------*)
Msg(kind, r, i, l, key) == [kind |-> kind, run |-> r, tree |-> i, level |-> l, key |-> key]

\* OTPre::send and OTPre::recv: k = s * length
Key(i, l) == i * shape.height + l

\* The two pads of one level, masked under an OT of this run
Pads(r, i, l) == Msg("pads", r, i, l, Key(i, l))
SumMsg(r, i) == Msg("sum", r, i, 0, 0)
Digest(r, trees) == Msg("dig", r, trees, 0, 0)
SeedMsg(r) == Msg("seed", r, 0, 0, 0)

Put(c, ms) == /\ sent' = [sent EXCEPT ![c] = @ \o ms]
              /\ UNCHANGED <<wire, back>>
Flush(c, ms) == /\ wire' = [wire EXCEPT ![c] = @ \o sent[c] \o ms]
                /\ sent' = [sent EXCEPT ![c] = <<>>]
Take(c) == /\ wire' = [wire EXCEPT ![c] = Tail(@)]
           /\ UNCHANGED <<sent, back>>

(*------------------------------- an extension ---------------------------*)
\* Only the record of p changes, and to rec.
Become(p, rec) == me' = [me EXCEPT ![p] = rec] /\ UNCHANGED shape

\* send_pre / recv_pre: the next OTs come from the pre-computed data.
Begin(p) ==
    /\ me[p].pc = "idle" /\ me[p].run < MaxRuns
    /\ Become(p, [me[p] EXCEPT !.run = @ + 1, !.pc = "init"])
    /\ IF p = "ALICE" THEN UNCHANGED bob
       ELSE \E s \in FlipSets : bob' = [bob EXCEPT !.bits = s]
    /\ UNCHANGED chan

\* choices_recver copies the bits from count on.
Choices(bits, count) == {l \in Level : count + l \in bits}

\* Mutant: count goes on into the next extension.
ResetNot(count) == count

Reset(count) == 0

(* mpcot_init_sender / _recver: count goes through the trees, and starts over
   in the end. *)
InitTrees(p) ==
    /\ me[p].pc = "init"
    /\ Become(p, [me[p] EXCEPT !.vw = {}, !.queued = 0, !.pc = "fork",
                               !.tree = [t \in Thread |-> First(t)]])
    /\ IF p = "ALICE" THEN UNCHANGED bob
       ELSE bob' = [bob EXCEPT
                !.good = {},
                !.b = [i \in Tree |-> Choices(bob.bits, bob.count + i * shape.height)],
                !.count = Reset(bob.count + shape.trees * shape.height)]
    /\ UNCHANGED chan

\* Mutant: a task is put on the pool for the share of the main thread too.
TasksAll == Main + 1

Tasks == Main

Fork(p) ==
    /\ me[p].pc = "fork"
    /\ Become(p, IF me[p].queued < Tasks THEN [me[p] EXCEPT !.queued = @ + 1]
                 ELSE [me[p] EXCEPT !.pc = "own"])
    /\ UNCHANGED <<bob, chan>>

\* Thread t of p has trees left to do, and has been started.
Active(p, t) ==
    /\ me[p].pc \notin {"idle", "init"}
    /\ me[p].tree[t] < End(t)
    /\ IF t = Main THEN me[p].pc = "own" ELSE t < me[p].queued

NextStep(p, t) == Become(p, [me[p] EXCEPT !.step[t] = @ + 1])
NextTree(p, t) ==
    Become(p, [me[p] EXCEPT !.step[t] = 0, !.tree[t] = @ + 1,
                            !.vw = IF shape.malicious THEN @ \cup {me[p].tree[t]} ELSE @])

(*-------------------------- the threads of the sender -------------------*)
SendPads(t) ==
    /\ Active("ALICE", t) /\ A.step[t] < shape.height
    /\ Put(Io(t), <<Pads(A.run, A.tree[t], A.step[t])>>)
    /\ NextStep("ALICE", t)
    /\ UNCHANGED bob

\* Mutant: the channel is not flushed after a tree.
TreeEndKept(c, m) == Put(c, <<m>>)

\* The masked secret and io->flush
TreeEnd(c, m) == Flush(c, <<m>>) /\ UNCHANGED back

SendSum(t) ==
    /\ Active("ALICE", t) /\ A.step[t] = shape.height
    /\ TreeEnd(Io(t), SumMsg(A.run, A.tree[t]))
    /\ NextTree("ALICE", t)
    /\ UNCHANGED bob

(*------------------------- the threads of the receiver ------------------*)
\* Tree i stays among the good ones if the message is the one it needs.
Judge(i, first, right) ==
    bob' = [bob EXCEPT !.good = IF right /\ (first \/ i \in @) THEN @ \cup {i} ELSE @ \ {i}]

RecvPads(t) ==
    LET i == B.tree[t]
        l == B.step[t]
    IN  /\ Active("BOB", t) /\ l < shape.height /\ wire[Io(t)] # <<>>
        /\ Judge(i, l = 0, /\ Head(wire[Io(t)]) = Pads(B.run, i, l)
                           /\ (l \in bob.b[i]) = (Key(i, l) \in bob.bits))
        /\ Take(Io(t))
        /\ NextStep("BOB", t)

RecvSum(t) ==
    /\ Active("BOB", t) /\ B.step[t] = shape.height /\ wire[Io(t)] # <<>>
    /\ Judge(B.tree[t], FALSE, Head(wire[Io(t)]) = SumMsg(B.run, B.tree[t]))
    /\ Take(Io(t))
    /\ NextTree("BOB", t)

(*------------------------- the main thread after the join ---------------*)
\* Mutant: the futures of the tasks are not waited for.
JoinedOwn(p) == me[p].tree[Main] >= End(Main)

JoinedAll(p) == \A t \in Thread : me[p].tree[t] >= End(t)

Join(p) ==
    /\ me[p].pc = "own" /\ JoinedAll(p)
    /\ Become(p, [me[p] EXCEPT !.pc = IF shape.malicious THEN "check" ELSE "seed"])
    /\ UNCHANGED <<bob, chan>>

\* consistency_check_f2k, BOB first
SendXPrime ==
    /\ B.pc = "check"
    /\ back' = Append(back, B.run)
    /\ Become("BOB", [B EXCEPT !.pc = "compare"])
    /\ UNCHANGED <<bob, sent, wire>>

SendDigest ==
    /\ A.pc = "check" /\ back # <<>>
    /\ back' = Tail(back)
    /\ Flush(0, <<Digest(Head(back), IF Head(back) = A.run THEN A.vw ELSE {})>>)
    /\ Become("ALICE", [A EXCEPT !.pc = "seed"])
    /\ UNCHANGED bob

\* The digests are equal when both cover all trees, and the trees are right.
CompareDigest ==
    /\ B.pc = "compare" /\ wire[0] # <<>>
    /\ bob' = [bob EXCEPT !.alarm = @ \/ bob.good # Tree \/ B.vw # Tree
                                      \/ Head(wire[0]) # Digest(B.run, Tree)]
    /\ Take(0)
    /\ Become("BOB", [B EXCEPT !.pc = "seed"])

\* Mutant: the matrix of the first extension is kept.
SeedKept(old, new) == IF old = SeedMsg(0) THEN new ELSE old

\* LpnF2::seed_gen: the seed is drawn or received in each extension.
Seed(old, new) == new

SendSeed ==
    /\ A.pc = "seed"
    /\ Flush(0, <<SeedMsg(A.run)>>) /\ UNCHANGED back
    /\ Become("ALICE", [A EXCEPT !.pc = "idle", !.seed = SeedMsg(A.run)])
    /\ UNCHANGED bob

RecvSeed ==
    /\ B.pc = "seed" /\ wire[0] # <<>>
    /\ Take(0)
    /\ Become("BOB", [B EXCEPT !.pc = "idle", !.seed = Seed(@, Head(wire[0]))])
    /\ UNCHANGED bob

(*------------------------------ specification ---------------------------*)
Init ==
    /\ shape \in Shapes
    /\ me = [p \in Party |-> [pc |-> "idle", run |-> 0, queued |-> 0,
                              tree |-> [t \in Thread |-> First(t)],
                              step |-> [t \in Thread |-> 0], vw |-> {}, seed |-> SeedMsg(0)]]
    /\ bob = [bits |-> {}, count |-> 0, b |-> [i \in Tree |-> {}], good |-> {},
              alarm |-> FALSE]
    /\ sent = [t \in Thread |-> <<>>]
    /\ wire = [t \in Thread |-> <<>>]
    /\ back = <<>>

Own(p) == \/ InitTrees(p) \/ Fork(p) \/ Join(p)
          \/ p = "ALICE" /\ (SendDigest \/ SendSeed)
          \/ p = "BOB" /\ (SendXPrime \/ CompareDigest \/ RecvSeed)
Work(p, t) == \/ p = "ALICE" /\ (SendPads(t) \/ SendSum(t))
              \/ p = "BOB" /\ (RecvPads(t) \/ RecvSum(t))

Next == \E p \in Party : Begin(p) \/ Own(p) \/ \E t \in Thread : Work(p, t)
Spec == Init /\ [][Next]_vars

AnyThread == UNION {0..(s.threads - 1) : s \in Shapes}
Behind(p) == \E q \in Party : me[p].run < me[q].run

(* Threads keep running, the pool has a worker for every task, and the caller
   of a party that is behind calls in the end. *)
FairSpec ==
    /\ Spec
    /\ \A p \in Party : /\ WF_vars(Own(p)) /\ WF_vars(Begin(p) /\ Behind(p))
                        /\ \A t \in AnyThread : WF_vars(t \in Thread /\ Work(p, t))

(*------------------------------- properties -----------------------------*)
Joined(p) == me[p].pc \in {"check", "compare", "seed"}

(* The variables have their types, and the counters their ranges. *)
TypeOK ==
    /\ shape \in Shapes
    /\ \A p \in Party :
         /\ me[p].pc \in {"idle", "init", "fork", "own", "check", "compare", "seed"}
         /\ me[p].run \in 0..MaxRuns
         /\ me[p].queued \in 0..Main
         /\ \A t \in Thread : /\ me[p].tree[t] \in First(t)..End(t)
                              /\ me[p].step[t] \in 0..shape.height
         /\ me[p].vw \subseteq Tree
    /\ bob.b \in [Tree -> SUBSET Level]
    /\ bob.good \subseteq Tree

\* The channel that a thread is using
Uses(p, t, c) ==
    \/ Active(p, t) /\ c = Io(t)
    \/ t = Main /\ Joined(p) /\ c = 0

(* No two threads of a party use one channel at the same time: NetIO is not
   made for that, and the bytes would mix (mpcot_reg.h:113-126, 135-148). *)
NoSharedChannel ==
    \A p \in Party : \A t, u \in Thread : \A c \in Thread :
        Uses(p, t, c) /\ Uses(p, u, c) => t = u

(* In whatever order the threads of both sides run, and however far the
   sender is ahead, the receiver rebuilds every tree from the messages of
   that tree and this extension, under the OTs of its choice bits, before it
   goes on (mpcot_reg.h:88-149, preot.h:56-89). *)
TreesGood == Joined("BOB") => bob.good = Tree

(* Two honest parties never see the consistency check fail. *)
NoFalseAlarm == ~bob.alarm

(* When an extension ends the receiver has the LPN matrix that its sender used
   in this extension (lpn_f2.h:66-70, 85-95). *)
SameMatrix == B.pc = "idle" => B.seed = SeedMsg(B.run)

(* Every extension ends on both sides. *)
Finishes == \A p \in Party : me[p].pc # "idle" ~> me[p].pc = "idle"
=============================================================================
