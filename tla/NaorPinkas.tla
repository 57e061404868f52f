------------------------------ MODULE NaorPinkas ------------------------------
(***************************************************************************)
(* The Naor-Pinkas OT of np.h.  ALICE's program calls send, BOB's calls    *)
(* recv with the same length, each at its own pace.  A message is named as *)
(* in IdealOt; what is hidden with a key names the point that the key is   *)
(* derived from.  A loop that only reads, or only writes without a flush,  *)
(* is one step.                                                            *)
(***************************************************************************)
EXTENDS ExpGroup, Channel

CONSTANTS Scalars,   \* bound: what get_rand_bn draws
          Lengths,   \* bound: lengths of a call
          MaxCalls   \* bound: calls

ASSUME CallsAssumption ==
    Scalars \subseteq 0..(Order - 1) /\ Lengths \subseteq Nat \ {0} /\ MaxCalls \in Nat

VARIABLES lens,    \* lengths of the calls that a program has begun
          alice,   \* send: where it is, d, r, pk0 and its calls
          bob      \* recv: where it is, k, gr, and the bits and data of its calls

vars == <<lens, alice, bob, pend, net>>

Drawn(n) == [1..n -> Scalars]
ALen == lens[alice.cnt]
BLen == lens[Len(bob.asked)]

\* n points or pairs are there to be read, after a flush of p's own.
Ready(p, n) == pend[p] = <<>> /\ Len(net[p]) >= n
Taken(p, n) == SubSeq(net[p], 1, n)
Take(p, n) == [net EXCEPT ![p] = SubSeq(@, n + 1, Len(@))]

\* The n-th call of one program has the length of the n-th call of the other.
NextLength(cnt, n) ==
    IF cnt < Len(lens) THEN n = lens[cnt + 1] /\ UNCHANGED lens
    ELSE Len(lens) < MaxCalls /\ lens' = Append(lens, n)

(*---------------------------------- send --------------------------------*)
\* C = d * G is sent and flushed; r is drawn.
AliceCall ==
    \E n \in Lengths : \E d \in Scalars, r \in Drawn(n) :
        /\ alice.pc = "idle"
        /\ NextLength(alice.cnt, n)
        /\ Send("ALICE", <<MulGen(d)>>)
        /\ alice' = [pc |-> "keys", cnt |-> alice.cnt + 1, d |-> d, r |-> r, pk0 |-> <<>>]
        /\ UNCHANGED bob

\* pk0 is read, gr = r * G sent and flushed.
AliceKeys ==
    /\ alice.pc = "keys" /\ Ready("ALICE", ALen)
    /\ net' = [Take("ALICE", ALen) EXCEPT !["BOB"] =
                  @ \o [i \in 1..ALen |-> MulGen(alice.r[i])]]
    /\ alice' = [alice EXCEPT !.pc = "items", !.pk0 = Taken("ALICE", ALen)]
    /\ UNCHANGED <<lens, bob, pend>>

\* Mutant: pk1 is not taken from C.
Pk1OfPk0(r, d, key0) == Inv(key0)

\* r * C - r * pk0
Pk1(r, d, key0) == Add(MulGen(Mul(r, d)), Inv(key0))

\* m[0] and m[1] of each index, not flushed
AliceItems ==
    LET key0(i) == Mul(alice.pk0[i], alice.r[i])
        m(i, key, side) == [key |-> key, text |-> <<alice.cnt, i, side>>]
        pair(i) == <<m(i, key0(i), FALSE),
                     m(i, Pk1(alice.r[i], alice.d, key0(i)), TRUE)>>
    IN  /\ alice.pc = "items"
        /\ Write("ALICE", [i \in 1..ALen |-> pair(i)])
        /\ alice' = [alice EXCEPT !.pc = "idle", !.d = 0, !.r = <<>>, !.pk0 = <<>>]
        /\ UNCHANGED <<lens, bob>>

(*---------------------------------- recv --------------------------------*)
BobCall ==
    \E n \in Lengths : \E k \in Drawn(n), b \in [1..n -> BOOLEAN] :
        /\ bob.pc = "idle"
        /\ NextLength(Len(bob.asked), n)
        /\ bob' = [bob EXCEPT !.pc = "keys", !.k = k, !.asked = Append(@, b)]
        /\ Silent /\ UNCHANGED alice

Bit(i) == bob.asked[Len(bob.asked)][i]

\* pk[0] = k * G, or C - k * G when k belongs to pk[1]
Pk0(c, i) == IF Bit(i) THEN Add(c, Inv(MulGen(bob.k[i]))) ELSE MulGen(bob.k[i])

\* Mutant: C is sent back after the points.
PointsAndC(c) == [i \in 1..(BLen + 1) |-> IF i > BLen THEN c ELSE Pk0(c, i)]

Points(c) == [i \in 1..BLen |-> Pk0(c, i)]

\* C is read; the points are written and not flushed.
BobKeys ==
    /\ bob.pc = "keys" /\ Ready("BOB", 1)
    /\ net' = Take("BOB", 1)
    /\ pend' = [pend EXCEPT !["BOB"] = Points(net["BOB"][1])]
    /\ bob' = [bob EXCEPT !.pc = "gr"]
    /\ UNCHANGED <<lens, alice>>

BobGr ==
    /\ bob.pc = "gr" /\ Ready("BOB", BLen)
    /\ net' = Take("BOB", BLen)
    /\ bob' = [bob EXCEPT !.pc = "items", !.gr = [i \in 1..BLen |-> Mul(net["BOB"][i], bob.k[i])]]
    /\ UNCHANGED <<lens, alice, pend>>

\* m[ind] is opened with the key of gr.
BobItems ==
    LET m(i) == net["BOB"][i][IF Bit(i) THEN 2 ELSE 1]
    IN  /\ bob.pc = "items" /\ Ready("BOB", BLen)
        /\ net' = Take("BOB", BLen)
        /\ bob' = [bob EXCEPT !.pc = "idle", !.k = <<>>, !.gr = <<>>, !.got = Append(@,
              [i \in 1..BLen |-> IF m(i).key = bob.gr[i] THEN m(i).text ELSE <<>>])]
        /\ UNCHANGED <<lens, alice, pend>>

(*------------------------------ specification ---------------------------*)
\* A read flushes first; after a call the caller flushes (test.h).
Flush(p) ==
    /\ IF p = "ALICE" THEN alice.pc # "items" ELSE TRUE
    /\ pend[p] # <<>>
    /\ Send(p, <<>>)
    /\ UNCHANGED <<lens, alice, bob>>

Init ==
    /\ lens = <<>>
    /\ alice = [pc |-> "idle", cnt |-> 0, d |-> 0, r |-> <<>>, pk0 |-> <<>>]
    /\ bob = [pc |-> "idle", k |-> <<>>, gr |-> <<>>, asked |-> <<>>, got |-> <<>>]
    /\ pend = Quiet /\ net = Quiet

Alice == AliceKeys \/ AliceItems \/ Flush("ALICE")
Bob == BobKeys \/ BobGr \/ BobItems \/ Flush("BOB")

Next == AliceCall \/ Alice \/ BobCall \/ Bob
Spec == Init /\ [][Next]_vars

\* Both programs keep running; nobody has to make another call.
FairSpec == Spec /\ WF_vars(Alice) /\ WF_vars(Bob)

(*------------------------------- properties -----------------------------*)
(* What is waiting to be read belongs to a call that is running: after calls
   that both have returned, both ends of the channel are at the same place. *)
TypeOK ==
    /\ alice.pc \in {"idle", "keys", "items"}
    /\ bob.pc \in {"idle", "keys", "gr", "items"}
    /\ alice.cnt <= Len(lens) /\ Len(bob.asked) <= Len(lens)
    /\ alice.cnt = Len(bob.got) /\ alice.pc = "idle" /\ bob.pc = "idle" =>
         \A p \in Party : net[p] = <<>> /\ pend[p] = <<>>

Ideal == INSTANCE IdealOt WITH
    Choices <- UNION {[1..n -> BOOLEAN] : n \in Lengths},
    offered <- alice.cnt, asked <- bob.asked, got <- bob.got

(* send and recv implement the ideal OT: BOB gets the messages of the same
   call that his bits choose, and once both programs have begun a call BOB's
   returns, although ALICE does not flush its last messages and BOB's points
   wait for a read (np.h:36-68, 87-108). *)
IdealSpec == Ideal!Spec
=============================================================================
