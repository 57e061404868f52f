------------------------------ MODULE FerretCOT ------------------------------
(***************************************************************************)
(* FerretCOT<T> after setup (ferret/ferret_cot.hpp): the two parties, the  *)
(* buffer of correlations each keeps (ot_data, ot_used), the pre-computed  *)
(* data that seeds the next extension (ot_pre_data), and the two ways a    *)
(* caller asks for correlations, rcot and rcot_inplace.                    *)
(*                                                                         *)
(* A block is the pair <<extension, place>>: the extension that produced   *)
(* it and its place among the n blocks of that extension.  Two parties     *)
(* hold correlated values exactly when they hold the same pair.  The last  *)
(* M places of an extension are the seed of the next one.                  *)
(***************************************************************************)
EXTENDS Integers, Sequences

CONSTANTS N,          \* param.n, blocks that one extension produces
          K,          \* param.k, length of the LPN seed
          PreOtN,     \* pre_ot->n, base OTs that the SPCOT trees consume
          Check,      \* consist_check_cot_num, COTs of the consistency check
          Malicious,  \* is_malicious
          Lockstep,   \* both callers make the same sequence of calls
          Lengths,    \* bound: the arguments of rcot
          Needs,      \* bound: the arguments of byte_memory_need_inplace
          MaxCalls    \* bound: calls that a party makes

M == K + PreOtN + Check
OtLimit == N - M

(* Nothing in the code compares M with ot_limit; each of the three shipped
   parameter sets has M < ot_limit, and the plan of rcot relies on it. *)
ASSUME ParamAssumption ==
    /\ N \in Nat /\ K \in Nat \ {0} /\ PreOtN \in Nat /\ Check \in Nat
    /\ M <= OtLimit

ASSUME CallAssumption ==
    /\ Malicious \in BOOLEAN /\ Lockstep \in BOOLEAN
    /\ Lengths \subseteq Nat /\ Needs \subseteq Nat \ {0} /\ MaxCalls \in Nat

VARIABLES pc,      \* "idle", "rounds" inside a call, "check" inside an extension
          call,    \* the call being served and what is left of its plan
          data,    \* the caller's buffer
          otData,  \* ot_data
          otUsed,  \* ot_used
          pre,     \* ot_pre_data[0 .. M-1]
          ext,     \* extensions completed
          trees,   \* the trees that a malicious-mode receiver has rebuilt
          wire,    \* wire[p]: messages to p, in order
          calls,   \* the calls that p's caller has made
          out,     \* what they have returned, in order
          alarm    \* "SPCOT consistency check fails" was printed

vars == <<pc, call, data, otData, otUsed, pre, ext, trees, wire, calls, out,
          alarm>>

Party == {"ALICE", "BOB"}
Peer(p) == IF p = "ALICE" THEN "BOB" ELSE "ALICE"

(*-------------------------------- blocks --------------------------------*)
Block == Int \X Int
Blank == <<0, -1>>
Fresh(r) == [i \in 0..(N - 1) |-> <<r, i>>]

\* Blocks that are correlated with nothing the peer has.
Garbage == [i \in 0..(N - 1) |-> <<-1, i>>]

\* Mutant: the copy starts one block early, at a block that is served.
SeedOfEarly(b) == [i \in 0..(M - 1) |-> b[OtLimit + i - 1]]

\* ot_pre_data after memcpy(ot_pre_data, ot_buffer + ot_limit, M)
SeedOf(b) == [i \in 0..(M - 1) |-> b[OtLimit + i]]

MemCpy(dst, at, src, from, len) ==
    [i \in DOMAIN dst |-> IF i \in at..(at + len - 1) THEN src[from + i - at]
                                                      ELSE dst[i]]

UserBuffer(size) == [i \in 0..(size - 1) |-> Blank]

(*-------------------------------- planning ------------------------------*)
\* Integer division of C++, which rounds towards zero.
Quot(a, b) == IF a >= 0 THEN a \div b ELSE -((-a) \div b)

\* Mutant: the seed is counted as usable.
SilentOtLeftN(p) == N - otUsed[p]

SilentOtLeft(p) == OtLimit - otUsed[p]

\* Mutant: no room is kept for the seed that an in-place round writes.
InplaceRoundsNoSeed(need) == Quot(need, OtLimit)

InplaceRounds(need) == Quot(need - M, OtLimit)

ByteMemoryNeedInplace(need) == Quot(need - 1, OtLimit) * OtLimit + N

(* A call and what is left of it: pt blocks of the buffer are final, then
   come `inplace` extensions into the buffer, one through ot_data that is
   copied whole if memcpy, and one of which `last` blocks are copied.  The
   caller gets the first `give` blocks. *)
Plan(op, size, give, pt, inplace, memcpy, last) ==
    [op |-> op, size |-> size, give |-> give, pt |-> pt,
     inplace |-> inplace, memcpy |-> memcpy, last |-> last]

RoundsLeft(c) == c.inplace > 0 \/ c.memcpy \/ c.last > 0

AfterInplace(c) ==
    Plan(c.op, c.size, c.give, c.pt + OtLimit, c.inplace - 1, c.memcpy, c.last)
AfterMemcpy(c) ==
    Plan(c.op, c.size, c.give, c.pt + OtLimit, c.inplace, FALSE, c.last)
AfterLast(c) ==
    Plan(c.op, c.size, c.give, c.pt + c.last, c.inplace, c.memcpy, 0)

(*--------------------------------- calls --------------------------------*)
\* rcot served from ot_data
RcotHit(p, num) ==
    /\ num <= SilentOtLeft(p)
    /\ data' = [data EXCEPT ![p] =
                  MemCpy(UserBuffer(num), 0, otData[p], otUsed[p], num)]
    /\ otUsed' = [otUsed EXCEPT ![p] = @ + num]
    /\ call' = [call EXCEPT ![p] = Plan("rcot", num, num, num, 0, FALSE, 0)]

\* rcot that takes what ot_data still has and plans the extensions
RcotMiss(p, num) ==
    LET gened   == SilentOtLeft(p)
        inplace == InplaceRounds(num - gened)
        rest    == num - gened - inplace * OtLimit
        memcpy  == rest > OtLimit
        last    == IF memcpy THEN rest - OtLimit ELSE rest
    IN  /\ num > gened
        /\ data' = [data EXCEPT ![p] =
                      MemCpy(UserBuffer(num), 0, otData[p], otUsed[p], gened)]
        /\ call' = [call EXCEPT ![p] =
                      Plan("rcot", num, num, gened, inplace, memcpy, last)]
        /\ UNCHANGED otUsed

\* rcot_inplace on a buffer of the size that byte_memory_need_inplace gives
RcotInplace(p, need) ==
    LET space == ByteMemoryNeedInplace(need)
    IN  /\ space >= N
        /\ (space - M) % OtLimit = 0
        /\ data' = [data EXCEPT ![p] = UserBuffer(space)]
        /\ call' = [call EXCEPT ![p] =
                      Plan("inplace", space, space - M, 0,
                           (space - M) \div OtLimit, FALSE, 0)]
        /\ UNCHANGED otUsed

Behind(p) == Len(calls[p]) < Len(calls[Peer(p)])

\* p's caller makes the call c; in lockstep it repeats the peer's caller.
Issue(p, c) ==
    /\ pc[p] = "idle"
    /\ Len(calls[p]) < MaxCalls
    /\ Lockstep /\ Behind(p) => c = calls[Peer(p)][Len(calls[p]) + 1]
    /\ calls' = [calls EXCEPT ![p] = Append(@, c)]
    /\ pc' = [pc EXCEPT ![p] = "rounds"]
    /\ UNCHANGED <<otData, pre, ext, trees, wire, out, alarm>>

Call(p) ==
    \/ \E num \in Lengths : Issue(p, <<"rcot", num>>) /\ RcotHit(p, num)
    \/ \E num \in Lengths : Issue(p, <<"rcot", num>>) /\ RcotMiss(p, num)
    \/ \E need \in Needs : Issue(p, <<"inplace", need>>) /\ RcotInplace(p, need)

Return(p) ==
    /\ pc[p] = "rounds"
    /\ ~RoundsLeft(call[p])
    /\ out' = [out EXCEPT ![p] =
                 @ \o [i \in 1..call[p].give |-> data[p][i - 1]]]
    /\ pc' = [pc EXCEPT ![p] = "idle"]
    /\ UNCHANGED <<call, data, otData, otUsed, pre, ext, trees, wire, calls, alarm>>

(*------------------------- the end of an extension ----------------------*)
\* The loop body of rcot that extends into the caller's buffer
InplaceRound(p, b) ==
    /\ call[p].op = "rcot" /\ call[p].inplace > 0
    /\ data' = [data EXCEPT ![p] = MemCpy(@, call[p].pt, b, 0, N)]
    /\ otUsed' = [otUsed EXCEPT ![p] = OtLimit]
    /\ call' = [call EXCEPT ![p] = AfterInplace(@)]
    /\ UNCHANGED otData

\* The extension whose ot_limit blocks are all copied to the caller
MemcpyRound(p, b) ==
    /\ call[p].inplace <= 0 /\ call[p].memcpy
    /\ otData' = [otData EXCEPT ![p] = b]
    /\ otUsed' = [otUsed EXCEPT ![p] = 0]
    /\ data' = [data EXCEPT ![p] = MemCpy(@, call[p].pt, b, 0, OtLimit)]
    /\ call' = [call EXCEPT ![p] = AfterMemcpy(@)]

\* Mutant: ot_used is left at 0, where extend_f2k has set it.
LastRoundFromStart(p, b) ==
    /\ call[p].inplace <= 0 /\ ~call[p].memcpy /\ call[p].last > 0
    /\ otData' = [otData EXCEPT ![p] = b]
    /\ otUsed' = [otUsed EXCEPT ![p] = 0]
    /\ data' = [data EXCEPT ![p] = MemCpy(@, call[p].pt, b, 0, call[p].last)]
    /\ call' = [call EXCEPT ![p] = AfterLast(@)]

\* The extension whose remainder stays in ot_data for later calls
LastRound(p, b) ==
    /\ call[p].inplace <= 0 /\ ~call[p].memcpy /\ call[p].last > 0
    /\ otData' = [otData EXCEPT ![p] = b]
    /\ otUsed' = [otUsed EXCEPT ![p] = call[p].last]
    /\ data' = [data EXCEPT ![p] = MemCpy(@, call[p].pt, b, 0, call[p].last)]
    /\ call' = [call EXCEPT ![p] = AfterLast(@)]

\* The loop body of rcot_inplace, which leaves ot_used and ot_data alone
UserRound(p, b) ==
    /\ call[p].op = "inplace" /\ call[p].inplace > 0
    /\ data' = [data EXCEPT ![p] = MemCpy(@, call[p].pt, b, 0, N)]
    /\ call' = [call EXCEPT ![p] = AfterInplace(@)]
    /\ UNCHANGED <<otData, otUsed>>

FinishExtension(p, b) ==
    /\ \/ InplaceRound(p, b)
       \/ MemcpyRound(p, b)
       \/ LastRound(p, b)
       \/ UserRound(p, b)
    /\ pre' = [pre EXCEPT ![p] = SeedOf(b)]
    /\ ext' = [ext EXCEPT ![p] = @ + 1]
    /\ pc' = [pc EXCEPT ![p] = "rounds"]
    /\ UNCHANGED <<calls, out>>

(*--------------------------- the two-party protocol ---------------------*)
(* The sender's trees are masked under its pre-computed data, so what a
   message means to the receiver depends on the data it was made with.  The
   seed of the LPN matrix, which the receiver reads last, is part of the same
   message here; FerretExtend tells the two apart. *)
TreesMsg(p) == [type |-> "trees", run |-> ext[p] + 1, seeds |-> pre[p]]

\* What the receiver p ends up with.
Received(p, m) == IF m.seeds = pre[p] THEN Fresh(m.run) ELSE Garbage

Send(to, m) == [wire EXCEPT ![to] = Append(@, m)]
Arrived(p, type) == wire[p] # <<>> /\ Head(wire[p]).type = type
Exchange(p, m) == [wire EXCEPT ![p] = Tail(@), ![Peer(p)] = Append(@, m)]

Extending(p) == pc[p] = "rounds" /\ RoundsLeft(call[p])

\* Semi-honest sender: all its messages, no answer awaited
AliceExtend ==
    /\ ~Malicious /\ Extending("ALICE")
    /\ wire' = Send("BOB", TreesMsg("ALICE"))
    /\ FinishExtension("ALICE", Fresh(ext["ALICE"] + 1))
    /\ UNCHANGED <<trees, alarm>>

\* Semi-honest receiver
BobExtend ==
    /\ ~Malicious /\ Extending("BOB") /\ Arrived("BOB", "trees")
    /\ wire' = [wire EXCEPT !["BOB"] = Tail(@)]
    /\ FinishExtension("BOB", Received("BOB", Head(wire["BOB"])))
    /\ UNCHANGED <<trees, alarm>>

\* Malicious mode: the trees, then the consistency check
AliceSendTrees ==
    /\ Malicious /\ Extending("ALICE")
    /\ wire' = Send("BOB", TreesMsg("ALICE"))
    /\ pc' = [pc EXCEPT !["ALICE"] = "check"]
    /\ UNCHANGED <<call, data, otData, otUsed, pre, ext, trees, calls, out, alarm>>

\* Mutant: the rebuilt trees of the previous extension are kept.
BobSendXPrimeStale ==
    /\ Malicious /\ Extending("BOB") /\ Arrived("BOB", "trees")
    /\ wire' = Exchange("BOB", [type |-> "xprime"])
    /\ pc' = [pc EXCEPT !["BOB"] = "check"]
    /\ UNCHANGED <<call, data, otData, otUsed, pre, ext, trees, calls, out, alarm>>

\* Mutant: the receiver waits for the digest without sending x_prime.
BobSendXPrimeSilent ==
    /\ Malicious /\ Extending("BOB") /\ Arrived("BOB", "trees")
    /\ wire' = [wire EXCEPT !["BOB"] = Tail(@)]
    /\ trees' = Received("BOB", Head(wire["BOB"]))
    /\ pc' = [pc EXCEPT !["BOB"] = "check"]
    /\ UNCHANGED <<call, data, otData, otUsed, pre, ext, calls, out, alarm>>

BobSendXPrime ==
    /\ Malicious /\ Extending("BOB") /\ Arrived("BOB", "trees")
    /\ wire' = Exchange("BOB", [type |-> "xprime"])
    /\ trees' = Received("BOB", Head(wire["BOB"]))
    /\ pc' = [pc EXCEPT !["BOB"] = "check"]
    /\ UNCHANGED <<call, data, otData, otUsed, pre, ext, calls, out, alarm>>

\* Mutant: the digest is made after the pre-computed data was replaced.
AliceSendDigLate ==
    /\ pc["ALICE"] = "check" /\ Arrived("ALICE", "xprime")
    /\ wire' = Exchange("ALICE", [type |-> "dig",
                                  seeds |-> SeedOf(Fresh(ext["ALICE"] + 1))])
    /\ FinishExtension("ALICE", Fresh(ext["ALICE"] + 1))
    /\ UNCHANGED <<trees, alarm>>

AliceSendDig ==
    /\ pc["ALICE"] = "check" /\ Arrived("ALICE", "xprime")
    /\ wire' = Exchange("ALICE", [type |-> "dig", seeds |-> pre["ALICE"]])
    /\ FinishExtension("ALICE", Fresh(ext["ALICE"] + 1))
    /\ UNCHANGED <<trees, alarm>>

\* A mismatch is reported on the terminal and the extension goes on.
BobCompareDig ==
    /\ pc["BOB"] = "check" /\ Arrived("BOB", "dig")
    /\ wire' = [wire EXCEPT !["BOB"] = Tail(@)]
    /\ alarm' = (alarm \/ Head(wire["BOB"]).seeds # pre["BOB"])
    /\ FinishExtension("BOB", trees)
    /\ UNCHANGED trees

AliceStep == AliceExtend \/ AliceSendTrees \/ AliceSendDig \/ Return("ALICE")
BobStep == BobExtend \/ BobSendXPrime \/ BobCompareDig \/ Return("BOB")

(*------------------------------ specification ---------------------------*)
\* setup has produced extension 0, of which only the seed is kept.
Init ==
    /\ pc = [p \in Party |-> "idle"]
    /\ call = [p \in Party |-> Plan("rcot", 0, 0, 0, 0, FALSE, 0)]
    /\ data = [p \in Party |-> UserBuffer(0)]
    /\ otData = [p \in Party |-> UserBuffer(N)]
    /\ otUsed = [p \in Party |-> OtLimit]
    /\ pre = [p \in Party |-> SeedOf(Fresh(0))]
    /\ ext = [p \in Party |-> 0]
    /\ trees = Garbage
    /\ wire = [p \in Party |-> <<>>]
    /\ calls = [p \in Party |-> <<>>]
    /\ out = [p \in Party |-> <<>>]
    /\ alarm = FALSE

Next == AliceStep \/ BobStep \/ \E p \in Party : Call(p)

Spec == Init /\ [][Next]_vars

(* A thread inside a call keeps running, and a caller whose peer has made a
   call makes the same call in the end: the API is called on both sides. *)
FairSpec ==
    /\ Spec
    /\ WF_vars(AliceStep) /\ WF_vars(BobStep)
    /\ \A p \in Party : WF_vars(Call(p) /\ Behind(p))

(*------------------------------- properties -----------------------------*)
PlanType == [op : {"rcot", "inplace"}, size : Nat, give : Nat, pt : Nat,
             inplace : Int, memcpy : BOOLEAN, last : Nat]

Seeds == [0..(M - 1) -> Block]
Msg == [type : {"trees"}, run : Nat, seeds : Seeds]
         \cup [type : {"xprime"}] \cup [type : {"dig"}, seeds : Seeds]

(* The variables have their types; buffers have the length their owner
   allocated (hpp:103, 148). *)
TypeOK ==
    /\ pc \in [Party -> {"idle", "rounds", "check"}]
    /\ call \in [Party -> PlanType]
    /\ data = [p \in Party |-> data[p]]
    /\ \A p \in Party : data[p] \in [0..(call[p].size - 1) -> Block]
    /\ otData \in [Party -> [0..(N - 1) -> Block]]
    /\ otUsed \in [Party -> 0..OtLimit]
    /\ pre \in [Party -> Seeds]
    /\ ext \in [Party -> Nat]
    /\ trees \in [0..(N - 1) -> Block]
    /\ wire \in [Party -> Seq(Msg)]
    /\ out \in [Party -> Seq(Block)]
    /\ alarm \in BOOLEAN

(* No round of rcot or rcot_inplace writes past the caller's buffer: an
   extension writes all its n blocks at pt (hpp:169, 245), the copies write
   ot_limit or last_round_ot (hpp:175, 180). *)
WritesInBounds ==
    \A p \in Party : pc[p] # "idle" =>
        LET c == call[p] IN
        /\ c.inplace > 0 => c.pt + N <= c.size
        /\ c.inplace = 0 /\ c.memcpy => c.pt + OtLimit <= c.size
        /\ c.inplace = 0 /\ ~c.memcpy => c.pt + c.last <= c.size

Usable(b) == b[2] \in 0..(OtLimit - 1)

(* A caller never receives a block of the seed of an extension, although the
   in-place rounds leave the seed in the caller's buffer until a later round
   overwrites it (hpp:169, 171), and never a block that was not written. *)
NoSeedDelivered ==
    \A p \in Party : \A i \in 1..Len(out[p]) : Usable(out[p][i])

\* What the remaining rounds after the in-place ones write, and what a
\* buffer of rcot_inplace holds beyond the blocks that its caller may use.
Rest(c) == (IF c.memcpy THEN OtLimit ELSE 0) + c.last
             + (IF c.op = "inplace" THEN M ELSE 0)

PlanOK(c) ==
    /\ c.inplace >= 0
    /\ c.pt + c.inplace * OtLimit + Rest(c) = c.size
    /\ c.inplace > 0 => Rest(c) >= M
    /\ c.last <= OtLimit
    /\ c.op = "rcot" => c.give = c.size
    /\ c.op = "inplace" => c.give = c.size - M /\ ~c.memcpy /\ c.last = 0

(* The plan of a call always adds up to the caller's buffer, and the rounds
   after the last in-place one cover the seed that it leaves there
   (hpp:164-167, 237-238). *)
PlanInv == \A p \in Party : pc[p] # "idle" => PlanOK(call[p])

(* The stored blocks keep their places, and the blocks before pt are final:
   no round is going to leave a seed there. *)
BlocksInv ==
    /\ \A i \in 0..(N - 1) : trees[i][2] = i
    /\ \A p \in Party : otUsed[p] < OtLimit =>
          \A i \in 0..(N - 1) : otData[p][i][2] = i
    /\ \A p \in Party : pc[p] # "idle" =>
          \A i \in 0..(call[p].pt - 1) : Usable(data[p][i])

\* The inductive invariant of FerretCOTProofs
IndInv == TypeOK /\ PlanInv /\ BlocksInv /\ NoSeedDelivered

(* README.md:141 says of rcot_inplace that "it produces a fixed number of OTs
   (`ferretcot->n`) for every invocation".  The code returns byte_space - M,
   a multiple of ot_limit (hpp:237, 249). *)
InplaceYieldsN ==
    \A p \in Party : pc[p] # "idle" /\ call[p].op = "inplace" => call[p].give = N

Leftover(p) == {otData[p][i] : i \in otUsed[p]..(OtLimit - 1)}
Delivered(p) == {out[p][i] : i \in 1..Len(out[p])}

(* No correlation is used twice: none is returned by two calls or twice by
   one, and between calls none that was returned is still in store to be
   returned or to seed an extension (hpp:153-182, 240-248). *)
NeverServedTwice ==
    \A p \in Party :
        /\ \A i, j \in 1..Len(out[p]) : out[p][i] = out[p][j] => i = j
        /\ pc[p] = "idle" =>
              Delivered(p) \cap
                (Leftover(p) \cup {pre[p][i] : i \in 0..(M - 1)}) = {}

(* The i-th block that ALICE's caller received is correlated with the i-th
   that BOB's caller received (README.md:143, test.h:374-378), also when one
   party is extensions ahead of the other. *)
OutputsAgree ==
    \A i \in (DOMAIN out["ALICE"]) \cap (DOMAIN out["BOB"]) :
        out["ALICE"][i] = out["BOB"][i]

(* Two honest parties never see the consistency check fail (mpcot_reg.h:210). *)
NoFalseAlarm == ~alarm

(* In lockstep every call returns on both sides: neither party waits for a
   message that the other has no reason to send. *)
CallsReturn == \A p \in Party : pc[p] # "idle" ~> pc[p] = "idle"
=============================================================================
