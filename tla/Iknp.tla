---------------------------------- MODULE Iknp ---------------------------------
(***************************************************************************)
(* The OT extension of iknp.h with the base OTs of co.h that set it up: the*)
(* part of a call that produces correlated rows.  Cot extends this module  *)
(* with the calls and what they make of the rows.                          *)
(*                                                                         *)
(* The bits that the PRGs G0[i] / G1[i] have handed out are one row of the *)
(* matrix per position of the stream, so a row is named by its keys and    *)
(* its position.  What has been added to it since, Delta or a least bit, is*)
(* the vector of bits plus; own says that its own least bit has not been   *)
(* cleared.  A Diffie-Hellman value is named by its exponents.             *)
(***************************************************************************)
EXTENDS Integers, Channel

CONSTANTS BlockSize,   \* block_size, rows of one block
          Width,       \* rows that a transfer is rounded up to (128)
          CheckRows,   \* rows drawn for the check (256)
          BaseN        \* base OTs (128)

ASSUME IknpAssumption ==
    /\ Width \in Nat \ {0} /\ BlockSize \in Nat \ {0} /\ BlockSize % Width = 0
    /\ CheckRows \in Nat \ {0} /\ CheckRows % Width = 0 /\ CheckRows <= BlockSize
    /\ BaseN \in Nat \ {0}

VARIABLES conf,    \* provider, malicious; s[e]: the secret bits of ALICE's e-th set-up
          calls,   \* the calls that a party has begun
          me       \* me[p]: the objects of p and where its program is

A == me["ALICE"]
B == me["BOB"]
Base == 0..(BaseN - 1)
Slot == 0..(BlockSize - 1)
Bits(n, ones) == [i \in 0..(n - 1) |-> i \in ones]

Goto(rec, l) == [rec EXCEPT !.pc = l, !.at = 0]
Loop(rec) == [rec EXCEPT !.at = @ + 1]
Become(p, rec) == me' = [me EXCEPT ![p] = rec] /\ UNCHANGED <<conf, calls>>

(*--------------------------------- rows ---------------------------------*)
Vector == [Base -> BOOLEAN]
Zero == [i \in Base |-> FALSE]
Times(r, v) == IF r THEN v ELSE Zero
Xor(v, w) == [i \in Base |-> v[i] # w[i]]

Row(name, plus) == [row |-> name, plus |-> plus, own |-> TRUE]
Junk == [row |-> <<0, -1>>, plus |-> Zero, own |-> FALSE]
XorDelta(x) == [x EXCEPT !.plus = Xor(@, A.delta)]

(*---------------------------- the base OTs, co.h ------------------------*)
\* The point b_i * G, or b_i * G + A; aa counts how often a * a is in it.
Point(i) == [b |-> i, aa |-> IF A.s[i] THEN 1 ELSE 0]

\* Mutant: the loop over the points ends one too early.
PointsShort == [i \in 1..(BaseN - 1) |-> Point(i - 1)]

\* All points are sent, and one flush follows.
Points == [i \in 1..BaseN |-> Point(i - 1)]

\* Hash::KDF of the product of a point with a, or of that and AaInv
Kdf(point, sub, i) == [b |-> point.b, aa |-> point.aa - sub, i |-> i]
PrgKey(e, i, side) == [epoch |-> e, ot |-> i, side |-> side]
KeysOf(e, s) == [i \in 1..BaseN |-> PrgKey(e, i - 1, s[i - 1])]

BobSendA ==
    /\ B.pc = "base"
    /\ Write("BOB", <<"A">>)
    /\ Become("BOB", [Goto(B, "points") EXCEPT !.key = <<>>])

AliceSendPoints ==
    /\ A.pc = "base" /\ CanRead("ALICE")
    /\ ReadSend("ALICE", Points)
    /\ Become("ALICE", [Goto(A, "keys") EXCEPT !.key = <<>>])

\* BOB reads the points one by one.
BobRecvPoint ==
    /\ B.pc = "points" /\ B.at < BaseN /\ CanRead("BOB")
    /\ Read("BOB")
    /\ Become("BOB", [Loop(B) EXCEPT !.key = Append(@, Incoming("BOB"))])

\* One masked pair of PRG keys for each point is written, with no flush.
MaskedKey(i, sub) == [under |-> Kdf(B.key[i], sub, i - 1), key |-> PrgKey(B.epoch, i - 1, sub = 1)]
AfterBase(rec, kind) == Goto([rec EXCEPT !.pos = 0], IF kind = "setup" THEN "return" ELSE "pre")

BobSendKeys ==
    /\ B.pc = "points" /\ B.at = BaseN
    /\ Write("BOB", [i \in 1..BaseN |-> <<MaskedKey(i, 0), MaskedKey(i, 1)>>])
    /\ Become("BOB", AfterBase(B, B.call.kind))

\* Mutant: only the first set-up makes Delta from s.
FirstDelta(rec) == IF rec.epoch = 1 THEN [rec EXCEPT !.delta = rec.s] ELSE rec

\* Delta = bool_to_block(s), the last step of setup_send
NewDelta(rec) == [rec EXCEPT !.delta = rec.s]

\* KDF(A * b_i) opens the side that s[i] chooses.
AliceRecvKey ==
    LET res == Incoming("ALICE")[IF A.s[A.at] THEN 2 ELSE 1]
        k0 == IF res.under = Kdf([b |-> A.at, aa |-> 0], 0, A.at)
              THEN res.key ELSE PrgKey(0, A.at, FALSE)
        got == [A EXCEPT !.key = Append(@, k0)]
    IN  /\ A.pc = "keys" /\ CanRead("ALICE")
        /\ Read("ALICE")
        /\ Become("ALICE", IF A.at + 1 < BaseN THEN Loop(got)
                           ELSE AfterBase(NewDelta(got), A.call.kind))

(*----------------------- rows of the matrix, iknp.h ---------------------*)
\* Mutant: the remainder is not rounded up.
RoundedNot(n) == n

\* local_block_size
Rounded(n) == ((n + Width - 1) \div Width) * Width

\* The rounds of send_pre and recv_pre: blocks, the remainder, the check rows
Rounds(n) == n \div BlockSize + (IF n % BlockSize > 0 THEN 1 ELSE 0)
                              + (IF conf.malicious THEN 1 ELSE 0)
IsCheck(n, j) == conf.malicious /\ j = Rounds(n) - 1
Size(n, j) == IF IsCheck(n, j) THEN CheckRows
              ELSE IF j < n \div BlockSize THEN BlockSize ELSE n % BlockSize

\* block_r + j * block_size / 128: choice bits are padded with 0.
BlockR(r, n, j, k) == LET i == j * BlockSize + k IN i < n /\ r[i]

(* A round has produced `rows`: a full block goes straight to the caller's
   array, the others go through local_out. *)
Store(rec, rows) ==
    LET n == rec.call.len
        j == rec.at
    IN  [rec EXCEPT
          !.data = IF IsCheck(n, j) THEN @
                   ELSE [i \in DOMAIN @ |-> IF i \div BlockSize = j
                                            THEN rows[i % BlockSize] ELSE @[i]],
          !.local = IF ~IsCheck(n, j) /\ Size(n, j) = BlockSize THEN @ ELSE rows,
          !.pos = @ + Rounded(Size(n, j))]

AfterCot(kind) == CASE kind = "cot" -> "return" [] kind = "gen" -> "tidy" [] OTHER -> "key"

NextRound(rec) ==
    IF rec.at + 1 < Rounds(rec.call.len) THEN Loop(rec)
    ELSE Goto(rec, IF conf.malicious THEN "check" ELSE AfterCot(rec.call.kind))

\* What a round of the wide size w makes of f(k), its row k
Wide(f(_), w) == [k \in Slot |-> IF k < w THEN f(k) ELSE Junk]

(* recv_pre_block: BOB's rows are the rows of G0; its message is G0 + G1 + r.
   Before the check rows, local_r is drawn. *)
BobPreBlock(localR) ==
    LET n == B.call.len
        w == Rounded(Size(n, B.at))
        mine(k) == Row(<<B.epoch, B.pos + k>>, Zero)
        r == [k \in 0..(w - 1) |-> IF IsCheck(n, B.at) THEN localR[k]
                                   ELSE BlockR(B.r, n, B.at, k)]
    IN  /\ B.pc = "pre"
        /\ IsCheck(n, B.at) \/ localR = B.localR
        /\ Write("BOB", <<[epoch |-> B.epoch, pos |-> B.pos, r |-> r]>>)
        /\ Become("BOB", NextRound(Store([B EXCEPT !.localR = localR], Wide(mine, w))))

\* send_pre_block: what ALICE makes of BOB's message and of her own streams
AlicePreBlock ==
    LET msg == Incoming("ALICE")
        mine(k) == IF msg.pos = A.pos /\ A.key = KeysOf(msg.epoch, A.s)
                   THEN Row(<<msg.epoch, A.pos + k>>, Times(msg.r[k], A.s)) ELSE Junk
    IN  /\ A.pc = "pre" /\ CanRead("ALICE")
        /\ Read("ALICE")
        /\ Become("ALICE", NextRound(Store(A, Wide(mine, Rounded(Size(A.call.len, A.at))))))

(*------------------------- the correlation check ------------------------*)
CheckedRows(rec) == <<rec.data, [k \in 0..(CheckRows - 1) |-> rec.local[k]]>>
Corrected(rows, x) == [i \in DOMAIN rows |-> IF x[i] THEN XorDelta(rows[i]) ELSE rows[i]]

\* Mutant: the choice bits of the check rows are left out of x.
CheckXShort == <<B.r, Bits(CheckRows, {})>>

CheckX == <<B.r, B.localR>>

\* recv_check: a new seed2 is drawn, sent and flushed.
BobCheckSeed ==
    /\ B.pc = "check"
    /\ Send("BOB", <<B.cnt>>)
    /\ Become("BOB", [Goto(B, "sum") EXCEPT !.chi = B.cnt])

\* The rest of recv_check: x and t are sent, and not flushed.
BobCheckSum ==
    /\ B.pc = "sum"
    /\ Write("BOB", <<[chi |-> B.chi, t |-> CheckedRows(B), x |-> CheckX]>>)
    /\ Become("BOB", Goto(B, AfterCot(B.call.kind)))

AliceCheckSeed ==
    /\ A.pc = "check" /\ CanRead("ALICE")
    /\ Read("ALICE")
    /\ Become("ALICE", [Goto(A, "sum") EXCEPT !.chi = Incoming("ALICE")])

(* send_check: a random combination of ALICE's rows, with x times Delta taken
   out, is that of BOB's rows. *)
AliceCheckSum ==
    LET msg == Incoming("ALICE")
        same == /\ msg.chi = A.chi
                /\ \A h \in {1, 2} : Corrected(CheckedRows(A)[h], msg.x[h]) = msg.t[h]
    IN  /\ A.pc = "sum" /\ CanRead("ALICE")
        /\ Read("ALICE")
        /\ Become("ALICE", Goto(A, IF same THEN AfterCot(A.call.kind) ELSE "error"))
=============================================================================
