---------------------------------- MODULE MyOt ---------------------------------
(***************************************************************************)
(* The OTs of myROT.h and myNOT.h over myIKNP.h and mybaseOT.h.  Their     *)
(* classes have no channel: a method returns what the program carries to   *)
(* a method of the other side.  S is a program with a sender object, R one *)
(* with a receiver object, which pass on these results in order.  In each  *)
(* round a program calls the methods in the order of test.h:57-213; it may *)
(* leave out those whose effect lasts from an earlier round.               *)
(*                                                                         *)
(* A row of the IKNP matrices is a set of terms, for each column the bit   *)
(* that its PRG has at that place, or 1: XOR is the symmetric difference.  *)
(***************************************************************************)
EXTENDS ExpGroup, Sequences, FiniteSetsExt

CONSTANTS Apis,       \* of "rot" (sendROT), "ot" (sendOT) and "not" (myNOT.h)
          Lanes,      \* ot_bsize
          BlockSize,  \* block_size
          Width,      \* rows that a transfer is rounded up to (128)
          Cols,       \* columns of the matrices, and base OTs (128)
          ScalarsA,   \* bound: what get_rand_bn draws for a
          ScalarsB,   \* bound: ... and for bb
          Plans,      \* bound: what the programs do in a round
          MaxRounds   \* bound: rounds

ASSUME MyOtAssumption ==
    /\ Apis \subseteq {"rot", "ot", "not"} /\ Lanes \in Nat \ {0} /\ Width \in Nat \ {0}
    /\ BlockSize \in Nat \ {0} /\ BlockSize % Width = 0
    /\ ScalarsA \cup ScalarsB \subseteq 0..(Order - 1) /\ MaxRounds \in Nat

(* What a program asks for: rows are made anew with a set-up, since they stand
   for the Delta they were made with; no more rows are used than it makes; the
   bits of an item are those that setupNOT computes. *)
ASSUME PlanAssumption == \A plan \in Plans :
    /\ plan.new \subseteq {"setS", "setup", "pre"}
    /\ "setup" \in plan.new => "pre" \in plan.new
    /\ {plan.len, plan.use, plan.items} \subseteq Nat /\ plan.r \in [0..(plan.len - 1) -> BOOLEAN]
    /\ "pre" \in plan.new => plan.use <= plan.len
    /\ "pre" \in plan.new /\ "not" \in plan.apis =>
           /\ plan.item \in 0..(plan.items - 1)
           /\ \A j \in 0..(plan.len - 1) : plan.r[j] = (plan.item \div 2^j % 2 = 1)

VARIABLES api,     \* the classes that the programs use
          plans,   \* the rounds that a program has begun
          me,      \* me[p]: the object of p, and where its program is
          mail     \* mail[p]: results of the other program for p

vars == <<api, plans, me, mail>>

Party == {"S", "R"}
Peer(p) == IF p = "S" THEN "R" ELSE "S"
S == me["S"]
R == me["R"]

(*------------------------------- the programs ---------------------------*)
Bits(n, ones) == [i \in 0..(n - 1) |-> i \in ones]

(* A round: what is done anew; the length and bits of recvPre, if rows are made
   anew; how many of the rows are used. *)
Transfer(new, n, ones, use) ==
    [apis |-> {"rot", "ot"}, new |-> new, len |-> n, r |-> Bits(n, ones), use |-> use,
     items |-> 0, item |-> 0]

\* maxChoiceBitLength, the natural logarithm of n > 1 rounded up, for n < 55
KeyBits(n) == IF n < 3 THEN 1 ELSE IF n < 8 THEN 2 ELSE IF n < 21 THEN 3 ELSE 4
BitOf(i, j) == (i \div 2^j) % 2 = 1

\* A round of myNOT.h, with setupNOT(i) before recvPre
OneOf(new, n, i) ==
    [apis |-> {"not"}, new |-> new, len |-> KeyBits(n), use |-> KeyBits(n),
     r |-> [j \in 0..(KeyBits(n) - 1) |-> BitOf(i, j)], items |-> n, item |-> i]

Stage(x, p) ==
    CASE x = "setS" -> <<"setS">>
      [] x = "setup" -> IF p = "S" THEN <<"setup", "baseB", "baseData">>
                                   ELSE <<"setup", "baseA", "baseE">>
      [] x = "pre" -> IF api = "not" THEN <<"choose", "pre">> ELSE <<"pre">>
      [] x = "op" -> IF api = "not" THEN <<"ot", "not">> ELSE <<api>>

Methods(plan, p) ==
    LET part(x) == IF x \in plan.new \cup {"op"} THEN Stage(x, p) ELSE <<>>
    IN  part("setS") \o part("setup") \o part("pre") \o part("op")

(* Rows are made with seeded PRGs, and no more are used than there are.  An
   object of myNOT.h has one number of items. *)
Sensible(rec, plan) ==
    /\ api \in plan.apis
    /\ "pre" \in plan.new => rec.epoch > 0 \/ "setup" \in plan.new
    /\ "pre" \notin plan.new /\ rec.isSet => plan.use <= rec.len
    /\ plans # <<>> => plan.items = plans[1].items

Begin(p) ==
    \E plan \in Plans :
        /\ me[p].todo = <<>>
        /\ IF me[p].cnt < Len(plans) THEN plan = plans[me[p].cnt + 1] /\ UNCHANGED plans
           ELSE /\ Len(plans) < MaxRounds /\ Sensible(me[p], plan)
                /\ plans' = Append(plans, plan)
        /\ me' = [me EXCEPT ![p].cnt = @ + 1, ![p].todo = Methods(plan, p)]
        /\ UNCHANGED <<api, mail>>

Doing(p, m) == me[p].todo # <<>> /\ Head(me[p].todo) = m
PlanOf(p) == plans[me[p].cnt]

\* A method m leaves p's object as rec; its result goes to the other program.
Returns(p, m, rec, result) ==
    /\ Doing(p, m)
    /\ me' = [me EXCEPT ![p] = [rec EXCEPT !.todo = Tail(@)]]
    /\ mail' = [mail EXCEPT ![Peer(p)] = @ \o result]
    /\ UNCHANGED <<api, plans>>

\* The same of a method that is given a result of the other program.
Given(p) == Head(mail[p])
Takes(p, m, rec, result) ==
    /\ Doing(p, m) /\ mail[p] # <<>>
    /\ me' = [me EXCEPT ![p] = [rec EXCEPT !.todo = Tail(@)]]
    /\ mail' = [mail EXCEPT ![p] = Tail(@), ![Peer(p)] = @ \o result]
    /\ UNCHANGED <<api, plans>>

(*--------------------------- base OTs and set-up ------------------------*)
\* A new seed of the hash; the keys used so far stay used.
SSetS == Returns("S", "setS", [S EXCEPT !.start = S.cnt], <<S.cnt>>)
RSetS == Takes("R", "setS", [R EXCEPT !.start = Given("R")], <<>>)

\* setupSend draws s, setupRecv the keys k0 and k1, which seed its PRGs.
SSetup ==
    \E s \in SUBSET Cols : Returns("S", "setup", [S EXCEPT !.s = s], <<>>)
RSetup == Returns("R", "setup", [R EXCEPT !.epoch = @ + 1, !.pos = 0], <<>>)

\* sendA
RBaseA ==
    \E a \in ScalarsA : Returns("R", "baseA", [R EXCEPT !.a = a], <<MulGen(a)>>)

\* sendB, with s for b
Point(bb, b, A) == IF b THEN Add(MulGen(bb), A) ELSE MulGen(bb)
SBaseB ==
    \E bb \in [Cols -> ScalarsB] :
        Takes("S", "baseB", [S EXCEPT !.bb = bb, !.A = Given("S")],
              <<[c \in Cols |-> Point(bb[c], c \in S.s, Given("S"))]>>)

\* sendE, with k0 and k1 for the data
PrgKey(e, side) == [epoch |-> e, side |-> side]
RBaseE ==
    LET AaInv == Inv(Mul(MulGen(R.a), R.a))
        BA(c) == Mul(Given("R")[c], R.a)
        tmp(c, key, side) == [under |-> <<key, c>>, key |-> PrgKey(R.epoch, side)]
    IN  Takes("R", "baseE", R,
              <<[c \in Cols |-> <<tmp(c, BA(c), 0), tmp(c, Add(BA(c), AaInv), 1)>>]>>)

\* getM; what it gets seeds the PRGs.
SBaseData ==
    LET sealed(c) == Given("S")[c][IF c \in S.s THEN 2 ELSE 1]
        data(c) == IF sealed(c).under = <<Mul(S.A, S.bb[c]), c>>
                   THEN sealed(c).key ELSE PrgKey(0, 0)
    IN  Takes("S", "baseData", [S EXCEPT !.k = [c \in Cols |-> data(c)], !.pos = 0,
                                         !.epoch = @ + 1], <<>>)

(*--------------------------------- rows ---------------------------------*)
Drawn(c, key, x) == <<c, key.epoch, key.side, x>>
One(c) == <<c, 0, 0, 0>>
Delta == {One(c) : c \in S.s}

\* Mutant: the remainder is not rounded up.
RoundedNot(n) == n

\* local_block_size
Rounded(n) == ((n + Width - 1) \div Width) * Width
Blocks(n) == (n + BlockSize - 1) \div BlockSize
BlockLen(n, j) == IF j < n \div BlockSize THEN BlockSize ELSE n % BlockSize

\* Mutant: the bits of a block are taken one transfer unit further on.
BlockRBeside(r, n, j, k) == LET i == j * Width + k IN i < n /\ r[i]

\* block_r + j * block_size / 128, padded with 0
BlockR(r, n, j, k) == LET i == j * BlockSize + k IN i < n /\ r[i]

\* Mutant: the flag is set after a remainder only.
MarkedRemain(rec, n) == rec.isSet \/ n % BlockSize # 0

\* setQ, setT
Marked(rec, n) == TRUE

\* Rows have been made from n positions of the PRGs.
WithRows(rec, n, row) ==
    [rec EXCEPT !.rows = row, !.len = n, !.isSet = Marked(rec, n), !.pos = @ + Rounded(n)]

\* setupNOT
Choose(p) == Returns(p, "choose", [me[p] EXCEPT !.isSetup = TRUE, !.item = PlanOf(p).item], <<>>)

\* recvPre: T is the row of G0, a row of U that of G0, of G1 and the choice bit.
RPre ==
    LET n == PlanOf("R").len
        r == PlanOf("R").r
        row(side, x) == {Drawn(c, PrgKey(R.epoch, side), x) : c \in Cols}
        u(x, bit) == SymDiff(row(0, x) \cup row(1, x), IF bit THEN {One(c) : c \in Cols} ELSE {})
        U == [j \in 0..(Blocks(n) - 1) |-> [k \in 0..(Rounded(BlockLen(n, j)) - 1) |->
                u(R.pos + j * BlockSize + k, BlockR(r, n, j, k))]]
    IN  Returns("R", "pre", [WithRows(R, n, [i \in 0..(n - 1) |-> row(0, R.pos + i)])
                                EXCEPT !.r = r], <<U>>)

\* sendPre: Q is the row of G0, with that of U in the columns where s is 1.
SPre ==
    LET n == PlanOf("S").len
        u(i) == Given("S")[i \div BlockSize][i % BlockSize]
        q(i) == SymDiff({Drawn(c, S.k[c], S.pos + i) : c \in Cols}, {t \in u(i) : t[1] \in S.s})
    IN  Takes("S", "pre", WithRows(S, n, [i \in 0..(n - 1) |-> q(i)]), <<>>)

(*---------------------------------- OTs ---------------------------------*)
\* isSetS, isSetup, and the flag of getQ or getT
Prepared(p) == /\ me[p].start # 0 /\ me[p].isSet
               /\ api = "not" => me[p].isSetup

\* error() ends the program.
Refuse(p) ==
    /\ \E m \in {"ot", "rot"} : Doing(p, m)
    /\ p = "R" /\ api # "rot" => mail[p] # <<>>
    /\ ~Prepared(p)
    /\ me' = [me EXCEPT ![p].todo = <<"error">>]
    /\ UNCHANGED <<api, plans, mail>>

\* Each batch of ot_bsize rows uses as many keys, so row i uses key gid + i.
Used == 0..(PlanOf("S").use - 1)
Hash(rec, x, i) == [of |-> x, start |-> rec.start, gid |-> rec.gid + i]

\* Mutant: a short last batch of the sender uses up as many keys as it has rows.
KeysUsedShort(p, n) == IF p = "S" THEN n ELSE Lanes * ((n + Lanes - 1) \div Lanes)

KeysUsed(p, n) == Lanes * ((n + Lanes - 1) \div Lanes)
Ending(p, out) == [me[p] EXCEPT !.gid = @ + KeysUsed(p, PlanOf(p).use), !.out = Append(@, out)]

\* sendROT of myROT.h
SRot == /\ Prepared("S")
        /\ Returns("S", "rot", Ending("S", [i \in Used |->
             <<Hash(S, S.rows[i], i), Hash(S, SymDiff(S.rows[i], Delta), i)>>]), <<>>)

\* recvROT of myROT.h: the hashes stay in pad, data is returned as it was resized.
Zero == [of |-> {}, start |-> 0, gid |-> 0]
RRot == /\ Prepared("R")
        /\ Returns("R", "rot", Ending("R", [i \in 0..(PlanOf("R").use - 1) |-> Zero]), <<>>)

\* data0 and data1, or the key blocks of myNOT.h, which are always the same
Text(rec, i, side) == <<IF api = "not" THEN 0 ELSE rec.cnt, i, side>>

\* sendOT, and sendROT of myNOT.h
SOt ==
    LET pad(i, x, side) == [pad |-> Hash(S, x, i), text |-> Text(S, i, side)]
    IN  /\ Prepared("S")
        /\ Returns("S", "ot", Ending("S", <<>>), <<[i \in Used |->
             <<pad(i, S.rows[i], FALSE), pad(i, SymDiff(S.rows[i], Delta), TRUE)>>]>>)

\* recvOT, and recvROT of myNOT.h
ROt ==
    LET res(i) == Given("R")[i][IF R.r[i] THEN 2 ELSE 1]
        data(i) == IF res(i).pad = Hash(R, R.rows[i], i) THEN res(i).text ELSE <<>>
    IN  /\ Doing("R", "ot") /\ Prepared("R")
        /\ Takes("R", "ot", Ending("R", [i \in 0..(PlanOf("R").use - 1) |-> data(i)]), <<>>)

\* sendNOT: the key of an item is the sum of one block for each of its bits.
SNot ==
    LET key(i) == {<<0, j, BitOf(i, j)>> : j \in Used}
    IN  Returns("S", "not", S, <<[i \in 0..(PlanOf("S").items - 1) |->
                                    [key |-> key(i), item |-> <<S.cnt, i>>]]>>)

\* recvNOT opens the item with the sum of the blocks received.
RNot ==
    LET blocks == R.out[R.cnt]
        sealed == Given("R")[R.item]
        data == IF sealed.key = {blocks[j] : j \in DOMAIN blocks} THEN sealed.item ELSE <<>>
    IN  Takes("R", "not", [R EXCEPT !.out[R.cnt] = data], <<>>)

(*------------------------------ specification ---------------------------*)
Object == [cnt |-> 0, todo |-> <<>>, start |-> 0, gid |-> 0, epoch |-> 0, pos |-> 0,
           rows |-> <<>>, len |-> 0, isSet |-> FALSE, isSetup |-> FALSE, item |-> 0, out |-> <<>>,
           s |-> {}, bb |-> <<>>, A |-> 0, k |-> <<>>, a |-> 0, r |-> <<>>]

Init ==
    /\ api \in Apis
    /\ plans = <<>>
    /\ me = [p \in Party |-> Object]
    /\ mail = [p \in Party |-> <<>>]

StepS == SSetS \/ SSetup \/ SBaseB \/ SBaseData \/ SPre \/ SRot \/ SOt \/ SNot
StepR == RSetS \/ RSetup \/ RBaseA \/ RBaseE \/ RPre \/ RRot \/ ROt \/ RNot

Next == StepS \/ StepR \/ \E p \in Party : Begin(p) \/ Choose(p) \/ Refuse(p)
Spec == Init /\ [][Next]_vars

(*------------------------------- properties -----------------------------*)
Stopped(p) == Doing(p, "error")
Idle == \A p \in Party : me[p].todo = <<>>

(* Rows are as many as the last recvPre or sendPre was asked for, PRGs are read
   in whole transfer units and a round leaves one result. *)
TypeOK ==
    \A p \in Party :
        /\ me[p].cnt \in 0..Len(plans)
        /\ DOMAIN me[p].rows = 0..(me[p].len - 1)
        /\ me[p].pos % Width = 0
        /\ me[p].todo = <<>> => Len(me[p].out) = me[p].cnt

\* The round whose rows round n uses
LastPre(n) == plans[Max({m \in 1..n : "pre" \in plans[m].new})]

(* The receiver gets what its bits choose of what the sender gave in the same
   round, or the item it asked for, whatever the two left out in this round
   (myROT.h:63-166, myNOT.h:66-252, test.h:111-213). *)
OutputsRight ==
    \A n \in 1..Len(R.out) : n < R.cnt \/ R.todo = <<>> =>
        CASE api = "ot" -> R.out[n] = [i \in 0..(plans[n].use - 1) |-> <<n, i, LastPre(n).r[i]>>]
          [] api = "not" -> R.out[n] = <<n, LastPre(n).item>>
          [] api = "rot" -> TRUE

(* After the same number of rounds both objects have read as much of their PRGs
   and used as many keys of the same hash, and no result is left over; nothing
   in the code checks it (myIKNP.h:85-98, 183-192, myROT.h:29-35, 57, 159). *)
InStep ==
    S.cnt = R.cnt /\ Idle =>
        /\ S.pos = R.pos /\ S.epoch = R.epoch /\ S.gid = R.gid /\ S.start = R.start
        /\ \A p \in Party : mail[p] = <<>>

(* A program is refused an OT only if it has never made rows or never set the
   seed of the hash (myIKNP.h:36-41, 107-112, myROT.h:39-41, 114-116). *)
NoFalseError ==
    \A p \in Party : Stopped(p) =>
        \E x \in {"setS", "pre"} : \A n \in 1..me[p].cnt : x \notin plans[n].new

(* The random OT gives R the one of S's two pads that its bit chooses, as the
   comments of myROT.h:52-54 and 131-132 say. *)
RotAgrees ==
    api = "rot" => \A n \in 1..Len(R.out) : n <= Len(S.out) =>
        \A i \in DOMAIN R.out[n] : R.out[n][i] = S.out[n][i][IF LastPre(n).r[i] THEN 2 ELSE 1]
=============================================================================
