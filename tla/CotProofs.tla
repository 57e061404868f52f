------------------------------- MODULE CotProofs -------------------------------
(***************************************************************************)
(* Proofs about the OTs of cot.h over their three providers: the two       *)
(* parties stay in step, the check of the extension never fails, and what  *)
(* two calls return belongs together, for any calls in any order and any   *)
(* choices of BOB.                                                         *)
(***************************************************************************)
EXTENDS Cot, SequenceTheorems, TLAPS

(*------------------------- sequences of any elements --------------------*)
IsSeq(s) == \E T : s \in Seq(T)

(*---------------------- what a call does to the counters ----------------*)
\* A call c over the configuration cf, when e set-ups have been made
Renews(cf, c, e) == cf.provider # "ferret" /\ (c.kind = "setup" \/ e = 0)
HasBase(cf, c, e) == Renews(cf, c, e) /\ ~(c.kind = "setup" /\ c.given)
Offers(cf, c, e) ==
    CASE cf.provider = "iknp"   -> c.kind # "gen"
      [] cf.provider = "base"   -> c.kind = (IF e = 0 THEN "setup" ELSE "gen")
                                   /\ (c.kind = "setup" => ~c.given)
      [] cf.provider = "ferret" -> c.kind \notin {"gen", "setup"}

\* The rounds of n rows, and how far the first j of them move on in the PRGs
RoundsIn(cf, n) == n \div BlockSize + (IF n % BlockSize > 0 THEN 1 ELSE 0)
                                    + (IF cf.malicious THEN 1 ELSE 0)
CheckRound(cf, n, j) == cf.malicious /\ j = RoundsIn(cf, n) - 1
SizeIn(cf, n, j) == IF CheckRound(cf, n, j) THEN CheckRows
                    ELSE IF j < n \div BlockSize THEN BlockSize ELSE n % BlockSize
Moved(n, j) ==
    LET q == n \div BlockSize
        rest == Rounded(n % BlockSize)
    IN  IF j <= q THEN j * BlockSize
        ELSE IF j = q + 1 /\ n % BlockSize > 0 THEN q * BlockSize + rest
        ELSE q * BlockSize + rest + CheckRows

HashKinds == {"rot", "ot", "not"}
LoopKinds == {"ot", "not"}

RowsDrawn(cf, c) == IF cf.provider = "ferret" THEN c.len
                    ELSE IF c.kind = "setup" THEN 0 ELSE Moved(c.len, RoundsIn(cf, c.len))
KeysOfCall(c) == IF c.kind \in HashKinds THEN Batch * Batches(c.len) ELSE 0

\* The messages of the base OTs, and all messages of a call
BaseByAlice(cf, c, e) == IF HasBase(cf, c, e) THEN BaseN ELSE 0
BaseByBob(cf, c, e) == IF HasBase(cf, c, e) THEN 1 + BaseN ELSE 0
SentByAlice(cf, c, e) ==
    BaseByAlice(cf, c, e) + (IF c.kind \in HashKinds THEN 1 ELSE 0)
                          + (IF c.kind \in LoopKinds THEN Batches(c.len) ELSE 0)
                          + (IF c.kind = "not" THEN 1 ELSE 0)
SentByBob(cf, c, e) ==
    IF cf.provider = "ferret" THEN 1
    ELSE BaseByBob(cf, c, e) + (IF c.kind = "setup" THEN 0
                                ELSE RoundsIn(cf, c.len) + (IF cf.malicious THEN 2 ELSE 0))

\* The counters of a party between two calls, and the messages sent so far
Places == [epoch : Nat, pos : Nat, gid : Nat, alice : Nat, bob : Nat]
Origin == [epoch |-> 0, pos |-> 0, gid |-> 0, alice |-> 0, bob |-> 0]
After(cf, c, at) ==
    [epoch |-> at.epoch + (IF Renews(cf, c, at.epoch) THEN 1 ELSE 0),
     pos   |-> (IF Renews(cf, c, at.epoch) THEN 0 ELSE at.pos) + RowsDrawn(cf, c),
     gid   |-> at.gid + KeysOfCall(c),
     alice |-> at.alice + SentByAlice(cf, c, at.epoch),
     bob   |-> at.bob + SentByBob(cf, c, at.epoch)]
SentAt(at, p) == IF p = "ALICE" THEN at.alice ELSE at.bob

(*-------------------------------- a call --------------------------------*)
(* A call t of a program: its number nr, the place from where both parties
   begin it and the place to that it takes them to, and what BOB chose in it. *)
Ferret(t) == t.conf.provider = "ferret"
Based(t) == HasBase(t.conf, t.call, t.from.epoch)
BaseSent(t, p) == IF p = "ALICE" THEN BaseByAlice(t.conf, t.call, t.from.epoch)
                  ELSE BaseByBob(t.conf, t.call, t.from.epoch)
Count(t, p) == IF p = "ALICE" THEN SentByAlice(t.conf, t.call, t.from.epoch)
               ELSE SentByBob(t.conf, t.call, t.from.epoch)
RoundsOf(t) == RoundsIn(t.conf, t.call.len)
First(t) == IF Renews(t.conf, t.call, t.from.epoch) THEN 0 ELSE t.from.pos

\* cot_gen draws the choice bits itself.
Own(t) == t.call.kind = "gen" /\ (t.conf.malicious \/ ~t.call.given)

(*-------------------------------- its rows ------------------------------*)
Index(t) == 0..(t.call.len - 1)
CheckIndex == 0..(CheckRows - 1)
SecretAt(cf, e) == cf.s[IF cf.provider = "ferret" THEN 0 ELSE e]
Sec(t) == SecretAt(t.conf, t.to.epoch)
Plus(t, x) == [x EXCEPT !.plus = Xor(@, Sec(t))]
RowIn(t, k, r) == [row |-> <<t.to.epoch, k>>, plus |-> Times(r, Sec(t)), own |-> TRUE]
StreamRow(t, k, r) == [row |-> <<0, k>>, plus |-> Times(r, Sec(t)), own |-> FALSE]
RowOf(t, p, i) ==
    LET x == IF Ferret(t) THEN t.chose.x[i] ELSE FALSE
        flip == IF p = "ALICE" THEN t.chose.r[i] # x ELSE x
    IN  IF Ferret(t) THEN StreamRow(t, First(t) + i, flip) ELSE RowIn(t, First(t) + i, flip)
RowsOf(t, p) == [i \in Index(t) |-> RowOf(t, p, i)]
\* Those of the rounds before round j
RowsBefore(t, p, j) ==
    [i \in Index(t) |-> IF i \div BlockSize < j THEN RowOf(t, p, i) ELSE Junk]
CheckRowOf(t, p, k) ==
    RowIn(t, First(t) + Moved(t.call.len, RoundsOf(t) - 1) + k,
          IF p = "ALICE" THEN t.chose.localR[k] ELSE FALSE)
CheckRowsOf(t, p) == [k \in CheckIndex |-> CheckRowOf(t, p, k)]

KeysIn(cf, e, m) == [i \in 1..m |-> PrgKey(e, i - 1, SecretAt(cf, e)[i - 1])]
PointIn(t, i) == [b |-> i, aa |-> IF Sec(t)[i] THEN 1 ELSE 0]
PointsIn(t, m) == [i \in 1..m |-> PointIn(t, i - 1)]
MaskedIn(t, i, sub) == [under |-> Kdf(PointIn(t, i - 1), sub, i - 1),
                        key |-> PrgKey(t.to.epoch, i - 1, sub = 1)]

(*-------------------------- its hashes and texts ------------------------*)
\* The hash of x as item i of batch j
HashOf(t, j, x, i) == [of |-> x, start |-> t.nr, gid |-> t.from.gid + j * Batch + i]
TextOf(t, i, side) == [call |-> IF t.call.kind = "not" THEN 0 ELSE t.nr, index |-> i, side |-> side]
PadOf(t, j, i, x, side) == [pad |-> HashOf(t, j, x, i % Batch), text |-> TextOf(t, i, side)]
BatchOf(t, j) == {i \in Index(t) : i \div Batch = j}
TextsBefore(t, j) ==
    [i \in Index(t) |-> IF i \div Batch < j THEN TextOf(t, i, t.chose.r[i]) ELSE RowOf(t, "BOB", i)]
ItemsOf(t) == [i \in 0..(t.call.items - 1) |->
                  [key |-> {TextOf(t, j, BitOf(i, j)) : j \in Index(t)}, item |-> i]]

(*------------------------------- its messages ---------------------------*)
PreMessage(t, j) ==
    [epoch |-> t.to.epoch, pos |-> First(t) + Moved(t.call.len, j),
     r |-> [k \in 0..(Rounded(SizeIn(t.conf, t.call.len, j)) - 1) |->
              IF CheckRound(t.conf, t.call.len, j) THEN t.chose.localR[k]
              ELSE BlockR(t.chose.r, t.call.len, j, k)]]
SumMessage(t) == [chi |-> t.nr, t |-> <<RowsOf(t, "BOB"), CheckRowsOf(t, "BOB")>>,
                  x |-> <<t.chose.r, t.chose.localR>>]
OnlineMessage(t) == [i \in Index(t) |-> t.chose.r[i] # t.chose.x[i]]
BatchMessage(t, j) ==
    [i \in BatchOf(t, j) |-> <<PadOf(t, j, i, RowOf(t, "ALICE", i), FALSE),
                               PadOf(t, j, i, Plus(t, RowOf(t, "ALICE", i)), TRUE)>>]

AlicesMessage(t, o) ==
    LET j == o - BaseSent(t, "ALICE") - 1
    IN  IF j < -1 THEN PointIn(t, o)
        ELSE IF j = -1 THEN t.nr
        ELSE IF j < Batches(t.call.len) THEN BatchMessage(t, j)
        ELSE ItemsOf(t)
BobsMessage(t, o) ==
    LET j == o - BaseSent(t, "BOB")
    IN  IF Ferret(t) THEN OnlineMessage(t)
        ELSE IF j < 0 THEN IF o = 0 THEN "A" ELSE <<MaskedIn(t, o, 0), MaskedIn(t, o, 1)>>
        ELSE IF j < RoundsOf(t) THEN PreMessage(t, j)
        ELSE IF j = RoundsOf(t) THEN t.nr ELSE SumMessage(t)
MessageOf(t, p, o) == IF p = "ALICE" THEN AlicesMessage(t, o) ELSE BobsMessage(t, o)

(*------------------------------- its results ----------------------------*)
AlicesOut(t) ==
    CASE t.call.kind = "gen" -> [i \in Index(t) |-> LeastBit(RowOf(t, "ALICE", i), FALSE)]
      [] t.call.kind = "rot" -> [i \in Index(t) |-> <<HashOf(t, 0, RowOf(t, "ALICE", i), i),
                                            HashOf(t, 0, Plus(t, RowOf(t, "ALICE", i)), i)>>]
      [] t.call.kind = "not" -> ItemsOf(t)
      [] OTHER -> RowsOf(t, "ALICE")
BobsOut(t) ==
    CASE t.call.kind = "gen" -> [i \in Index(t) |-> LeastBit(RowOf(t, "BOB", i), t.chose.r[i])]
      [] t.call.kind = "rot" -> [i \in Index(t) |-> HashOf(t, 0, RowOf(t, "BOB", i), i)]
      [] t.call.kind = "ot"  -> TextsBefore(t, Batches(t.call.len))
      [] t.call.kind = "not" -> t.call.item
      [] OTHER -> RowsOf(t, "BOB")
OutOf(t, p) == IF p = "ALICE" THEN AlicesOut(t) ELSE BobsOut(t)

(*------------------------ a party within a call -------------------------*)
\* Where p can be in t
StageOK(t, p, pc, at) ==
    LET rows == ~Ferret(t) /\ t.call.kind # "setup"
    IN  \/ pc = "base" /\ Based(t)
        \/ p = "ALICE" /\ pc = "keys" /\ Based(t) /\ at < BaseN
        \/ p = "BOB" /\ pc = "points" /\ Based(t) /\ at <= BaseN
        \/ pc = "pre" /\ rows /\ at < RoundsOf(t)
        \/ pc \in {"check", "sum"} /\ rows /\ t.conf.malicious
        \/ pc = "rcot" /\ Ferret(t)
        \/ p = "ALICE" /\ pc = "bits" /\ Ferret(t)
        \/ pc = "tidy" /\ t.call.kind = "gen"
        \/ pc = "return" /\ t.call.kind \in {"cot", "setup"}
        \/ pc = "key" /\ t.call.kind \in HashKinds
        \/ pc = "rot" /\ t.call.kind = "rot"
        \/ pc = "ot" /\ t.call.kind \in LoopKinds /\ at <= Batches(t.call.len)

Early == {"base", "keys", "points", "rcot"}
PosAt(t, pc, at) == IF pc \in Early THEN t.from.pos
                    ELSE IF pc = "pre" THEN First(t) + Moved(t.call.len, at)
                    ELSE t.to.pos

DataAt(t, p, pc, at) ==
    CASE pc \in Early -> [i \in Index(t) |-> Junk]
      [] pc = "pre" -> RowsBefore(t, p, at)
      [] pc = "bits" -> [i \in Index(t) |-> StreamRow(t, First(t) + i, FALSE)]
      [] pc = "ot" /\ p = "BOB" -> TextsBefore(t, at)
      [] OTHER -> RowsOf(t, p)

KeyAt(t, p, pc, at) ==
    IF p = "BOB" THEN PointsIn(t, at)
    ELSE KeysIn(t.conf, t.to.epoch, IF pc = "keys" THEN at ELSE BaseN)

\* The messages of t that p has written, and that it has read
Written(t, p, pc, at) ==
    IF p = "ALICE"
    THEN CASE pc = "base" -> 0
           [] pc = "rot" -> BaseSent(t, p) + 1
           [] pc = "ot" -> BaseSent(t, p) + 1 + at
           [] OTHER -> BaseSent(t, p)
    ELSE CASE pc \in {"base", "rcot"} -> 0
           [] pc = "points" -> 1
           [] pc = "pre" -> BaseSent(t, p) + at
           [] pc = "check" -> BaseSent(t, p) + RoundsOf(t)
           [] pc = "sum" -> BaseSent(t, p) + RoundsOf(t) + 1
           [] OTHER -> Count(t, p)
WasRead(t, p, pc, at) ==
    IF p = "BOB"
    THEN CASE pc = "base" -> 0
           [] pc = "points" -> at
           [] pc = "rot" -> BaseSent(t, "ALICE") + 1
           [] pc = "ot" -> BaseSent(t, "ALICE") + 1 + at
           [] OTHER -> BaseSent(t, "ALICE")
    ELSE CASE pc \in {"base", "rcot", "bits"} -> 0
           [] pc = "keys" -> 1 + at
           [] pc = "pre" -> BaseSent(t, "BOB") + at
           [] pc = "check" -> BaseSent(t, "BOB") + RoundsOf(t)
           [] pc = "sum" -> BaseSent(t, "BOB") + RoundsOf(t) + 1
           [] OTHER -> Count(t, "BOB")

InCall(t, p, rec) ==
    /\ rec.call = t.call
    /\ StageOK(t, p, rec.pc, rec.at)
    /\ rec.epoch = t.to.epoch /\ rec.pos = PosAt(t, rec.pc, rec.at)
    /\ rec.gid = t.from.gid + (IF rec.pc = "ot" THEN rec.at * Batch ELSE 0)
    /\ rec.data = DataAt(t, p, rec.pc, rec.at)
    /\ rec.pc \in {"check", "sum"} => \A k \in CheckIndex : rec.local[k] = CheckRowOf(t, p, k)
    /\ rec.pc = "sum" => rec.chi = t.nr
    /\ rec.pc \in {"rot", "ot"} => rec.start = t.nr
    /\ p = "BOB" => rec.r = t.chose.r
    /\ p = "BOB" /\ rec.pc \in {"check", "sum"} => rec.localR = t.chose.localR
    /\ IF p = "BOB" THEN rec.pc = "points" => rec.key = KeyAt(t, p, rec.pc, rec.at)
       ELSE /\ ~Ferret(t) /\ rec.pc # "base" => rec.key = KeyAt(t, p, rec.pc, rec.at)
            /\ ~Ferret(t) => rec.s = Sec(t)
            /\ rec.pc \notin {"base", "keys"} => rec.delta = Sec(t)

(*------------------------------ the invariant ---------------------------*)
Fields == {"pc", "at", "cnt", "call", "r", "epoch", "key", "pos", "data", "local", "localR", "chi",
           "start", "gid", "out", "s", "delta", "deltas"}
Record(rec) == rec = [f \in Fields |-> rec[f]]

ChannelOK ==
    /\ net = [p \in Party |-> net[p]] /\ pend = [p \in Party |-> pend[p]]
    /\ \A p \in Party : IsSeq(net[p]) /\ IsSeq(pend[p])

\* The calls made so far, in order; where n of them take a party
PlaceOf(h, n) == IF n = 0 THEN Origin ELSE h[n].to

ConfOK(cf) ==
    /\ cf.provider \in {"iknp", "base", "ferret"} /\ cf.malicious \in BOOLEAN
    /\ cf.s \in [0..(MaxCalls + 1) -> Vector]
    /\ cf.provider # "iknp" => \A e \in 0..(MaxCalls + 1) : cf.s[e][0]
    /\ cf.provider = "ferret" => ~cf.malicious

CallOK(t, n) ==
    /\ t.nr = n /\ t.call \in Calls /\ ConfOK(t.conf)
    /\ n \in 1..(MaxCalls + 1) /\ t.to.epoch <= n
    /\ t.from \in Places /\ t.to = After(t.conf, t.call, t.from)
    /\ Offers(t.conf, t.call, t.from.epoch)
    /\ t.conf.provider # "ferret" => t.from.pos % Width = 0
    /\ t.from.gid % Batch = 0

Chosen(t) ==
    /\ t.chose.r \in [Index(t) -> BOOLEAN] /\ (~Own(t) => t.chose.r = t.call.r)
    /\ t.chose.localR \in [CheckIndex -> BOOLEAN]
    /\ t.chose.x \in [Index(t) -> BOOLEAN]

HistoryOK(cf, cs, h) ==
    /\ cs \in Seq(Calls) /\ ConfOK(cf) /\ Len(cs) <= MaxCalls + 1
    /\ Len(h) = Len(cs) /\ IsSeq(h)
    /\ \A n \in 1..Len(cs) : h[n].call = cs[n] /\ h[n].conf = cf /\ CallOK(h[n], n)
                             /\ Chosen(h[n]) /\ h[n].from = PlaceOf(h, n - 1)
    /\ \A m, n \in 1..Len(cs) : m < n => h[m].to.alice <= h[n].from.alice
                                         /\ h[m].to.bob <= h[n].from.bob

Between(h, p, rec) ==
    LET at == PlaceOf(h, rec.cnt)
    IN  /\ rec.epoch = at.epoch /\ rec.pos = at.pos /\ rec.gid = at.gid

\* Between two calls ALICE has the secret of the last set-up.
SecretOK(cf, rec) ==
    /\ cf.provider # "ferret" /\ rec.epoch > 0 => rec.s = SecretAt(cf, rec.epoch)
    /\ cf.provider = "ferret" \/ rec.epoch > 0 => rec.delta = SecretAt(cf, rec.epoch)

\* Each call has left the Delta of its rows.
DeltasOK(h, rec) ==
    /\ IsSeq(rec.deltas) /\ Len(rec.deltas) = Len(rec.out)
    /\ \A m \in 1..Len(rec.deltas) : rec.deltas[m] = Sec(h[m])

PartyOK(cf, h, p, rec) ==
    /\ rec.cnt \in 0..Len(h) /\ rec.at \in Nat
    /\ IsSeq(rec.out) /\ Len(rec.out) = rec.cnt - (IF rec.pc = "idle" THEN 0 ELSE 1)
    /\ \A m \in 1..Len(rec.out) : rec.out[m] = OutOf(h[m], p)
    /\ \A k \in Slot : rec.local[k].plus \in Vector
    /\ IF rec.pc = "idle" THEN Between(h, p, rec) ELSE rec.cnt > 0 /\ InCall(h[rec.cnt], p, rec)
    /\ p = "ALICE" /\ rec.pc = "idle" /\ cf.provider # "ferret" /\ rec.epoch > 0 =>
          rec.key = KeysIn(cf, rec.epoch, BaseN)
    /\ p = "ALICE" => /\ DeltasOK(h, rec)
                      /\ rec.pc = "idle" => SecretOK(cf, rec)

SentOf(h, p, rec) ==
    IF rec.pc = "idle" THEN SentAt(PlaceOf(h, rec.cnt), p)
    ELSE SentAt(h[rec.cnt].from, p) + Written(h[rec.cnt], p, rec.pc, rec.at)
ReadOf(h, p, rec) ==
    IF rec.pc = "idle" THEN SentAt(PlaceOf(h, rec.cnt), Peer(p))
    ELSE SentAt(h[rec.cnt].from, Peer(p)) + WasRead(h[rec.cnt], p, rec.pc, rec.at)

(* What is on its way from p, who is in call cnt: all its messages but the first
   `first', up to the last-th. *)
Stretch(h, p, cnt, s, first, last) ==
    /\ IsSeq(s) /\ first <= last /\ Len(s) = last - first
    /\ \A n \in 1..cnt : \A o \in 0..(Count(h[n], p) - 1) :
          LET k == SentAt(h[n].from, p) + o
          IN  first <= k /\ k < last => s[k - first + 1] = MessageOf(h[n], p, o)

\* What is on its way from p
Outgoing(p) == net[Peer(p)] \o pend[p]

Inv(cs, h) ==
    /\ HistoryOK(conf, cs, h)
    /\ ChannelOK
    /\ me = [p \in Party |-> me[p]] /\ \A p \in Party : Record(me[p])
    /\ \A p \in Party : PartyOK(conf, h, p, me[p])
    /\ \A p \in Party : Stretch(h, p, me[p].cnt, Outgoing(p), ReadOf(h, Peer(p), me[Peer(p)]),
                               SentOf(h, p, me[p]))

IndInv == \E h : Inv(calls, h)

(*------------------------------- arithmetic -----------------------------*)
LEMMA Distribute ==
    ASSUME NEW x \in Int, NEW y \in Int, NEW b \in Int
    PROVE  /\ (x + y) * b = x * b + y * b /\ (x - y) * b = x * b - y * b
           /\ (x + 1) * b = x * b + b /\ x * b \in Int
OBVIOUS

LEMMA TimesMonotone ==
    ASSUME NEW b \in Nat, NEW x \in Int, NEW y \in Int, x < y
    PROVE  x * b + b <= y * b
<1> DEFINE k == y - x - 1
<1>1. k \in Nat /\ y = x + (k + 1)
    OBVIOUS
<1>2. k * b \in Nat
    BY <1>1
<1>3. y * b = x * b + (k * b + b)
    BY <1>1
<1> QED BY <1>2, <1>3

LEMMA Divided ==
    ASSUME NEW b \in Nat \ {0}, NEW i \in Nat
    PROVE  /\ i \div b \in Nat /\ i % b \in 0..(b - 1)
           /\ i = (i \div b) * b + (i % b)
<1>1. /\ i \div b \in Int /\ i % b \in 0..(b - 1)
      /\ i = b * (i \div b) + (i % b)
    OBVIOUS
<1> DEFINE q == i \div b
           r == i % b
<1> HIDE DEF q, r
<1>2. q \in Int /\ r \in 0..(b - 1) /\ i = q * b + r
    BY <1>1 DEF q, r
<1>3. q >= 0
    <2>1. q < 0 => q * b + b <= 0 * b
        BY <1>2, TimesMonotone
    <2>2. 0 * b = 0 /\ q * b \in Int
        BY <1>2
    <2> QED BY <1>2, <2>1, <2>2
<1>4. q \in Nat
    BY <1>2, <1>3
<1> QED BY <1>2, <1>4 DEF q, r

\* Division with remainder is unique.
LEMMA QuotientIs ==
    ASSUME NEW b \in Nat \ {0}, NEW i \in Nat, NEW q \in Int, NEW m \in 0..(b - 1),
           i = q * b + m
    PROVE  i \div b = q /\ i % b = m
<1> DEFINE x == i \div b
           r == i % b
<1>1. x \in Int /\ r \in 0..(b - 1) /\ i = x * b + r
    BY Divided
<1> HIDE DEF x, r
<1>2. x * b \in Int /\ q * b \in Int
    BY <1>1
<1>3. ~(x < q)
    <2>1. x < q => x * b + b <= q * b
        BY <1>1, TimesMonotone
    <2> QED BY <1>1, <1>2, <2>1
<1>4. ~(q < x)
    <2>1. q < x => q * b + b <= x * b
        BY <1>1, TimesMonotone
    <2> QED BY <1>1, <1>2, <2>1
<1>5. x = q
    BY <1>1, <1>3, <1>4
<1> QED BY <1>1, <1>2, <1>5 DEF x, r

LEMMA MultipleOf ==
    ASSUME NEW b \in Nat \ {0}, NEW k \in Nat
    PROVE  (k * b) % b = 0 /\ (b * k) % b = 0
<1>1. k * b \in Nat /\ k * b = k * b + 0 /\ b * k = k * b /\ 0 \in 0..(b - 1)
    OBVIOUS
<1> QED BY <1>1, QuotientIs

LEMMA MultipleSum ==
    ASSUME NEW b \in Nat \ {0}, NEW x \in Nat, NEW y \in Nat, x % b = 0, y % b = 0
    PROVE  (x + y) % b = 0
<1> DEFINE k == x \div b
           l == y \div b
<1>1. k \in Nat /\ l \in Nat /\ x = k * b + 0 /\ y = l * b + 0
    BY Divided
<1> HIDE DEF k, l
<1>2. x + y = (k + l) * b + 0 /\ k + l \in Int /\ x + y \in Nat /\ 0 \in 0..(b - 1)
    BY <1>1, Distribute
<1> QED BY <1>2, QuotientIs

(*------------------------- rounds, rows and batches ---------------------*)
LEMMA RoundedFacts ==
    ASSUME NEW n \in Nat
    PROVE  /\ Rounded(n) \in Nat /\ Rounded(n) >= n /\ Rounded(n) % Width = 0
           /\ n % Width = 0 => Rounded(n) = n
<1>1. Width \in Nat \ {0}
    BY IknpAssumption
<1> DEFINE m == n + Width - 1
           q == m \div Width
           r == m % Width
<1>2. m \in Nat
    BY <1>1
<1> HIDE DEF m
<1>3. q \in Nat /\ r \in 0..(Width - 1) /\ m = q * Width + r
    BY <1>1, <1>2, Divided
<1>4. Rounded(n) = q * Width
    BY DEF Rounded, m
<1> HIDE DEF q, r
<1>5. q * Width \in Nat /\ q * Width = m - r
    BY <1>1, <1>2, <1>3
<1>6. q * Width >= n
    BY <1>1, <1>3, <1>5 DEF m
<1>7. (q * Width) % Width = 0
    BY <1>1, <1>3, MultipleOf
<1>8. ASSUME n % Width = 0 PROVE q * Width = n
    <2> DEFINE x == n \div Width
    <2>1. n = x * Width + 0 /\ x \in Int
        BY <1>1, <1>8, Divided
    <2> HIDE DEF x
    <2>2. m = x * Width + (Width - 1) /\ Width - 1 \in 0..(Width - 1)
        BY <1>1, <2>1 DEF m
    <2>3. q = x
        BY <1>1, <1>2, <2>1, <2>2, QuotientIs DEF q
    <2>4. x * Width + 0 = x * Width
        BY <1>1, <2>1
    <2> QED BY <2>1, <2>3, <2>4
<1> QED BY <1>4, <1>5, <1>6, <1>7, <1>8

LEMMA RoundedSizes ==
    Rounded(BlockSize) = BlockSize /\ Rounded(CheckRows) = CheckRows /\ Rounded(0) = 0
<1>1. 0 % Width = 0
    BY IknpAssumption
<1> QED BY <1>1, IknpAssumption, RoundedFacts

\* The blocks and the remainder of n rows, in rounds
LEMMA RoundsFacts ==
    ASSUME NEW cf, cf.malicious \in BOOLEAN, NEW n \in Nat
    PROVE  LET q == n \div BlockSize
           IN  /\ q \in Nat /\ n % BlockSize \in 0..(BlockSize - 1)
               /\ n = q * BlockSize + (n % BlockSize)
               /\ RoundsIn(cf, n) \in Nat /\ RoundsIn(cf, n) >= q
               /\ n > 0 => RoundsIn(cf, n) > 0
<1>1. BlockSize \in Nat \ {0}
    BY IknpAssumption
<1> DEFINE q == n \div BlockSize
           m == n % BlockSize
<1>2. q \in Nat /\ m \in 0..(BlockSize - 1) /\ n = q * BlockSize + m
    BY <1>1, Divided
<1>3. RoundsIn(cf, n) = q + (IF m > 0 THEN 1 ELSE 0) + (IF cf.malicious THEN 1 ELSE 0)
    BY DEF RoundsIn
<1> HIDE DEF q, m
<1>4. n > 0 => q > 0 \/ m > 0
    <2>1. 0 * BlockSize = 0
        BY <1>1
    <2> QED BY <1>2, <2>1
<1> QED BY <1>2, <1>3, <1>4 DEF q, m

(* A round moves on by its rounded size: blocks, the remainder, the check rows. *)
LEMMA MovedStep ==
    ASSUME NEW cf, cf.malicious \in BOOLEAN, NEW n \in Nat, NEW j \in 0..(RoundsIn(cf, n) - 1)
    PROVE  /\ SizeIn(cf, n, j) \in Nat
           /\ Moved(n, j + 1) = Moved(n, j) + Rounded(SizeIn(cf, n, j))
<1> DEFINE q == n \div BlockSize
           m == n % BlockSize
           b == q * BlockSize
<1>1. BlockSize \in Nat \ {0} /\ CheckRows \in Nat
    BY IknpAssumption
<1>2. q \in Nat /\ m \in Nat /\ m <= BlockSize - 1 /\ b \in Nat /\ RoundsIn(cf, n) \in Nat
    <2>1. q \in Nat /\ m \in 0..(BlockSize - 1) /\ RoundsIn(cf, n) \in Nat
        BY RoundsFacts
    <2> HIDE DEF q, m
    <2> QED BY <1>1, <2>1
<1>3. RoundsIn(cf, n) = q + (IF m > 0 THEN 1 ELSE 0) + (IF cf.malicious THEN 1 ELSE 0)
    BY DEF RoundsIn
<1>4. \A i \in Nat : Moved(n, i) = IF i <= q THEN i * BlockSize
                                   ELSE IF i = q + 1 /\ m > 0 THEN b + Rounded(m)
                                   ELSE b + Rounded(m) + CheckRows
    BY DEF Moved
<1>5. SizeIn(cf, n, j) = IF cf.malicious /\ j = RoundsIn(cf, n) - 1 THEN CheckRows
                         ELSE IF j < q THEN BlockSize ELSE m
    BY DEF SizeIn, CheckRound
<1>6. Rounded(m) \in Nat /\ (m = 0 => Rounded(m) = 0)
    BY <1>2, RoundedFacts, RoundedSizes
<1>7. (j + 1) * BlockSize = j * BlockSize + BlockSize /\ j * BlockSize \in Int
    BY <1>1, <1>2, Distribute
<1>8. q * BlockSize = b
    OBVIOUS
<1> HIDE DEF q, m, b
<1>9. CASE j < q
    <2>1. ~(cf.malicious /\ j = RoundsIn(cf, n) - 1)
        BY <1>2, <1>3, <1>9
    <2> QED BY <1>1, <1>2, <1>4, <1>5, <1>7, <1>9, <2>1, RoundedSizes
<1>10. CASE j >= q /\ cf.malicious /\ j = RoundsIn(cf, n) - 1
    <2>1. SizeIn(cf, n, j) = CheckRows /\ Rounded(CheckRows) = CheckRows
        BY <1>5, <1>10, RoundedSizes
    <2>2. CASE m > 0
        <3>1. j = q + 1
            BY <1>2, <1>3, <1>10, <2>2
        <3> QED BY <1>1, <1>2, <1>4, <1>6, <2>1, <2>2, <3>1
    <2>3. CASE m = 0
        <3>1. j = q
            BY <1>2, <1>3, <1>10, <2>3
        <3> QED BY <1>1, <1>2, <1>4, <1>6, <1>8, <2>1, <2>3, <3>1
    <2> QED BY <1>2, <2>2, <2>3
<1>11. CASE j >= q /\ ~(cf.malicious /\ j = RoundsIn(cf, n) - 1)
    <2>1. j = q /\ m > 0
        BY <1>2, <1>3, <1>11
    <2>2. SizeIn(cf, n, j) = m
        BY <1>5, <1>11, <2>1
    <2> QED BY <1>2, <1>4, <1>6, <1>8, <2>1, <2>2
<1> QED BY <1>2, <1>9, <1>10, <1>11

LEMMA MovedFacts ==
    ASSUME NEW n \in Nat, NEW j \in Nat
    PROVE  Moved(n, j) \in Nat /\ Moved(n, j) % Width = 0 /\ Moved(n, 0) = 0
<1> DEFINE q == n \div BlockSize
           m == n % BlockSize
<1>1. /\ BlockSize \in Nat \ {0} /\ Width \in Nat \ {0} /\ CheckRows \in Nat
      /\ BlockSize % Width = 0 /\ CheckRows % Width = 0
    BY IknpAssumption
<1>2. q \in Nat /\ m \in Nat
    BY <1>1, Divided
<1>3. Moved(n, j) = IF j <= q THEN j * BlockSize
                    ELSE IF j = q + 1 /\ m > 0 THEN q * BlockSize + Rounded(m)
                    ELSE q * BlockSize + Rounded(m) + CheckRows
    BY DEF Moved
<1>4. Moved(n, 0) = 0 * BlockSize
    BY <1>2 DEF Moved
<1> HIDE DEF q, m
<1>5. ASSUME NEW x \in Nat PROVE x * BlockSize \in Nat /\ (x * BlockSize) % Width = 0
    <2> DEFINE k == BlockSize \div Width
    <2>1. k \in Nat /\ BlockSize = k * Width + 0
        BY <1>1, Divided
    <2> HIDE DEF k
    <2>2. x * BlockSize = (x * k) * Width /\ x * k \in Nat /\ x * BlockSize \in Nat
        BY <1>1, <2>1
    <2> QED BY <1>1, <2>2, MultipleOf
<1>6. Rounded(m) \in Nat /\ Rounded(m) % Width = 0
    BY <1>2, RoundedFacts
<1>7. /\ q * BlockSize + Rounded(m) \in Nat /\ (q * BlockSize + Rounded(m)) % Width = 0
    BY <1>1, <1>2, <1>5, <1>6, MultipleSum
<1>8. (q * BlockSize + Rounded(m) + CheckRows) % Width = 0
    BY <1>1, <1>7, MultipleSum
<1> QED BY <1>1, <1>3, <1>4, <1>5, <1>2, <1>7, <1>8

\* Row i of n comes from place i % BlockSize of round i \div BlockSize.
LEMMA RowsRound ==
    ASSUME NEW cf, cf.malicious \in BOOLEAN, NEW n \in Nat, NEW i \in 0..(n - 1)
    PROVE  LET j == i \div BlockSize
               k == i % BlockSize
           IN  /\ j \in 0..(RoundsIn(cf, n) - 1) /\ ~CheckRound(cf, n, j)
               /\ k \in Slot /\ k < SizeIn(cf, n, j)
               /\ Moved(n, j) + k = i /\ j * BlockSize + k = i
<1> DEFINE j == i \div BlockSize
           k == i % BlockSize
           q == n \div BlockSize
           m == n % BlockSize
<1>1. BlockSize \in Nat \ {0}
    BY IknpAssumption
<1>2. i \in Nat /\ i < n
    OBVIOUS
<1>3. j \in Nat /\ k \in 0..(BlockSize - 1) /\ i = j * BlockSize + k
    BY <1>1, <1>2, Divided
<1>4. q \in Nat /\ m \in 0..(BlockSize - 1) /\ n = q * BlockSize + m
    BY <1>1, Divided
<1>5. RoundsIn(cf, n) = q + (IF m > 0 THEN 1 ELSE 0) + (IF cf.malicious THEN 1 ELSE 0)
    BY DEF RoundsIn
<1>6. Moved(n, j) = IF j <= q THEN j * BlockSize
                    ELSE IF j = q + 1 /\ m > 0 THEN q * BlockSize + Rounded(m)
                    ELSE q * BlockSize + Rounded(m) + CheckRows
    BY DEF Moved
<1>7. SizeIn(cf, n, j) = IF CheckRound(cf, n, j) THEN CheckRows
                         ELSE IF j < q THEN BlockSize ELSE m
    BY DEF SizeIn
<1>8. CheckRound(cf, n, j) = (cf.malicious /\ j = RoundsIn(cf, n) - 1)
    BY DEF CheckRound
<1> HIDE DEF j, k, q, m
<1>9. q * BlockSize \in Int /\ j * BlockSize \in Int
    BY <1>1, <1>3, <1>4
<1>10. j < q \/ (j = q /\ k < m)
    <2>1. CASE j > q
        <3>1. q * BlockSize + BlockSize <= j * BlockSize
            BY <1>1, <1>3, <1>4, <2>1, TimesMonotone
        <3> QED BY <1>1, <1>2, <1>3, <1>4, <1>9, <3>1
    <2>2. CASE j = q
        BY <1>1, <1>2, <1>3, <1>4, <1>9, <2>2
    <2> QED BY <1>3, <1>4, <2>1, <2>2
<1>11. Moved(n, j) = j * BlockSize
    BY <1>3, <1>4, <1>6, <1>10
<1>12. j < RoundsIn(cf, n) /\ ~(cf.malicious /\ j = RoundsIn(cf, n) - 1)
    BY <1>3, <1>4, <1>5, <1>10
<1>13. RoundsIn(cf, n) \in Int
    BY <1>4, <1>5
<1>14. j \in 0..(RoundsIn(cf, n) - 1)
    BY <1>3, <1>12, <1>13
<1>15. ~CheckRound(cf, n, j) /\ k < SizeIn(cf, n, j)
    <2>1. ~CheckRound(cf, n, j)
        BY <1>8, <1>12
    <2>2. SizeIn(cf, n, j) = IF j < q THEN BlockSize ELSE m
        BY <1>7, <2>1
    <2>3. k < SizeIn(cf, n, j)
        BY <1>1, <1>3, <1>4, <1>10, <2>2
    <2> QED BY <2>1, <2>3
<1>16. k \in Slot /\ Moved(n, j) + k = i /\ j * BlockSize + k = i
    BY <1>1, <1>3, <1>11 DEF Slot
<1> QED BY <1>14, <1>15, <1>16 DEF j, k

LEMMA BatchFacts ==
    ASSUME NEW n \in Nat
    PROVE  /\ Batches(n) \in Nat
           /\ \A i \in 0..(n - 1) : i \div Batch \in 0..(Batches(n) - 1)
<1>1. Batch \in Nat \ {0}
    BY CotAssumption
<1> DEFINE m == n + Batch - 1
           q == m \div Batch
           r == m % Batch
<1>2. m \in Nat
    BY <1>1
<1>3. Batches(n) = q
    BY DEF Batches
<1> HIDE DEF m
<1>4. q \in Nat /\ r \in 0..(Batch - 1) /\ m = q * Batch + r
    BY <1>1, <1>2, Divided
<1> HIDE DEF q, r
<1>5. ASSUME NEW i \in 0..(n - 1)
      PROVE  i \div Batch \in 0..(q - 1)
    <2> DEFINE j == i \div Batch
               k == i % Batch
    <2>1. i \in Nat /\ i <= n - 1
        OBVIOUS
    <2>2. j \in Nat /\ k \in 0..(Batch - 1) /\ i = j * Batch + k
        BY <1>1, <2>1, Divided
    <2> HIDE DEF j, k
    <2>3. j * Batch \in Int /\ q * Batch \in Int
        BY <1>1, <1>4, <2>2
    <2>4. ~(q <= j)
        <3>1. q < j => q * Batch + Batch <= j * Batch
            BY <1>1, <1>4, <2>2, TimesMonotone
        <3> QED BY <1>1, <1>4, <2>1, <2>2, <2>3, <3>1 DEF m
    <2> QED BY <1>4, <2>2, <2>4 DEF j
<1> QED BY <1>3, <1>4, <1>5

(*-------------------------------- sequences -----------------------------*)
LEMMA OneType ==
    ASSUME NEW s, IsSeq(s), NEW t, IsSeq(t)
    PROVE  \E T : s \in Seq(T) /\ t \in Seq(T)
<1>1. PICK S : s \in Seq(S)
    BY DEF IsSeq
<1>2. PICK T : t \in Seq(T)
    BY DEF IsSeq
<1>3. s \in Seq(S \cup T) /\ t \in Seq(S \cup T)
    BY <1>1, <1>2
<1> QED BY <1>3

LEMMA IsSeqOf ==
    ASSUME NEW s, IsSeq(s)
    PROVE  Len(s) \in Nat /\ DOMAIN s = 1..Len(s) /\ (s = <<>> <=> Len(s) = 0)
<1>1. PICK S : s \in Seq(S)
    BY DEF IsSeq
<1> QED BY <1>1

LEMMA Joined ==
    ASSUME NEW s, IsSeq(s), NEW t, IsSeq(t)
    PROVE  /\ IsSeq(s \o t) /\ Len(s \o t) = Len(s) + Len(t)
           /\ \A i \in 1..Len(s) : (s \o t)[i] = s[i]
           /\ \A i \in 1..Len(t) : (s \o t)[Len(s) + i] = t[i]
<1>1. PICK T : s \in Seq(T) /\ t \in Seq(T)
    BY OneType
<1>2. Len(s) \in Nat /\ Len(t) \in Nat
    BY <1>1
<1>3. s \o t \in Seq(T)
    BY <1>1
<1>4. /\ Len(s \o t) = Len(s) + Len(t)
      /\ \A i \in 1..Len(s) : (s \o t)[i] = s[i]
      /\ \A i \in 1..Len(t) : (s \o t)[Len(s) + i] = t[i]
    BY <1>1, <1>2, ConcatProperties
<1> QED BY <1>3, <1>4 DEF IsSeq

LEMMA JoinedThree ==
    ASSUME NEW s, IsSeq(s), NEW t, IsSeq(t), NEW u, IsSeq(u)
    PROVE  (s \o t) \o u = s \o (t \o u) /\ s \o <<>> = s
<1>1. PICK S : s \in Seq(S) /\ t \in Seq(S)
    BY OneType
<1>2. PICK T : u \in Seq(T)
    BY DEF IsSeq
<1>3. s \in Seq(S \cup T) /\ t \in Seq(S \cup T) /\ u \in Seq(S \cup T)
    BY <1>1, <1>2
<1>4. (s \o t) \o u = s \o (t \o u)
    BY <1>3, ConcatAssociative
<1>5. s \o <<>> = s
    BY <1>1
<1> QED BY <1>4, <1>5

LEMMA TailFacts ==
    ASSUME NEW s, IsSeq(s), s # <<>>
    PROVE  /\ Len(s) \in Nat \ {0} /\ Head(s) = s[1]
           /\ IsSeq(Tail(s)) /\ Len(Tail(s)) = Len(s) - 1
           /\ \A i \in 1..(Len(s) - 1) : Tail(s)[i] = s[i + 1]
<1>1. PICK S : s \in Seq(S)
    BY DEF IsSeq
<1>2. Tail(s) \in Seq(S) /\ Len(s) \in Nat \ {0}
    BY <1>1
<1>3. Head(s) = s[1] /\ Len(Tail(s)) = Len(s) - 1
      /\ \A i \in 1..(Len(s) - 1) : Tail(s)[i] = s[i + 1]
    BY <1>1, <1>2, HeadTailProperties
<1> QED BY <1>2, <1>3 DEF IsSeq

LEMMA TailJoined ==
    ASSUME NEW s, IsSeq(s), s # <<>>, NEW t, IsSeq(t)
    PROVE  Tail(s \o t) = Tail(s) \o t /\ s \o t # <<>> /\ Head(s \o t) = Head(s)
<1>1. PICK T : s \in Seq(T) /\ t \in Seq(T)
    BY OneType
<1> DEFINE u == Tail(s)
           l == Len(s)
           m == Len(t)
<1>2. /\ l \in Nat \ {0} /\ m \in Nat /\ Head(s) = s[1] /\ IsSeq(u) /\ Len(u) = l - 1
      /\ \A i \in 1..(l - 1) : u[i] = s[i + 1]
    BY <1>1, TailFacts, IsSeqOf
<1>3. /\ IsSeq(s \o t) /\ Len(s \o t) = l + m
      /\ \A i \in 1..l : (s \o t)[i] = s[i]
      /\ \A i \in 1..m : (s \o t)[l + i] = t[i]
    BY Joined
<1>4. /\ IsSeq(u \o t) /\ Len(u \o t) = Len(u) + m
      /\ \A i \in 1..Len(u) : (u \o t)[i] = u[i]
      /\ \A i \in 1..m : (u \o t)[Len(u) + i] = t[i]
    BY <1>2, Joined
<1>5. s \o t # <<>>
    BY <1>2, <1>3, IsSeqOf
<1> DEFINE x == s \o t
           y == u \o t
<1> HIDE DEF u, l, m, x, y
<1>6. /\ IsSeq(Tail(x)) /\ Len(Tail(x)) = l + m - 1 /\ Head(x) = x[1]
      /\ \A i \in 1..(l + m - 1) : Tail(x)[i] = x[i + 1]
    <2>1. IsSeq(x) /\ x # <<>> /\ Len(x) = l + m
        BY <1>3, <1>5 DEF x
    <2>2. /\ IsSeq(Tail(x)) /\ Len(Tail(x)) = Len(x) - 1 /\ Head(x) = x[1]
          /\ \A i \in 1..(Len(x) - 1) : Tail(x)[i] = x[i + 1]
        BY <2>1, TailFacts
    <2>3. Len(x) - 1 = l + m - 1
        BY <1>2, <2>1
    <2> QED BY <2>2, <2>3
<1>7. ASSUME NEW i \in 1..(l + m - 1)
      PROVE  x[i + 1] = y[i]
    <2>1. CASE i <= l - 1
        <3>1. i + 1 \in 1..l /\ i \in 1..(l - 1)
            BY <1>2, <2>1
        <3> QED BY <1>2, <1>3, <1>4, <3>1 DEF x, y
    <2>2. CASE i > l - 1
        <3> DEFINE k == i - (l - 1)
        <3>1. k \in 1..m /\ i = (l - 1) + k /\ i + 1 = l + k
            BY <1>2, <2>2
        <3> HIDE DEF k
        <3>2. x[l + k] = t[k] /\ y[(l - 1) + k] = t[k]
            BY <1>2, <1>3, <1>4, <3>1 DEF x, y
        <3> QED BY <3>1, <3>2
    <2> QED BY <1>2, <2>1, <2>2
<1>8. Tail(x) = y
    <2>1. PICK X : Tail(x) \in Seq(X) /\ y \in Seq(X)
        BY <1>4, <1>6, OneType DEF y
    <2>2. Len(Tail(x)) = Len(y) /\ Len(y) = l + m - 1
        BY <1>2, <1>4, <1>6 DEF y
    <2>3. \A i \in 1..Len(y) : Tail(x)[i] = y[i]
        BY <1>6, <1>7, <2>2
    <2> QED BY <2>1, <2>2, <2>3, SeqEqual
<1>9. Head(x) = Head(s)
    <2>1. 1 \in 1..l
        BY <1>2
    <2> QED BY <1>2, <1>3, <1>6, <2>1 DEF x
<1> QED BY <1>5, <1>8, <1>9 DEF x, y, u

LEMMA Appended ==
    ASSUME NEW s, IsSeq(s), NEW e
    PROVE  /\ IsSeq(Append(s, e)) /\ Len(Append(s, e)) = Len(s) + 1
           /\ \A i \in 1..Len(s) : Append(s, e)[i] = s[i]
           /\ Append(s, e)[Len(s) + 1] = e
<1>1. PICK S : s \in Seq(S)
    BY DEF IsSeq
<1>2. s \in Seq(S \cup {e}) /\ e \in S \cup {e}
    BY <1>1
<1>3. Append(s, e) \in Seq(S \cup {e})
    BY <1>2
<1>4. /\ Len(Append(s, e)) = Len(s) + 1
      /\ \A i \in 1..Len(s) : Append(s, e)[i] = s[i]
      /\ Append(s, e)[Len(s) + 1] = e
    BY <1>2, AppendProperties
<1> QED BY <1>3, <1>4 DEF IsSeq

LEMMA Single ==
    ASSUME NEW m
    PROVE  IsSeq(<<m>>) /\ Len(<<m>>) = 1 /\ <<m>>[1] = m /\ IsSeq(<<>>) /\ Len(<<>>) = 0
<1>1. <<m>> \in Seq({m}) /\ <<>> \in Seq({m})
    OBVIOUS
<1> QED BY <1>1 DEF IsSeq

LEMMA Empty == IsSeq(<<>>) /\ Len(<<>>) = 0
<1>1. <<>> \in Seq({})
    OBVIOUS
<1> QED BY <1>1 DEF IsSeq

LEMMA FromTuple ==
    ASSUME NEW n \in Nat, NEW f, f = [i \in 1..n |-> f[i]]
    PROVE  IsSeq(f) /\ Len(f) = n
<1>1. f \in [1..n -> {f[i] : i \in 1..n}]
    OBVIOUS
<1>2. f \in Seq({f[i] : i \in 1..n})
    BY <1>1
<1>3. IsSeq(f) /\ DOMAIN f = 1..n
    BY <1>1, <1>2 DEF IsSeq
<1>4. Len(f) \in Nat /\ 1..Len(f) = 1..n
    BY <1>3, IsSeqOf
<1>5. Len(f) = n
    BY <1>4
<1> QED BY <1>3, <1>5

(*-------------------------------- the channel ---------------------------*)
(* p writes ms at the end of what is on its way, and takes the first of what
   is on its way to it, if reads = 1. *)
Passes(p, reads, ms) ==
    /\ ChannelOK' /\ IsSeq(ms)
    /\ Outgoing(p)' = Outgoing(p) \o ms
    /\ Outgoing(Peer(p))' = IF reads = 1 THEN Tail(Outgoing(Peer(p))) ELSE Outgoing(Peer(p))
    /\ reads = 1 => Outgoing(Peer(p)) # <<>> /\ Incoming(p) = Head(Outgoing(Peer(p)))

LEMMA Peers ==
    ASSUME NEW p \in Party
    PROVE  Peer(p) \in Party /\ Peer(p) # p /\ Peer(Peer(p)) = p
           /\ \A q \in Party : q = p \/ q = Peer(p)
BY DEF Party, Peer

LEMMA OutgoingIsSeq ==
    ASSUME ChannelOK, NEW p \in Party
    PROVE  IsSeq(Outgoing(p))
<1>1. IsSeq(net[Peer(p)]) /\ IsSeq(pend[p])
    BY Peers DEF ChannelOK
<1> QED BY <1>1, Joined DEF Outgoing

LEMMA SilentPasses ==
    ASSUME ChannelOK, NEW p \in Party, Silent
    PROVE  Passes(p, 0, <<>>)
<1>1. net' = net /\ pend' = pend
    BY DEF Silent
<1>2. ChannelOK'
    BY <1>1 DEF ChannelOK
<1>3. Outgoing(p)' = Outgoing(p) /\ Outgoing(Peer(p))' = Outgoing(Peer(p))
    BY <1>1 DEF Outgoing
<1>4. Outgoing(p) \o <<>> = Outgoing(p)
    BY OutgoingIsSeq, Single, JoinedThree
<1>5. IsSeq(<<>>) /\ 0 # 1
    BY Empty
<1> QED BY <1>2, <1>3, <1>4, <1>5 DEF Passes

LEMMA WritePasses ==
    ASSUME ChannelOK, NEW p \in Party, NEW ms, IsSeq(ms), Write(p, ms)
    PROVE  Passes(p, 0, ms)
<1> DEFINE q == Peer(p)
<1>1. q \in Party /\ q # p /\ Peer(q) = p /\ \A x \in Party : x = p \/ x = q
    BY Peers
<1>2. IsSeq(net[q]) /\ IsSeq(pend[p]) /\ IsSeq(pend[p] \o ms)
    BY <1>1, Joined DEF ChannelOK
<1>3. pend' = [pend EXCEPT ![p] = pend[p] \o ms] /\ net' = net
    BY DEF Write
<1> HIDE DEF q
<1>4. pend'[p] = pend[p] \o ms /\ pend'[q] = pend[q] /\ pend' = [x \in Party |-> pend'[x]]
    BY <1>1, <1>3 DEF ChannelOK
<1>5. ChannelOK'
    BY <1>1, <1>2, <1>3, <1>4 DEF ChannelOK
<1>6. (net[q] \o pend[p]) \o ms = net[q] \o (pend[p] \o ms)
    <2> DEFINE s == net[q]
               t == pend[p]
    <2>1. IsSeq(s) /\ IsSeq(t)
        BY <1>2
    <2> HIDE DEF s, t
    <2>2. (s \o t) \o ms = s \o (t \o ms)
        BY <2>1, JoinedThree
    <2> QED BY <2>2 DEF s, t
<1>7. Outgoing(p)' = Outgoing(p) \o ms
    BY <1>3, <1>4, <1>6 DEF Outgoing, q
<1>8. Outgoing(q)' = Outgoing(q)
    BY <1>1, <1>3, <1>4 DEF Outgoing
<1> QED BY <1>5, <1>7, <1>8 DEF Passes, q

LEMMA SendPasses ==
    ASSUME ChannelOK, NEW p \in Party, NEW ms, IsSeq(ms), Send(p, ms)
    PROVE  Passes(p, 0, ms)
<1> DEFINE q == Peer(p)
<1>1. q \in Party /\ q # p /\ Peer(q) = p /\ \A x \in Party : x = p \/ x = q
    BY Peers
<1>2. /\ IsSeq(net[q]) /\ IsSeq(net[p]) /\ IsSeq(pend[p]) /\ IsSeq(pend[q])
      /\ IsSeq(net[q] \o pend[p]) /\ IsSeq((net[q] \o pend[p]) \o ms)
    BY <1>1, Joined DEF ChannelOK
<1>3. /\ net' = [net EXCEPT ![q] = (net[q] \o pend[p]) \o ms]
      /\ pend' = [pend EXCEPT ![p] = <<>>]
    BY DEF Send
<1> HIDE DEF q
<1>4. /\ net'[q] = (net[q] \o pend[p]) \o ms /\ net'[p] = net[p]
      /\ pend'[p] = <<>> /\ pend'[q] = pend[q]
      /\ net' = [x \in Party |-> net'[x]] /\ pend' = [x \in Party |-> pend'[x]]
    BY <1>1, <1>3 DEF ChannelOK
<1>5. ChannelOK'
    BY <1>1, <1>2, <1>4, Single DEF ChannelOK
<1>6. ((net[q] \o pend[p]) \o ms) \o <<>> = (net[q] \o pend[p]) \o ms
    BY <1>2, Single, JoinedThree
<1>7. Outgoing(p)' = Outgoing(p) \o ms
    BY <1>4, <1>6 DEF Outgoing, q
<1>8. Outgoing(q)' = Outgoing(q)
    BY <1>1, <1>4 DEF Outgoing
<1> QED BY <1>5, <1>7, <1>8 DEF Passes, q

LEMMA HeadOfOutgoing ==
    ASSUME ChannelOK, NEW p \in Party, CanRead(p)
    PROVE  /\ Outgoing(Peer(p)) # <<>> /\ Incoming(p) = Head(Outgoing(Peer(p)))
           /\ Tail(Outgoing(Peer(p))) = Tail(net[p]) \o pend[Peer(p)] /\ IsSeq(Tail(net[p]))
<1> DEFINE q == Peer(p)
<1>1. q \in Party /\ Peer(q) = p
    BY Peers
<1>2. IsSeq(net[p]) /\ IsSeq(pend[q]) /\ net[p] # <<>>
    BY <1>1 DEF ChannelOK, CanRead
<1>3. Outgoing(q) = net[p] \o pend[q]
    BY <1>1 DEF Outgoing
<1> QED BY <1>2, <1>3, TailFacts, TailJoined DEF Incoming

LEMMA ReadPasses ==
    ASSUME ChannelOK, NEW p \in Party, CanRead(p), Read(p)
    PROVE  Passes(p, 1, <<>>)
<1> DEFINE q == Peer(p)
<1>1. q \in Party /\ q # p /\ Peer(q) = p /\ \A x \in Party : x = p \/ x = q
    BY Peers
<1>2. net' = [net EXCEPT ![p] = Tail(net[p])] /\ pend' = pend
    BY DEF Read
<1>3. /\ Outgoing(q) # <<>> /\ Incoming(p) = Head(Outgoing(q))
      /\ Tail(Outgoing(q)) = Tail(net[p]) \o pend[q] /\ IsSeq(Tail(net[p]))
    BY HeadOfOutgoing
<1> HIDE DEF q
<1>4. net'[p] = Tail(net[p]) /\ net'[q] = net[q] /\ net' = [x \in Party |-> net'[x]]
    BY <1>1, <1>2 DEF ChannelOK
<1>5. ChannelOK'
    BY <1>1, <1>2, <1>3, <1>4 DEF ChannelOK
<1>6. Outgoing(p)' = Outgoing(p) /\ Outgoing(p) \o <<>> = Outgoing(p)
    <2>1. Outgoing(p)' = Outgoing(p)
        BY <1>2, <1>4 DEF Outgoing, q
    <2> QED BY <2>1, OutgoingIsSeq, Single, JoinedThree
<1>7. Outgoing(q)' = Tail(Outgoing(q))
    BY <1>1, <1>2, <1>3, <1>4 DEF Outgoing
<1> QED BY <1>3, <1>5, <1>6, <1>7, Single DEF Passes, q

LEMMA ReadSendPasses ==
    ASSUME ChannelOK, NEW p \in Party, NEW ms, IsSeq(ms), CanRead(p), ReadSend(p, ms)
    PROVE  Passes(p, 1, ms)
<1> DEFINE q == Peer(p)
<1>1. q \in Party /\ q # p /\ Peer(q) = p /\ \A x \in Party : x = p \/ x = q
    BY Peers
<1>2. /\ net' = [net EXCEPT ![p] = Tail(net[p]), ![q] = net[q] \o ms]
      /\ pend' = pend /\ pend[p] = <<>>
    BY <1>1 DEF ReadSend, CanRead, ChannelOK
<1>3. /\ Outgoing(q) # <<>> /\ Incoming(p) = Head(Outgoing(q))
      /\ Tail(Outgoing(q)) = Tail(net[p]) \o pend[q] /\ IsSeq(Tail(net[p]))
    BY HeadOfOutgoing
<1>4. IsSeq(net[q]) /\ IsSeq(net[q] \o ms) /\ IsSeq(pend[q]) /\ IsSeq(pend[p])
    BY <1>1, Joined DEF ChannelOK
<1> HIDE DEF q
<1>5. net'[p] = Tail(net[p]) /\ net'[q] = net[q] \o ms /\ net' = [x \in Party |-> net'[x]]
    BY <1>1, <1>2 DEF ChannelOK
<1>6. ChannelOK'
    BY <1>1, <1>2, <1>3, <1>4, <1>5 DEF ChannelOK
<1>7. (net[q] \o ms) \o <<>> = net[q] \o ms /\ net[q] \o <<>> = net[q]
    BY <1>4, Single, JoinedThree
<1>8. Outgoing(p)' = Outgoing(p) \o ms
    BY <1>2, <1>5, <1>7 DEF Outgoing, q
<1>9. Outgoing(q)' = Tail(Outgoing(q))
    BY <1>1, <1>2, <1>3, <1>5 DEF Outgoing
<1> QED BY <1>3, <1>6, <1>8, <1>9 DEF Passes, q

(*------------------------------- a call ---------------------------------*)
LEMMA CallFacts ==
    ASSUME NEW c \in Calls
    PROVE  /\ c.kind \in {"setup", "gen", "cot", "rot", "ot", "not"}
           /\ c.len \in Nat /\ (c.len = 0 <=> c.kind = "setup")
           /\ c.r \in [0..(c.len - 1) -> BOOLEAN] /\ c.given \in BOOLEAN
           /\ c.kind = "not" =>
                /\ c.items \in Nat /\ c.item \in 0..(c.items - 1)
                /\ \A b \in DOMAIN c.r : c.r[b] = BitOf(c.item, b)
BY CallAssumption

LEMMA KeysFacts ==
    ASSUME NEW c \in Calls
    PROVE  KeysOfCall(c) \in Nat /\ KeysOfCall(c) % Batch = 0
<1>1. Batch \in Nat \ {0} /\ Batches(c.len) \in Nat
    BY CotAssumption, CallFacts, BatchFacts
<1>2. (Batch * Batches(c.len)) % Batch = 0 /\ 0 % Batch = 0 /\ Batch * Batches(c.len) \in Nat
    BY <1>1, MultipleOf
<1> QED BY <1>2 DEF KeysOfCall

LEMMA RowsFacts ==
    ASSUME NEW cf, ConfOK(cf), NEW c \in Calls
    PROVE  /\ RowsDrawn(cf, c) \in Nat /\ RoundsIn(cf, c.len) \in Nat
           /\ cf.provider # "ferret" => RowsDrawn(cf, c) % Width = 0
<1>1. c.len \in Nat /\ RoundsIn(cf, c.len) \in Nat
    <2>1. c.len \in Nat /\ cf.malicious \in BOOLEAN
        BY CallFacts DEF ConfOK
    <2> QED BY <2>1, RoundsFacts
<1>2. Moved(c.len, RoundsIn(cf, c.len)) \in Nat /\ Moved(c.len, RoundsIn(cf, c.len)) % Width = 0
      /\ 0 % Width = 0
    BY <1>1, MovedFacts, IknpAssumption
<1> QED BY <1>1, <1>2 DEF RowsDrawn

LEMMA CountFacts ==
    ASSUME NEW cf, ConfOK(cf), NEW c \in Calls, NEW e
    PROVE  /\ BaseByAlice(cf, c, e) \in Nat /\ BaseByBob(cf, c, e) \in Nat
           /\ SentByAlice(cf, c, e) \in Nat /\ SentByBob(cf, c, e) \in Nat
<1>1. BaseN \in Nat /\ Batches(c.len) \in Nat /\ RoundsIn(cf, c.len) \in Nat
    BY IknpAssumption, CallFacts, BatchFacts, RowsFacts
<1>2. BaseByAlice(cf, c, e) \in Nat /\ BaseByBob(cf, c, e) \in Nat
    BY <1>1 DEF BaseByAlice, BaseByBob
<1> QED BY <1>1, <1>2 DEF SentByAlice, SentByBob

LEMMA AfterFacts ==
    ASSUME NEW cf, ConfOK(cf), NEW c \in Calls, NEW at \in Places, at.gid % Batch = 0,
           cf.provider # "ferret" => at.pos % Width = 0
    PROVE  LET to == After(cf, c, at)
           IN  /\ to \in Places /\ to.gid % Batch = 0
               /\ cf.provider # "ferret" => to.pos % Width = 0
<1>1. at.epoch \in Nat /\ at.pos \in Nat /\ at.gid \in Nat /\ at.alice \in Nat /\ at.bob \in Nat
    BY DEF Places
<1> DEFINE first == IF Renews(cf, c, at.epoch) THEN 0 ELSE at.pos
           to == After(cf, c, at)
<1>2. /\ to.epoch = at.epoch + (IF Renews(cf, c, at.epoch) THEN 1 ELSE 0)
      /\ to.pos = first + RowsDrawn(cf, c) /\ to.gid = at.gid + KeysOfCall(c)
      /\ to.alice = at.alice + SentByAlice(cf, c, at.epoch)
      /\ to.bob = at.bob + SentByBob(cf, c, at.epoch)
      /\ to = [epoch |-> to.epoch, pos |-> to.pos, gid |-> to.gid, alice |-> to.alice, bob |-> to.bob]
    BY DEF After
<1>3. first \in Nat /\ (cf.provider # "ferret" => first % Width = 0)
    BY <1>1, IknpAssumption
<1> HIDE DEF first, to
<1>4. to.epoch \in Nat /\ to.pos \in Nat /\ to.gid \in Nat /\ to.alice \in Nat /\ to.bob \in Nat
    BY <1>1, <1>2, <1>3, RowsFacts, KeysFacts, CountFacts
<1>5. to \in Places
    BY <1>2, <1>4 DEF Places
<1>6. to.gid % Batch = 0
    BY <1>1, <1>2, KeysFacts, MultipleSum, CotAssumption
<1>7. cf.provider # "ferret" => to.pos % Width = 0
    BY <1>2, <1>3, RowsFacts, MultipleSum, IknpAssumption
<1> QED BY <1>5, <1>6, <1>7 DEF to

LEMMA PlacesOf ==
    ASSUME NEW t, NEW n, CallOK(t, n)
    PROVE  /\ t.from \in Places /\ t.to \in Places /\ t.call \in Calls /\ ConfOK(t.conf) /\ t.nr = n
           /\ t.from.gid % Batch = 0 /\ t.to.gid % Batch = 0
           /\ ~Ferret(t) => t.from.pos % Width = 0 /\ t.to.pos % Width = 0
           /\ First(t) \in Nat /\ (~Ferret(t) => First(t) % Width = 0)
           /\ t.to.epoch = t.from.epoch + (IF Renews(t.conf, t.call, t.from.epoch) THEN 1 ELSE 0)
           /\ t.to.pos = First(t) + RowsDrawn(t.conf, t.call)
           /\ t.to.gid = t.from.gid + KeysOfCall(t.call)
<1>1. /\ ConfOK(t.conf) /\ t.call \in Calls /\ t.from \in Places /\ t.from.gid % Batch = 0
      /\ t.conf.provider # "ferret" => t.from.pos % Width = 0
      /\ t.to = After(t.conf, t.call, t.from) /\ t.nr = n
    BY DEF CallOK
<1>2. /\ t.to \in Places /\ t.to.gid % Batch = 0
      /\ t.conf.provider # "ferret" => t.to.pos % Width = 0
    BY <1>1, AfterFacts
<1>3. /\ t.to.epoch = t.from.epoch + (IF Renews(t.conf, t.call, t.from.epoch) THEN 1 ELSE 0)
      /\ t.to.pos = First(t) + RowsDrawn(t.conf, t.call)
      /\ t.to.gid = t.from.gid + KeysOfCall(t.call)
    BY <1>1 DEF After, First
<1>4. First(t) \in Nat /\ (~Ferret(t) => First(t) % Width = 0)
    BY <1>1, IknpAssumption DEF First, Places, Ferret
<1> QED BY <1>1, <1>2, <1>3, <1>4 DEF Ferret

\* Vectors of bits
LEMMA XorFacts ==
    ASSUME NEW v \in Vector, NEW w \in Vector
    PROVE  /\ Xor(v, w) \in Vector /\ Zero \in Vector
           /\ Xor(Zero, w) = w /\ Xor(w, w) = Zero /\ Xor(Xor(v, w), w) = v
<1>1. \A i \in Base : v[i] \in BOOLEAN /\ w[i] \in BOOLEAN
    BY DEF Vector
<1>2. v = [i \in Base |-> v[i]] /\ w = [i \in Base |-> w[i]]
    BY DEF Vector
<1>3. Xor(v, w) \in Vector /\ Zero \in Vector
    BY <1>1 DEF Xor, Zero, Vector
<1>4. Xor(Zero, w) = w
    <2>1. \A i \in Base : (FALSE # w[i]) = w[i]
        BY <1>1
    <2>2. Xor(Zero, w) = [i \in Base |-> FALSE # w[i]]
        BY DEF Xor, Zero
    <2> QED BY <1>2, <2>1, <2>2
<1>5. Xor(w, w) = Zero
    BY DEF Xor, Zero
<1>6. Xor(Xor(v, w), w) = v
    <2>1. \A i \in Base : ((v[i] # w[i]) # w[i]) = v[i]
        BY <1>1
    <2>2. Xor(Xor(v, w), w) = [i \in Base |-> (v[i] # w[i]) # w[i]]
        BY DEF Xor
    <2> QED BY <1>2, <2>1, <2>2
<1> QED BY <1>3, <1>4, <1>5, <1>6

LEMMA TimesFacts ==
    ASSUME NEW v \in Vector, NEW r \in BOOLEAN
    PROVE  Times(r, v) \in Vector /\ Xor(Times(r, v), v) = Times(~r, v)
<1>1. CASE r = TRUE
    <2>1. Times(r, v) = v /\ Times(~r, v) = Zero
        BY <1>1 DEF Times
    <2> QED BY <2>1, XorFacts
<1>2. CASE r = FALSE
    <2>1. Times(r, v) = Zero /\ Times(~r, v) = v
        BY <1>2 DEF Times
    <2> QED BY <2>1, XorFacts
<1> QED BY <1>1, <1>2

\* The secret of a call
LEMMA SecFacts ==
    ASSUME NEW t, NEW n, CallOK(t, n)
    PROVE  /\ Sec(t) \in Vector /\ Sec(t) = SecretAt(t.conf, t.to.epoch)
           /\ t.conf.provider # "iknp" => Sec(t)[0] = TRUE
<1> DEFINE e == IF t.conf.provider = "ferret" THEN 0 ELSE t.to.epoch
<1>1. ConfOK(t.conf) /\ t.to \in Places /\ n \in 1..(MaxCalls + 1) /\ t.to.epoch <= n
    BY PlacesOf DEF CallOK
<1>2. e \in 0..(MaxCalls + 1)
    BY <1>1, CotAssumption DEF Places
<1>3. Sec(t) = t.conf.s[e] /\ Sec(t) = SecretAt(t.conf, t.to.epoch)
    BY DEF Sec, SecretAt
<1> HIDE DEF e
<1>4. Sec(t) \in Vector
    BY <1>1, <1>2, <1>3 DEF ConfOK
<1>5. 0 \in Base
    BY IknpAssumption DEF Base
<1>6. ASSUME t.conf.provider # "iknp" PROVE Sec(t)[0] = TRUE
    <2>1. t.conf.s[e][0]
        BY <1>1, <1>2, <1>6 DEF ConfOK
    <2> QED BY <1>3, <1>4, <1>5, <2>1 DEF Vector
<1> QED BY <1>3, <1>4, <1>6

LEMMA CountsOf ==
    ASSUME NEW t, NEW n, CallOK(t, n), NEW p \in Party
    PROVE  /\ Count(t, p) \in Nat /\ BaseSent(t, p) \in Nat /\ RoundsOf(t) \in Nat
           /\ SentAt(t.from, p) \in Nat
           /\ SentAt(t.to, p) = SentAt(t.from, p) + Count(t, p)
<1>1. /\ t.from \in Places /\ t.call \in Calls /\ ConfOK(t.conf)
      /\ t.to = After(t.conf, t.call, t.from)
    BY DEF CallOK
<1>2. SentAt(t.to, p) = SentAt(t.from, p) + Count(t, p)
    BY <1>1 DEF After, SentAt, Count
<1>3. Count(t, p) \in Nat /\ BaseSent(t, p) \in Nat
    BY <1>1, CountFacts DEF Count, BaseSent
<1> QED BY <1>1, <1>2, <1>3, RowsFacts DEF SentAt, Places, RoundsOf

\* What the provider and the kind of a call mean for its counters
LEMMA KindsOf ==
    ASSUME NEW t, NEW n, CallOK(t, n)
    PROVE  /\ t.call.kind = "gen" => t.conf.provider = "base"
           /\ Ferret(t) => /\ t.call.kind \notin {"setup", "gen"} /\ ~Based(t) /\ ~t.conf.malicious
                           /\ Count(t, "BOB") = 1 /\ \A p \in Party : BaseSent(t, p) = 0
                           /\ t.to.epoch = t.from.epoch /\ First(t) = t.from.pos
           /\ ~Ferret(t) => t.to.epoch > 0
           /\ BaseSent(t, "ALICE") = (IF Based(t) THEN BaseN ELSE 0)
           /\ BaseSent(t, "BOB") = (IF Based(t) THEN 1 + BaseN ELSE 0)
           /\ Based(t) => First(t) = 0 /\ t.to.epoch = t.from.epoch + 1
           /\ ~Ferret(t) /\ t.call.kind # "setup" => 
                 Count(t, "BOB") = BaseSent(t, "BOB") + (RoundsOf(t) + (IF t.conf.malicious THEN 2 ELSE 0))
           /\ t.call.kind = "setup" => Count(t, "BOB") = BaseSent(t, "BOB")
           /\ t.call.kind \notin HashKinds => Count(t, "ALICE") = BaseSent(t, "ALICE")
           /\ t.call.kind = "rot" => Count(t, "ALICE") = BaseSent(t, "ALICE") + 1
           /\ t.call.kind = "ot" => Count(t, "ALICE") = BaseSent(t, "ALICE") + 1 + Batches(t.call.len)
           /\ t.call.kind = "not" => Count(t, "ALICE") = BaseSent(t, "ALICE") + 2 + Batches(t.call.len)
<1>1. /\ ConfOK(t.conf) /\ t.call \in Calls /\ t.from \in Places
      /\ t.to = After(t.conf, t.call, t.from) /\ Offers(t.conf, t.call, t.from.epoch)
    BY DEF CallOK
<1>2. t.from.epoch \in Nat /\ BaseN \in Nat /\ Batches(t.call.len) \in Nat
    BY <1>1, CallFacts, BatchFacts, IknpAssumption DEF Places
<1>3. t.to.epoch = t.from.epoch + (IF Renews(t.conf, t.call, t.from.epoch) THEN 1 ELSE 0)
    BY <1>1 DEF After
<1>4. t.call.kind = "gen" => t.conf.provider = "base"
    BY <1>1 DEF ConfOK, Offers
<1>5. Ferret(t) => /\ t.call.kind \notin {"setup", "gen"} /\ ~Based(t) /\ ~t.conf.malicious
                   /\ Count(t, "BOB") = 1 /\ \A p \in Party : BaseSent(t, p) = 0
                   /\ t.to.epoch = t.from.epoch /\ First(t) = t.from.pos
    BY <1>1, <1>2, <1>3 DEF Ferret, Offers, ConfOK, Based, HasBase, Renews, Count, SentByBob, BaseSent,
                      BaseByAlice, BaseByBob, First
<1>6. ~Ferret(t) => t.to.epoch > 0
    BY <1>2, <1>3 DEF Ferret, Renews
<1>7. /\ BaseSent(t, "ALICE") = (IF Based(t) THEN BaseN ELSE 0)
      /\ BaseSent(t, "BOB") = (IF Based(t) THEN 1 + BaseN ELSE 0)
      /\ Based(t) => First(t) = 0 /\ t.to.epoch = t.from.epoch + 1
    BY <1>3 DEF BaseSent, Based, BaseByAlice, BaseByBob, HasBase, First
<1>8. /\ ~Ferret(t) /\ t.call.kind # "setup" => 
            Count(t, "BOB") = BaseSent(t, "BOB") + (RoundsOf(t) + (IF t.conf.malicious THEN 2 ELSE 0))
    BY DEF Ferret, Count, SentByBob, BaseSent, RoundsOf
<1>9. t.call.kind = "setup" => Count(t, "BOB") = BaseSent(t, "BOB")
    <2>1. BaseSent(t, "BOB") \in Nat
        BY <1>2, <1>7
    <2> QED BY <1>5, <2>1 DEF Ferret, Count, SentByBob, BaseSent
<1>10. /\ t.call.kind \notin HashKinds => Count(t, "ALICE") = BaseSent(t, "ALICE")
       /\ t.call.kind = "rot" => Count(t, "ALICE") = BaseSent(t, "ALICE") + 1
       /\ t.call.kind = "ot" => Count(t, "ALICE") = BaseSent(t, "ALICE") + 1 + Batches(t.call.len)
       /\ t.call.kind = "not" => Count(t, "ALICE") = BaseSent(t, "ALICE") + 2 + Batches(t.call.len)
    <2>1. BaseSent(t, "ALICE") \in Nat
        BY <1>2, <1>7
    <2>2. Count(t, "ALICE") = BaseSent(t, "ALICE") + (IF t.call.kind \in HashKinds THEN 1 ELSE 0)
                   + (IF t.call.kind \in LoopKinds THEN Batches(t.call.len) ELSE 0)
                   + (IF t.call.kind = "not" THEN 1 ELSE 0)
        BY DEF Count, SentByAlice, BaseSent
    <2> QED BY <1>2, <2>1, <2>2 DEF HashKinds, LoopKinds
<1> QED BY <1>4, <1>5, <1>6, <1>7, <1>8, <1>9, <1>10

LEMMA WrittenFacts ==
    ASSUME NEW t, NEW n, CallOK(t, n), NEW p \in Party, NEW pc, NEW at \in Nat, StageOK(t, p, pc, at)
    PROVE  /\ Written(t, p, pc, at) \in Nat /\ Written(t, p, pc, at) <= Count(t, p)
           /\ WasRead(t, p, pc, at) \in Nat /\ WasRead(t, p, pc, at) <= Count(t, Peer(p))
<1> DEFINE a == BaseSent(t, "ALICE")
           b == BaseSent(t, "BOB")
           r == RoundsOf(t)
           ca == Count(t, "ALICE")
           cb == Count(t, "BOB")
           k == Batches(t.call.len)
<1>1. /\ a \in Nat /\ b \in Nat /\ r \in Nat /\ ca \in Nat /\ cb \in Nat /\ k \in Nat /\ BaseN \in Nat
      /\ t.call.kind \in {"setup", "gen", "cot", "rot", "ot", "not"}
    <2>1. t.call \in Calls /\ t.call.len \in Nat
        BY PlacesOf, CallFacts
    <2> QED BY <2>1, CountsOf, CallFacts, BatchFacts, IknpAssumption DEF Party
<1>2. /\ Ferret(t) => t.call.kind \notin {"setup", "gen"} /\ ~Based(t) /\ a = 0 /\ b = 0 /\ cb = 1
      /\ Based(t) => a = BaseN /\ b = 1 + BaseN
      /\ ~Ferret(t) /\ t.call.kind # "setup" => cb >= b + r /\ (t.conf.malicious => cb = b + r + 2)
      /\ t.call.kind = "setup" => cb = b
      /\ cb >= b /\ ca >= a
      /\ t.call.kind = "rot" => ca = a + 1
      /\ t.call.kind \in LoopKinds => ca >= a + 1 + k
    BY <1>1, KindsOf DEF Party, LoopKinds, HashKinds
<1>3. \/ p = "ALICE" /\ Peer(p) = "BOB"
      \/ p = "BOB" /\ Peer(p) = "ALICE"
    BY DEF Party, Peer
<1>4. Written(t, p, pc, at) =
         IF p = "ALICE"
         THEN CASE pc = "base" -> 0
                [] pc = "rot" -> a + 1
                [] pc = "ot" -> a + 1 + at
                [] OTHER -> a
         ELSE CASE pc \in {"base", "rcot"} -> 0
                [] pc = "points" -> 1
                [] pc = "pre" -> b + at
                [] pc = "check" -> b + r
                [] pc = "sum" -> b + r + 1
                [] OTHER -> cb
    BY <1>3 DEF Written
<1>5. WasRead(t, p, pc, at) =
         IF p = "BOB"
         THEN CASE pc = "base" -> 0
                [] pc = "points" -> at
                [] pc = "rot" -> a + 1
                [] pc = "ot" -> a + 1 + at
                [] OTHER -> a
         ELSE CASE pc \in {"base", "rcot", "bits"} -> 0
                [] pc = "keys" -> 1 + at
                [] pc = "pre" -> b + at
                [] pc = "check" -> b + r
                [] pc = "sum" -> b + r + 1
                [] OTHER -> cb
    BY <1>3 DEF WasRead
<1>6. \/ pc = "base" /\ Based(t)
      \/ p = "ALICE" /\ pc = "keys" /\ Based(t) /\ at < BaseN
      \/ p = "BOB" /\ pc = "points" /\ Based(t) /\ at <= BaseN
      \/ pc = "pre" /\ ~Ferret(t) /\ t.call.kind # "setup" /\ at < r
      \/ pc \in {"check", "sum"} /\ ~Ferret(t) /\ t.call.kind # "setup" /\ t.conf.malicious
      \/ pc = "rcot" /\ Ferret(t)
      \/ p = "ALICE" /\ pc = "bits" /\ Ferret(t)
      \/ pc = "tidy" \/ pc = "return" \/ pc = "key"
      \/ pc = "rot" /\ t.call.kind = "rot"
      \/ pc = "ot" /\ t.call.kind \in LoopKinds /\ at <= k
    BY DEF StageOK
<1>7. Count(t, p) = (IF p = "ALICE" THEN ca ELSE cb) /\ Count(t, Peer(p)) = (IF p = "ALICE" THEN cb ELSE ca)
    BY <1>3
<1> HIDE DEF a, b, r, ca, cb, k
<1>8. CASE p = "ALICE"
    BY <1>1, <1>2, <1>3, <1>4, <1>5, <1>6, <1>7, <1>8
<1>9. CASE p = "BOB"
    BY <1>1, <1>2, <1>3, <1>4, <1>5, <1>6, <1>7, <1>9
<1> QED BY <1>3, <1>8, <1>9

\* Where the parties are lies within the messages of their calls.
LEMMA HistoryFacts ==
    ASSUME NEW cf, NEW cs, NEW h, HistoryOK(cf, cs, h)
    PROVE  /\ Len(h) \in Nat /\ Len(h) = Len(cs) /\ IsSeq(h) /\ ConfOK(cf) /\ cs \in Seq(Calls)
           /\ \A n \in 1..Len(h) : /\ CallOK(h[n], n) /\ h[n].call = cs[n] /\ h[n].conf = cf
                                   /\ Chosen(h[n]) /\ h[n].from = PlaceOf(h, n - 1)
           /\ \A p \in Party : \A m, n \in 1..Len(h) :
                 m < n => SentAt(h[m].to, p) <= SentAt(h[n].from, p)
<1>1. /\ Len(h) = Len(cs) /\ IsSeq(h) /\ ConfOK(cf) /\ cs \in Seq(Calls)
      /\ \A n \in 1..Len(cs) : h[n].call = cs[n] /\ h[n].conf = cf /\ CallOK(h[n], n)
                               /\ Chosen(h[n]) /\ h[n].from = PlaceOf(h, n - 1)
      /\ \A m, n \in 1..Len(cs) : m < n => h[m].to.alice <= h[n].from.alice
                                           /\ h[m].to.bob <= h[n].from.bob
    BY DEF HistoryOK
<1>2. \A p \in Party : \A m, n \in 1..Len(h) :
                 m < n => SentAt(h[m].to, p) <= SentAt(h[n].from, p)
    BY <1>1 DEF SentAt
<1> QED BY <1>1, <1>2, IsSeqOf

LEMMA OriginFacts == Origin \in Places /\ Origin.gid % Batch = 0 /\ Origin.pos % Width = 0
                   /\ \A p \in Party : SentAt(Origin, p) = 0
BY CotAssumption, IknpAssumption DEF Origin, Places, SentAt

LEMMA PlaceFacts ==
    ASSUME NEW cf, NEW cs, NEW h, HistoryOK(cf, cs, h), NEW n \in 0..Len(h)
    PROVE  /\ PlaceOf(h, n) \in Places /\ PlaceOf(h, n).gid % Batch = 0
           /\ cf.provider # "ferret" => PlaceOf(h, n).pos % Width = 0
           /\ \A p \in Party : SentAt(PlaceOf(h, n), p) \in Nat
           /\ \A p \in Party : \A m \in 1..Len(h) :
                 n < m => SentAt(PlaceOf(h, n), p) <= SentAt(h[m].from, p)
<1>1. CASE n = 0
    <2>1. PlaceOf(h, n) = Origin
        BY <1>1 DEF PlaceOf
    <2>2. \A p \in Party : \A m \in 1..Len(h) : SentAt(h[m].from, p) \in Nat
        BY HistoryFacts, CountsOf
    <2> QED BY <2>1, <2>2, OriginFacts
<1>2. CASE n # 0
    <2>1. n \in 1..Len(h) /\ PlaceOf(h, n) = h[n].to
        BY <1>2, HistoryFacts DEF PlaceOf
    <2>2. CallOK(h[n], n) /\ h[n].conf = cf
        BY <2>1, HistoryFacts
    <2>3. \A p \in Party : SentAt(h[n].to, p) \in Nat
        BY <2>2, CountsOf
    <2> QED BY <2>1, <2>2, <2>3, HistoryFacts, PlacesOf DEF Ferret
<1> QED BY <1>1, <1>2

LEMMA SentFacts ==
    ASSUME NEW cf, NEW cs, NEW h, HistoryOK(cf, cs, h), NEW p \in Party, NEW rec, PartyOK(cf, h, p, rec)
    PROVE  /\ SentOf(h, p, rec) \in Nat /\ SentOf(h, p, rec) <= SentAt(PlaceOf(h, rec.cnt), p)
           /\ ReadOf(h, p, rec) \in Nat /\ ReadOf(h, p, rec) <= SentAt(PlaceOf(h, rec.cnt), Peer(p))
           /\ rec.pc # "idle" => /\ SentAt(h[rec.cnt].from, p) <= SentOf(h, p, rec)
                                 /\ SentAt(h[rec.cnt].from, Peer(p)) <= ReadOf(h, p, rec)
<1>1. rec.cnt \in 0..Len(h) /\ rec.at \in Nat /\ Peer(p) \in Party
    BY Peers DEF PartyOK
<1>2. CASE rec.pc = "idle"
    BY <1>1, <1>2, PlaceFacts DEF SentOf, ReadOf
<1>3. CASE rec.pc # "idle"
    <2> DEFINE t == h[rec.cnt]
    <2>1. rec.cnt \in 1..Len(h) /\ InCall(t, p, rec) /\ PlaceOf(h, rec.cnt) = t.to
        BY <1>1, <1>3, HistoryFacts DEF PartyOK, PlaceOf
    <2>2. CallOK(t, rec.cnt) /\ StageOK(t, p, rec.pc, rec.at)
        BY <2>1, HistoryFacts DEF InCall
    <2>3. /\ Written(t, p, rec.pc, rec.at) \in Nat /\ Written(t, p, rec.pc, rec.at) <= Count(t, p)
          /\ WasRead(t, p, rec.pc, rec.at) \in Nat /\ WasRead(t, p, rec.pc, rec.at) <= Count(t, Peer(p))
        BY <1>1, <2>2, WrittenFacts
    <2>4. /\ SentAt(t.from, p) \in Nat /\ SentAt(t.to, p) = SentAt(t.from, p) + Count(t, p)
          /\ SentAt(t.from, Peer(p)) \in Nat /\ Count(t, p) \in Nat /\ Count(t, Peer(p)) \in Nat
          /\ SentAt(t.to, Peer(p)) = SentAt(t.from, Peer(p)) + Count(t, Peer(p))
        BY <1>1, <2>2, CountsOf
    <2>5. /\ SentOf(h, p, rec) = SentAt(t.from, p) + Written(t, p, rec.pc, rec.at)
          /\ ReadOf(h, p, rec) = SentAt(t.from, Peer(p)) + WasRead(t, p, rec.pc, rec.at)
        BY <1>3 DEF SentOf, ReadOf
    <2> HIDE DEF t
    <2>6. /\ SentOf(h, p, rec) \in Nat /\ SentOf(h, p, rec) <= SentAt(t.to, p)
          /\ ReadOf(h, p, rec) \in Nat /\ ReadOf(h, p, rec) <= SentAt(t.to, Peer(p))
          /\ SentAt(t.from, p) <= SentOf(h, p, rec) /\ SentAt(t.from, Peer(p)) <= ReadOf(h, p, rec)
        BY <2>3, <2>4, <2>5
    <2> QED BY <2>1, <2>6 DEF t
<1> QED BY <1>2, <1>3

(*------------------------- what is on its way ---------------------------*)
LEMMA Stretched ==
    ASSUME NEW cf, NEW cs, NEW h, HistoryOK(cf, cs, h), NEW p \in Party, NEW n \in 1..Len(h),
           NEW o \in Nat, NEW first \in Nat, NEW s,
           Stretch(h, p, n, s, first, SentAt(h[n].from, p) + o),
           NEW ms, IsSeq(ms), o + Len(ms) <= Count(h[n], p),
           \A i \in 1..Len(ms) : ms[i] = MessageOf(h[n], p, o + i - 1)
    PROVE  Stretch(h, p, n, s \o ms, first, SentAt(h[n].from, p) + o + Len(ms))
<1> DEFINE last == SentAt(h[n].from, p) + o
           l == Len(ms)
<1>0. Len(h) \in Nat /\ \A m \in 1..Len(h) : CallOK(h[m], m)
    BY HistoryFacts
<1>1. l \in Nat /\ last \in Nat /\ SentAt(h[n].from, p) \in Nat /\ n \in Nat
    <2>1. SentAt(h[n].from, p) \in Nat
        BY <1>0, CountsOf
    <2>2. l \in Nat
        BY IsSeqOf
    <2> QED BY <1>0, <2>1, <2>2
<1>2. IsSeq(s) /\ first <= last /\ Len(s) = last - first /\ Len(s) \in Nat
    BY IsSeqOf DEF Stretch
<1>3. /\ IsSeq(s \o ms) /\ Len(s \o ms) = Len(s) + l
      /\ \A i \in 1..Len(s) : (s \o ms)[i] = s[i]
      /\ \A i \in 1..l : (s \o ms)[Len(s) + i] = ms[i]
    <2>1. IsSeq(s)
        BY <1>2
    <2> QED BY <2>1, Joined
<1>4. ASSUME NEW m \in 1..n, NEW q \in 0..(Count(h[m], p) - 1),
             first <= SentAt(h[m].from, p) + q, SentAt(h[m].from, p) + q < last + l
      PROVE  (s \o ms)[(SentAt(h[m].from, p) + q) - first + 1] = MessageOf(h[m], p, q)
    <2> DEFINE k == SentAt(h[m].from, p) + q
    <2>1. m \in 1..Len(h) /\ SentAt(h[m].from, p) \in Nat /\ Count(h[m], p) \in Nat /\ q \in Nat
          /\ q < Count(h[m], p) /\ SentAt(h[m].to, p) = SentAt(h[m].from, p) + Count(h[m], p)
        <3>1. m \in 1..Len(h)
            BY <1>0, <1>1
        <3>2. /\ SentAt(h[m].from, p) \in Nat /\ Count(h[m], p) \in Nat
              /\ SentAt(h[m].to, p) = SentAt(h[m].from, p) + Count(h[m], p)
            BY <1>0, <3>1, CountsOf
        <3> QED BY <3>1, <3>2
    <2> SUFFICES (s \o ms)[k - first + 1] = MessageOf(h[m], p, q)
        OBVIOUS
    <2>2. CASE k < last
        <3>1. s[k - first + 1] = MessageOf(h[m], p, q)
            BY <1>4, <2>2 DEF Stretch
        <3>2. k \in Int /\ first <= k
            BY <1>4, <2>1
        <3> HIDE DEF k, last
        <3>3. k - first + 1 \in 1..Len(s)
            BY <1>1, <1>2, <2>2, <3>2
        <3> QED BY <1>3, <3>1, <3>3
    <2>3. CASE k >= last
        <3>1. m = n
            <4>1. m < n => SentAt(h[m].to, p) <= SentAt(h[n].from, p)
                BY <2>1, HistoryFacts
            <4> QED BY <1>1, <2>1, <2>3, <4>1
        <3> DEFINE i == k - last + 1
        <3> DEFINE a == SentAt(h[n].from, p)
        <3>2. q = o + i - 1 /\ k < last + l /\ k \in Int
            <4>1. k = a + q /\ last = a + o /\ a \in Nat /\ k < last + l
                BY <1>1, <1>4, <3>1
            <4> HIDE DEF a, k, last
            <4> QED BY <2>1, <4>1
        <3> HIDE DEF a, k, last
        <3>3. i \in 1..l /\ k - first + 1 = Len(s) + i
            BY <1>1, <1>2, <2>3, <3>2
        <3> HIDE DEF i
        <3>4. (s \o ms)[Len(s) + i] = ms[i] /\ ms[i] = MessageOf(h[n], p, o + i - 1)
            BY <1>3, <3>3
        <3>5. (s \o ms)[k - first + 1] = MessageOf(h[m], p, q)
            BY <3>1, <3>2, <3>3, <3>4
        <3> QED BY <3>5
    <2>4. k \in Int /\ last \in Int
        BY <1>1, <2>1
    <2> HIDE DEF k, last
    <2>5. k < last \/ k >= last
        BY <2>4
    <2> QED BY <2>2, <2>3, <2>5
<1>5. first <= last + l /\ Len(s \o ms) = (last + l) - first
    BY <1>1, <1>2, <1>3
<1> HIDE DEF last, l
<1>6. Stretch(h, p, n, s \o ms, first, last + l)
    BY <1>3, <1>4, <1>5 DEF Stretch
<1> QED BY <1>6 DEF last, l

LEMMA Shortened ==
    ASSUME NEW cf, NEW cs, NEW h, HistoryOK(cf, cs, h), NEW p \in Party, NEW cnt \in 0..Len(h),
           NEW s, NEW first \in Int, NEW last \in Int,
           Stretch(h, p, cnt, s, first, last), s # <<>>
    PROVE  Stretch(h, p, cnt, Tail(s), first + 1, last) /\ first < last
<1>1. IsSeq(s) /\ Len(s) = last - first
    BY DEF Stretch
<1>2. /\ Len(s) \in Nat \ {0} /\ IsSeq(Tail(s)) /\ Len(Tail(s)) = Len(s) - 1
      /\ \A i \in 1..(Len(s) - 1) : Tail(s)[i] = s[i + 1]
    BY <1>1, TailFacts
<1>3. first + 1 <= last /\ Len(Tail(s)) = last - (first + 1)
    BY <1>1, <1>2
<1>4. ASSUME NEW n \in 1..cnt, NEW o \in 0..(Count(h[n], p) - 1),
             first + 1 <= SentAt(h[n].from, p) + o, SentAt(h[n].from, p) + o < last
      PROVE  Tail(s)[(SentAt(h[n].from, p) + o) - (first + 1) + 1] = MessageOf(h[n], p, o)
    <2> DEFINE k == SentAt(h[n].from, p) + o
               i == k - (first + 1) + 1
    <2>1. k \in Int
        <3>1. n \in 1..Len(h) /\ Len(h) \in Nat
            BY HistoryFacts
        <3>2. CallOK(h[n], n)
            BY <3>1, HistoryFacts
        <3>3. SentAt(h[n].from, p) \in Nat /\ Count(h[n], p) \in Nat
            BY <3>2, CountsOf
        <3> QED BY <3>3
    <2>2. s[k - first + 1] = MessageOf(h[n], p, o)
        <3>1. first <= k /\ k < last
            BY <1>4, <2>1
        <3> QED BY <3>1 DEF Stretch
    <2>3. i \in 1..(Len(s) - 1) /\ i + 1 = k - first + 1
        BY <1>1, <1>2, <1>4, <2>1
    <2> HIDE DEF i, k
    <2>4. Tail(s)[i] = s[i + 1]
        BY <1>2, <2>3
    <2> QED BY <2>2, <2>3, <2>4 DEF i, k
<1>5. Stretch(h, p, cnt, Tail(s), first + 1, last)
    BY <1>2, <1>3, <1>4 DEF Stretch
<1> QED BY <1>1, <1>2, <1>5

LEMMA PartsOf ==
    ASSUME NEW cs, NEW h, Inv(cs, h), NEW p \in Party
    PROVE  /\ HistoryOK(conf, cs, h) /\ ChannelOK /\ Record(me[p]) /\ PartyOK(conf, h, p, me[p])
           /\ Record(me[Peer(p)]) /\ PartyOK(conf, h, Peer(p), me[Peer(p)])
           /\ me = [q \in Party |-> me[q]]
           /\ Stretch(h, p, me[p].cnt, Outgoing(p), ReadOf(h, Peer(p), me[Peer(p)]),
                      SentOf(h, p, me[p]))
           /\ Stretch(h, Peer(p), me[Peer(p)].cnt, Outgoing(Peer(p)), ReadOf(h, p, me[p]),
                      SentOf(h, Peer(p), me[Peer(p)]))
<1>1. Peer(p) \in Party /\ Peer(Peer(p)) = p
    BY Peers
<1> QED BY <1>1 DEF Inv

\* A party within a call, and what it has written and read
LEMMA WithinCall ==
    ASSUME NEW cs, NEW h, Inv(cs, h), NEW p \in Party, me[p].pc # "idle"
    PROVE  LET n == me[p].cnt
               t == h[n]
           IN  /\ n \in 1..Len(h) /\ me[p].at \in Nat /\ Len(h) \in Nat
               /\ t.call = cs[n] /\ t.conf = conf /\ CallOK(t, n) /\ Chosen(t)
               /\ InCall(t, p, me[p]) /\ Len(me[p].out) = n - 1 /\ PlaceOf(h, n) = t.to
               /\ SentOf(h, p, me[p]) = SentAt(t.from, p) + Written(t, p, me[p].pc, me[p].at)
               /\ ReadOf(h, p, me[p]) = SentAt(t.from, Peer(p)) + WasRead(t, p, me[p].pc, me[p].at)
               /\ Written(t, p, me[p].pc, me[p].at) \in Nat
               /\ Written(t, p, me[p].pc, me[p].at) <= Count(t, p)
               /\ WasRead(t, p, me[p].pc, me[p].at) \in Nat
               /\ WasRead(t, p, me[p].pc, me[p].at) <= Count(t, Peer(p))
<1> DEFINE n == me[p].cnt
           t == h[n]
<1>1. HistoryOK(conf, cs, h) /\ PartyOK(conf, h, p, me[p])
    BY PartsOf
<1>2. n \in 1..Len(h) /\ me[p].at \in Nat /\ InCall(t, p, me[p]) /\ Len(me[p].out) = n - 1
      /\ Len(h) \in Nat
    BY <1>1, HistoryFacts DEF PartyOK
<1>3. t.call = cs[n] /\ t.conf = conf /\ CallOK(t, n) /\ Chosen(t) /\ PlaceOf(h, n) = t.to
    <2>1. PlaceOf(h, n) = h[n].to
        BY <1>2 DEF PlaceOf
    <2> QED BY <1>1, <1>2, <2>1, HistoryFacts
<1>4. StageOK(t, p, me[p].pc, me[p].at)
    BY <1>2 DEF InCall
<1>5. /\ SentOf(h, p, me[p]) = SentAt(t.from, p) + Written(t, p, me[p].pc, me[p].at)
      /\ ReadOf(h, p, me[p]) = SentAt(t.from, Peer(p)) + WasRead(t, p, me[p].pc, me[p].at)
    BY DEF SentOf, ReadOf
<1> HIDE DEF n, t
<1>6. /\ Written(t, p, me[p].pc, me[p].at) \in Nat
      /\ Written(t, p, me[p].pc, me[p].at) <= Count(t, p)
      /\ WasRead(t, p, me[p].pc, me[p].at) \in Nat
      /\ WasRead(t, p, me[p].pc, me[p].at) <= Count(t, Peer(p))
    BY <1>2, <1>3, <1>4, WrittenFacts
<1> QED BY <1>2, <1>3, <1>5, <1>6 DEF n, t

\* What comes first to a party within a call is the next message of that call.
LEMMA ReaderSees ==
    ASSUME NEW cs, NEW h, Inv(cs, h), NEW p \in Party, me[p].pc # "idle", CanRead(p),
           NEW w \in Nat, w = WasRead(h[me[p].cnt], p, me[p].pc, me[p].at),
           w < Count(h[me[p].cnt], Peer(p))
    PROVE  Incoming(p) = MessageOf(h[me[p].cnt], Peer(p), w)
<1> DEFINE q == Peer(p)
           n == me[p].cnt
           m == me[q].cnt
           t == h[n]
           first == ReadOf(h, p, me[p])
           last == SentOf(h, q, me[q])
<1>1. q \in Party /\ Peer(q) = p
    BY Peers
<1>2. /\ HistoryOK(conf, cs, h) /\ ChannelOK /\ PartyOK(conf, h, q, me[q])
      /\ Stretch(h, q, m, Outgoing(q), first, last)
    BY PartsOf
<1>3. n \in 1..Len(h) /\ CallOK(t, n) /\ first = SentAt(t.from, q) + w /\ Len(h) \in Nat
    BY WithinCall
<1>4. Outgoing(q) # <<>> /\ Incoming(p) = Head(Outgoing(q))
    BY <1>2, HeadOfOutgoing
<1>5. m \in 0..Len(h) /\ last \in Nat /\ last <= SentAt(PlaceOf(h, m), q)
    BY <1>1, <1>2, SentFacts DEF PartyOK
<1>6. SentAt(t.from, q) \in Nat /\ Count(t, q) \in Nat
    BY <1>1, <1>3, CountsOf
<1>7. IsSeq(Outgoing(q)) /\ Len(Outgoing(q)) = last - first /\ Head(Outgoing(q)) = Outgoing(q)[1]
      /\ Len(Outgoing(q)) \in Nat \ {0}
    BY <1>2, <1>4, TailFacts DEF Stretch
<1>8. m < n => SentAt(PlaceOf(h, m), q) <= SentAt(t.from, q)
    BY <1>1, <1>2, <1>3, <1>5, PlaceFacts
<1>9. SentAt(PlaceOf(h, m), q) \in Nat
    BY <1>1, <1>2, <1>5, PlaceFacts
<1> HIDE DEF m, n, t, first, last
<1>10. first < last /\ first \in Nat
    BY <1>3, <1>5, <1>6, <1>7
<1>11. n \in 1..m
    BY <1>3, <1>5, <1>6, <1>8, <1>9, <1>10
<1>12. w \in 0..(Count(t, q) - 1)
    BY <1>6 DEF t, n, q
<1>13. Outgoing(q)[first - first + 1] = MessageOf(h[n], q, w)
    <2>1. h[n] = t
        BY DEF t
    <2>2. SentAt(h[n].from, q) + w = first /\ first <= first
        BY <1>3, <1>10, <2>1
    <2>3. w \in 0..(Count(h[n], q) - 1)
        BY <1>12, <2>1
    <2> QED BY <1>2, <1>10, <1>11, <2>2, <2>3 DEF Stretch
<1>14. first - first + 1 = 1
    BY <1>10
<1> QED BY <1>4, <1>7, <1>13, <1>14 DEF n, q

(*---------------------------- a step of a party -------------------------*)
(* A step of p keeps the invariant if p's object is right after it, and if what
   it has written follows the messages before. *)
LEMMA PartyStep ==
    ASSUME NEW cs, NEW h, Inv(cs, h), NEW p \in Party, conf' = conf,
           me' = [me EXCEPT ![p] = me'[p]], Record(me'[p]), PartyOK(conf, h, p, me'[p]),
           NEW reads \in {0, 1}, NEW ms, Passes(p, reads, ms),
           ReadOf(h, p, me'[p]) = ReadOf(h, p, me[p]) + reads,
           Stretch(h, p, me'[p].cnt, Outgoing(p) \o ms, ReadOf(h, Peer(p), me[Peer(p)]),
                   SentOf(h, p, me'[p]))
    PROVE  Inv(cs, h)'
<1> DEFINE q == Peer(p)
<1>1. q \in Party /\ q # p /\ Peer(q) = p /\ \A x \in Party : x = p \/ x = q
    BY Peers
<1>2. /\ HistoryOK(conf, cs, h) /\ ChannelOK /\ Record(me[q]) /\ PartyOK(conf, h, q, me[q])
      /\ PartyOK(conf, h, p, me[p]) /\ me = [x \in Party |-> me[x]]
      /\ Stretch(h, q, me[q].cnt, Outgoing(q), ReadOf(h, p, me[p]), SentOf(h, q, me[q]))
    BY PartsOf
<1> HIDE DEF q
<1>3. me'[q] = me[q] /\ me' = [x \in Party |-> me'[x]]
    BY <1>1, <1>2
<1>4. HistoryOK(conf, cs, h)' /\ ChannelOK'
    <2>1. HistoryOK(conf', cs, h)
        BY <1>2
    <2> QED BY <2>1 DEF Passes
<1>5. \A x \in Party : Record(me'[x]) /\ PartyOK(conf', h, x, me'[x])
    BY <1>1, <1>2, <1>3
<1>6. Stretch(h, p, me'[p].cnt, Outgoing(p)', ReadOf(h, q, me'[q]), SentOf(h, p, me'[p]))
    BY <1>3 DEF Passes, q
<1>7. Stretch(h, q, me'[q].cnt, Outgoing(q)', ReadOf(h, p, me'[p]), SentOf(h, q, me'[q]))
    <2> DEFINE first == ReadOf(h, p, me[p])
               last == SentOf(h, q, me[q])
    <2>1. first \in Int /\ last \in Int /\ me[q].cnt \in 0..Len(h)
        <3>1. first \in Int
            BY <1>2, SentFacts
        <3>2. last \in Int
            BY <1>1, <1>2, SentFacts
        <3>3. me[q].cnt \in 0..Len(h)
            BY <1>2 DEF PartyOK
        <3> QED BY <3>1, <3>2, <3>3
    <2>2. CASE reads = 1
        <3>1. Outgoing(q)' = Tail(Outgoing(q)) /\ Outgoing(q) # <<>>
            BY <2>2 DEF Passes, q
        <3>2. Stretch(h, q, me[q].cnt, Outgoing(q), first, last)
            BY <1>2
        <3> HIDE DEF first, last
        <3>3. Stretch(h, q, me[q].cnt, Tail(Outgoing(q)), first + 1, last)
            BY <1>1, <1>2, <2>1, <3>1, <3>2, Shortened
        <3>4. ReadOf(h, p, me'[p]) = first + 1 /\ SentOf(h, q, me'[q]) = last
            BY <1>3, <2>2 DEF first, last
        <3> QED BY <1>3, <3>1, <3>3, <3>4
    <2>3. CASE reads = 0
        <3>1. Outgoing(q)' = Outgoing(q)
            BY <2>3 DEF Passes, q
        <3>2. ReadOf(h, p, me'[p]) = first
            BY <2>1, <2>3
        <3> QED BY <1>2, <1>3, <3>1, <3>2
    <2> QED BY <2>2, <2>3
<1>8. \A x \in Party : Stretch(h, x, me'[x].cnt, Outgoing(x)', ReadOf(h, Peer(x), me'[Peer(x)]),
                               SentOf(h, x, me'[x]))
    <2>1. Peer(p) = q
        BY DEF q
    <2> QED BY <1>1, <1>6, <1>7, <2>1
<1> QED BY <1>3, <1>4, <1>5, <1>8 DEF Inv

LEMMA Becoming ==
    ASSUME NEW cs, NEW h, Inv(cs, h), NEW p \in Party, NEW rec, Become(p, rec)
    PROVE  /\ conf' = conf /\ calls' = calls /\ me'[p] = rec
           /\ me' = [me EXCEPT ![p] = me'[p]] /\ Record(me[p]) /\ ChannelOK
           /\ \A k \in Slot : me[p].local[k].plus \in Vector
<1>1. me = [q \in Party |-> me[q]] /\ Record(me[p]) /\ PartyOK(conf, h, p, me[p]) /\ ChannelOK
    BY PartsOf
<1>2. conf' = conf /\ calls' = calls /\ me' = [me EXCEPT ![p] = rec]
    BY DEF Become
<1>3. me'[p] = rec
    BY <1>1, <1>2
<1> QED BY <1>1, <1>2, <1>3 DEF PartyOK

(* A step from a to b within the call t, which has then written the messages ms and
   read `reads' more of that call. *)
Advances(t, p, a, b, reads, ms) ==
    LET w == Written(t, p, a.pc, a.at)
    IN  /\ w + Len(ms) = (IF b.pc = "idle" THEN Count(t, p) ELSE Written(t, p, b.pc, b.at))
        /\ WasRead(t, p, a.pc, a.at) + reads =
              (IF b.pc = "idle" THEN Count(t, Peer(p)) ELSE WasRead(t, p, b.pc, b.at))
        /\ \A i \in 1..Len(ms) : ms[i] = MessageOf(t, p, w + i - 1)

LEMMA CallStep ==
    ASSUME NEW cs, NEW h, Inv(cs, h), NEW p \in Party, NEW a, a = me[p], a.pc # "idle",
           NEW rec, Become(p, rec), Record(rec), PartyOK(conf, h, p, rec), rec.cnt = a.cnt,
           NEW reads \in {0, 1}, NEW ms, Passes(p, reads, ms),
           NEW t, t = h[a.cnt], Advances(t, p, a, rec, reads, ms)
    PROVE  Inv(cs, h)'
<1> DEFINE n == a.cnt
           w == Written(t, p, a.pc, a.at)
           r == WasRead(t, p, a.pc, a.at)
<1>0. /\ w \in Nat /\ r \in Nat
      /\ w + Len(ms) = (IF rec.pc = "idle" THEN Count(t, p) ELSE Written(t, p, rec.pc, rec.at))
      /\ r + reads = (IF rec.pc = "idle" THEN Count(t, Peer(p)) ELSE WasRead(t, p, rec.pc, rec.at))
      /\ \A i \in 1..Len(ms) : ms[i] = MessageOf(t, p, w + i - 1)
    BY WithinCall DEF Advances
<1>1. /\ n \in 1..Len(h) /\ CallOK(t, n) /\ PlaceOf(h, n) = t.to
      /\ SentOf(h, p, a) = SentAt(t.from, p) + w
      /\ ReadOf(h, p, a) = SentAt(t.from, Peer(p)) + r
    BY WithinCall
<1> HIDE DEF w, r
<1>2. /\ SentAt(t.from, p) \in Nat /\ SentAt(t.to, p) = SentAt(t.from, p) + Count(t, p)
      /\ SentAt(t.from, Peer(p)) \in Nat
      /\ SentAt(t.to, Peer(p)) = SentAt(t.from, Peer(p)) + Count(t, Peer(p))
      /\ Peer(p) \in Party
    <2>1. Peer(p) \in Party
        BY Peers
    <2> QED BY <1>1, <2>1, CountsOf
<1>3. Len(ms) \in Nat /\ IsSeq(ms)
    BY IsSeqOf DEF Passes
<1>4. SentOf(h, p, rec) = SentAt(t.from, p) + w + Len(ms)
    <2>1. CASE rec.pc = "idle"
        <3>1. SentOf(h, p, rec) = SentAt(t.to, p)
            BY <1>1, <2>1 DEF SentOf
        <3>2. Count(t, p) = w + Len(ms)
            BY <1>0, <2>1
        <3> QED BY <1>0, <1>2, <1>3, <3>1, <3>2
    <2>2. CASE rec.pc # "idle"
        <3>1. SentOf(h, p, rec) = SentAt(t.from, p) + Written(t, p, rec.pc, rec.at)
            BY <2>2 DEF SentOf
        <3>2. Written(t, p, rec.pc, rec.at) = w + Len(ms)
            BY <1>0, <2>2
        <3> QED BY <1>0, <1>2, <1>3, <3>1, <3>2
    <2> QED BY <2>1, <2>2
<1>5. ReadOf(h, p, rec) = ReadOf(h, p, a) + reads
    <2>1. CASE rec.pc = "idle"
        <3>1. ReadOf(h, p, rec) = SentAt(t.to, Peer(p))
            BY <1>1, <2>1 DEF ReadOf
        <3>2. Count(t, Peer(p)) = r + reads
            BY <1>0, <2>1
        <3> QED BY <1>0, <1>1, <1>2, <3>1, <3>2
    <2>2. CASE rec.pc # "idle"
        <3>1. ReadOf(h, p, rec) = SentAt(t.from, Peer(p)) + WasRead(t, p, rec.pc, rec.at)
            BY <2>2 DEF ReadOf
        <3>2. WasRead(t, p, rec.pc, rec.at) = r + reads
            BY <1>0, <2>2
        <3> QED BY <1>0, <1>1, <1>2, <3>1, <3>2
    <2> QED BY <2>1, <2>2
<1>6. /\ HistoryOK(conf, cs, h) /\ PartyOK(conf, h, Peer(p), me[Peer(p)])
      /\ Stretch(h, p, n, Outgoing(p), ReadOf(h, Peer(p), me[Peer(p)]), SentOf(h, p, a))
    BY PartsOf
<1> DEFINE first == ReadOf(h, Peer(p), me[Peer(p)])
<1>7. first \in Nat
    BY <1>2, <1>6, SentFacts
<1>8. w + Len(ms) <= Count(t, p)
    <2>1. SentOf(h, p, rec) <= SentAt(PlaceOf(h, n), p)
        BY <1>6, SentFacts
    <2>2. Count(t, p) \in Nat
        BY <1>1, CountsOf
    <2> QED BY <1>0, <1>1, <1>2, <1>3, <1>4, <2>1, <2>2
<1> HIDE DEF first, n
<1>9. Stretch(h, p, n, Outgoing(p) \o ms, first, SentAt(h[n].from, p) + w + Len(ms))
    <2>1. t = h[n]
        BY DEF n
    <2>2. Stretch(h, p, n, Outgoing(p), first, SentAt(h[n].from, p) + w)
        BY <1>1, <1>6, <2>1 DEF first
    <2>3. /\ w + Len(ms) <= Count(h[n], p)
          /\ \A i \in 1..Len(ms) : ms[i] = MessageOf(h[n], p, w + i - 1)
        BY <1>0, <1>8, <2>1
    <2> QED BY <1>0, <1>1, <1>3, <1>6, <1>7, <2>2, <2>3, Stretched
<1>10. Stretch(h, p, rec.cnt, Outgoing(p) \o ms, ReadOf(h, Peer(p), me[Peer(p)]),
               SentOf(h, p, rec))
    <2>1. t = h[n] /\ rec.cnt = n
        BY DEF n
    <2> QED BY <1>4, <1>9, <2>1 DEF first
<1>11. conf' = conf /\ me'[p] = rec /\ me' = [me EXCEPT ![p] = me'[p]]
    BY Becoming
<1> QED BY <1>5, <1>10, <1>11, PartyStep

\* The object of p, now b, stays within its call t.
Keeps(t, p, a, b) ==
    /\ a.pc # "idle" /\ Record(b) /\ b.cnt = a.cnt /\ b.pc # "idle" /\ b.at \in Nat
    /\ b.out = a.out /\ b.deltas = a.deltas
    /\ \A k \in Slot : b.local[k].plus \in Vector
    /\ InCall(t, p, b)

LEMMA Stays ==
    ASSUME NEW cs, NEW h, Inv(cs, h), NEW p \in Party, NEW a, a = me[p], NEW t, t = h[a.cnt],
           NEW rec, Become(p, rec), NEW reads \in {0, 1}, NEW ms, Passes(p, reads, ms),
           Keeps(t, p, a, rec), Advances(t, p, a, rec, reads, ms)
    PROVE  Inv(cs, h)'
<1>1. PartyOK(conf, h, p, a)
    BY PartsOf
<1>2. PartyOK(conf, h, p, rec)
    BY <1>1 DEF PartyOK, Keeps, DeltasOK
<1> QED BY <1>2, CallStep DEF Keeps

\* The call t of p returns.
Returns(t, p, a, b) ==
    /\ a.pc # "idle" /\ Record(b) /\ b.cnt = a.cnt /\ b.out = Append(a.out, OutOf(t, p))
    /\ b.pc = "idle" /\ b.at \in Nat /\ b.local = a.local
    /\ b.epoch = t.to.epoch /\ b.pos = t.to.pos /\ b.gid = t.to.gid
    /\ p = "ALICE" => /\ ~Ferret(t) => b.key = KeysIn(t.conf, t.to.epoch, BaseN)
                      /\ ~Ferret(t) => b.s = Sec(t)
                      /\ b.delta = Sec(t) /\ b.deltas = Append(a.deltas, Sec(t))

LEMMA Ends ==
    ASSUME NEW cs, NEW h, Inv(cs, h), NEW p \in Party, NEW a, a = me[p], NEW t, t = h[a.cnt],
           NEW rec, Become(p, rec), NEW reads \in {0, 1}, NEW ms, Passes(p, reads, ms),
           Returns(t, p, a, rec), Advances(t, p, a, rec, reads, ms)
    PROVE  Inv(cs, h)'
<1> DEFINE n == a.cnt
<1>1. PartyOK(conf, h, p, a)
    BY PartsOf
<1>2. /\ n \in 1..Len(h) /\ Len(h) \in Nat /\ PlaceOf(h, n) = t.to /\ t.conf = conf
      /\ Len(a.out) = n - 1
    BY WithinCall DEF Returns
<1> HIDE DEF n
<1>3. IsSeq(a.out) /\ (\A m \in 1..Len(a.out) : a.out[m] = OutOf(h[m], p))
      /\ \A k \in Slot : a.local[k].plus \in Vector
    BY <1>1 DEF PartyOK
<1>4. /\ IsSeq(rec.out) /\ Len(rec.out) = n
      /\ \A m \in 1..(n - 1) : rec.out[m] = a.out[m]
      /\ rec.out[n] = OutOf(t, p)
    <2> DEFINE s == a.out
    <2>1. IsSeq(s) /\ Len(s) = n - 1 /\ n \in Nat
        BY <1>2, <1>3
    <2>2. rec.out = Append(s, OutOf(t, p))
        BY DEF Returns
    <2> HIDE DEF s
    <2>3. /\ IsSeq(rec.out) /\ Len(rec.out) = Len(s) + 1
          /\ \A m \in 1..Len(s) : rec.out[m] = s[m]
          /\ rec.out[Len(s) + 1] = OutOf(t, p)
        BY <2>1, <2>2, Appended
    <2> QED BY <2>1, <2>3 DEF s
<1>5. ASSUME NEW m \in 1..n PROVE rec.out[m] = OutOf(h[m], p)
    <2>1. CASE m = n
        BY <1>4, <2>1 DEF n
    <2>2. CASE m # n
        <3>1. m \in 1..(n - 1)
            BY <1>2, <2>2
        <3> QED BY <1>2, <1>3, <1>4, <3>1
    <2> QED BY <2>1, <2>2
<1>6. Between(h, p, rec)
    BY <1>2 DEF Between, Returns, n
<1>7. p = "ALICE" /\ conf.provider # "ferret" => rec.key = KeysIn(conf, rec.epoch, BaseN)
    BY <1>2 DEF Ferret, Returns
<1>8. rec.cnt \in 0..Len(h) /\ Len(rec.out) = rec.cnt - 0 /\ rec.cnt = n
    BY <1>2, <1>4 DEF n, Returns
<1>9. p = "ALICE" => SecretOK(conf, rec) /\ DeltasOK(h, rec)
    <2> SUFFICES ASSUME p = "ALICE" PROVE SecretOK(conf, rec) /\ DeltasOK(h, rec)
        OBVIOUS
    <2>1. /\ rec.epoch = t.to.epoch /\ rec.delta = Sec(t) /\ (~Ferret(t) => rec.s = Sec(t))
          /\ rec.deltas = Append(a.deltas, Sec(t))
        BY DEF Returns
    <2>2. SecretOK(conf, rec)
        BY <1>2, <2>1 DEF SecretOK, Sec, Ferret
    <2>3. IsSeq(a.deltas) /\ Len(a.deltas) = n - 1 /\ \A m \in 1..(n - 1) : a.deltas[m] = Sec(h[m])
        BY <1>1, <1>2 DEF PartyOK, DeltasOK
    <2> DEFINE d == a.deltas
               x == Sec(t)
    <2>4. /\ IsSeq(rec.deltas) /\ Len(rec.deltas) = Len(d) + 1
          /\ \A m \in 1..Len(d) : rec.deltas[m] = d[m]
          /\ rec.deltas[Len(d) + 1] = x
        <3> HIDE DEF d, x
        <3>1. IsSeq(d) /\ rec.deltas = Append(d, x)
            BY <2>1, <2>3 DEF d, x
        <3> QED BY <3>1, Appended
    <2>5. Len(rec.deltas) = n
        BY <1>2, <2>3, <2>4
    <2>6. ASSUME NEW m \in 1..n PROVE rec.deltas[m] = Sec(h[m])
        <3>1. CASE m = n
            BY <1>2, <2>3, <2>4, <3>1 DEF n
        <3>2. CASE m # n
            <4>1. m \in 1..(n - 1)
                BY <1>2, <3>2
            <4> QED BY <2>3, <2>4, <4>1
        <3> QED BY <3>1, <3>2
    <2>7. DeltasOK(h, rec)
        BY <1>4, <2>4, <2>5, <2>6 DEF DeltasOK
    <2> QED BY <2>2, <2>7
<1>10. PartyOK(conf, h, p, rec)
    BY <1>3, <1>4, <1>5, <1>6, <1>7, <1>8, <1>9 DEF PartyOK, Returns
<1> QED BY <1>10, CallStep DEF Returns

(*---------------------- what is still to be chosen ----------------------*)
\* The call t with the choices c
Choosing(t, c) == [conf |-> t.conf, nr |-> t.nr, call |-> t.call, from |-> t.from, to |-> t.to,
                   chose |-> c]
Alike(t, u) == /\ t.conf = u.conf /\ t.nr = u.nr /\ t.call = u.call
               /\ t.from = u.from /\ t.to = u.to

LEMMA AlikeFacts ==
    ASSUME NEW t, NEW u, Alike(t, u)
    PROVE  /\ \A p \in Party : Count(t, p) = Count(u, p)
           /\ \A p \in Party : \A pc, at : /\ Written(t, p, pc, at) = Written(u, p, pc, at)
                                       /\ WasRead(t, p, pc, at) = WasRead(u, p, pc, at)
           /\ \A n : CallOK(t, n) => CallOK(u, n)
           /\ \A p, pc, at : StageOK(t, p, pc, at) => StageOK(u, p, pc, at)
<1>1. \A p \in Party : Count(t, p) = Count(u, p) /\ BaseSent(t, p) = BaseSent(u, p)
    BY DEF Alike, Count, BaseSent
<1>2. RoundsOf(t) = RoundsOf(u) /\ Ferret(t) = Ferret(u) /\ Based(t) = Based(u)
    BY DEF Alike, RoundsOf, Ferret, Based
<1>3. \A p \in Party : \A pc, at : Written(t, p, pc, at) = Written(u, p, pc, at)
    BY <1>1, <1>2 DEF Written, Party
<1>4. \A p \in Party : \A pc, at : WasRead(t, p, pc, at) = WasRead(u, p, pc, at)
    BY <1>1, <1>2 DEF WasRead, Party
<1>5. \A n : CallOK(t, n) => CallOK(u, n)
    BY DEF Alike, CallOK
<1>6. \A p, pc, at : StageOK(t, p, pc, at) => StageOK(u, p, pc, at)
    BY <1>2 DEF Alike, StageOK
<1> QED BY <1>1, <1>3, <1>4, <1>5, <1>6

(* The choices of call n can still be others, if what its parties hold and have
   sent so far fits those, too. *)
LEMMA Rechosen ==
    ASSUME NEW cs, NEW h, Inv(cs, h), NEW n \in 1..Len(h), NEW c, NEW u, u = Choosing(h[n], c),
           Chosen(u),
           \A p \in Party :
              \/ me[p].cnt < n
              \/ /\ me[p].cnt = n /\ me[p].pc # "idle" /\ InCall(u, p, me[p])
                 /\ \A o \in 0..(Written(h[n], p, me[p].pc, me[p].at) - 1) :
                       MessageOf(u, p, o) = MessageOf(h[n], p, o)
    PROVE  Inv(cs, [h EXCEPT ![n] = u])
<1> DEFINE g == [h EXCEPT ![n] = u]
<1>1. /\ HistoryOK(conf, cs, h) /\ ChannelOK /\ me = [p \in Party |-> me[p]]
      /\ \A p \in Party : Record(me[p]) /\ PartyOK(conf, h, p, me[p])
      /\ \A p \in Party : Stretch(h, p, me[p].cnt, Outgoing(p), ReadOf(h, Peer(p), me[Peer(p)]),
                                  SentOf(h, p, me[p]))
    BY DEF Inv
<1>2. /\ Len(h) \in Nat /\ Len(h) = Len(cs) /\ IsSeq(h) /\ ConfOK(conf) /\ cs \in Seq(Calls)
      /\ Len(cs) <= MaxCalls + 1
      /\ \A m \in 1..Len(h) : /\ CallOK(h[m], m) /\ h[m].call = cs[m] /\ h[m].conf = conf
                              /\ Chosen(h[m]) /\ h[m].from = PlaceOf(h, m - 1)
      /\ \A l, m \in 1..Len(h) : l < m => h[l].to.alice <= h[m].from.alice
                                          /\ h[l].to.bob <= h[m].from.bob
    BY <1>1, HistoryFacts DEF HistoryOK
<1>3. IsSeq(g) /\ Len(g) = Len(h) /\ g[n] = u /\ \A m \in 1..Len(h) : m # n => g[m] = h[m]
    <2>1. PICK T : h \in Seq(T)
        BY <1>2 DEF IsSeq
    <2>2. h \in Seq(T \cup {u})
        BY <2>1
    <2>3. g \in Seq(T \cup {u}) /\ Len(g) = Len(h)
        BY <2>2
    <2>4. g[n] = u /\ \A m \in 1..Len(h) : m # n => g[m] = h[m]
        BY <2>2
    <2> QED BY <2>3, <2>4 DEF IsSeq
<1> HIDE DEF g
<1>4. \A m \in 1..Len(h) : Alike(h[m], g[m])
    <2>1. Alike(h[n], u)
        BY DEF Alike, Choosing
    <2>2. \A m : Alike(m, m)
        BY DEF Alike
    <2> QED BY <1>3, <2>1, <2>2
<1>5. \A m \in 0..Len(h) : PlaceOf(g, m) = PlaceOf(h, m)
    BY <1>2, <1>4 DEF PlaceOf, Alike
<1>6. HistoryOK(conf, cs, g)
    <2>1. ASSUME NEW m \in 1..Len(cs)
          PROVE  g[m].call = cs[m] /\ g[m].conf = conf /\ CallOK(g[m], m)
                 /\ Chosen(g[m]) /\ g[m].from = PlaceOf(g, m - 1)
        <3>1. m \in 1..Len(h) /\ m - 1 \in 0..Len(h) /\ Alike(h[m], g[m])
            BY <1>2, <1>4
        <3>2. g[m].call = cs[m] /\ g[m].conf = conf /\ g[m].from = PlaceOf(g, m - 1)
            BY <1>2, <1>5, <3>1 DEF Alike
        <3>3. CallOK(g[m], m)
            BY <1>2, <3>1, AlikeFacts
        <3>4. Chosen(g[m])
            BY <1>2, <1>3, <3>1
        <3> QED BY <3>2, <3>3, <3>4
    <2>2. ASSUME NEW l \in 1..Len(cs), NEW m \in 1..Len(cs), l < m
          PROVE  g[l].to.alice <= g[m].from.alice /\ g[l].to.bob <= g[m].from.bob
        <3>1. l \in 1..Len(h) /\ m \in 1..Len(h)
            BY <1>2
        <3>2. g[l].to = h[l].to /\ g[m].from = h[m].from
            BY <1>4, <3>1 DEF Alike
        <3> QED BY <1>2, <2>2, <3>1, <3>2
    <2> QED BY <1>2, <1>3, <2>1, <2>2 DEF HistoryOK
<1>7. ASSUME NEW p \in Party
      PROVE  /\ SentOf(g, p, me[p]) = SentOf(h, p, me[p])
             /\ ReadOf(g, p, me[p]) = ReadOf(h, p, me[p])
    <2> DEFINE a == me[p]
    <2>1. a.cnt \in 0..Len(h) /\ (a.pc # "idle" => a.cnt \in 1..Len(h))
        BY <1>1, <1>2 DEF PartyOK
    <2>2. PlaceOf(g, a.cnt) = PlaceOf(h, a.cnt)
        BY <1>5, <2>1
    <2>3. a.pc # "idle" =>
             /\ g[a.cnt].from = h[a.cnt].from
             /\ Written(g[a.cnt], p, a.pc, a.at) = Written(h[a.cnt], p, a.pc, a.at)
             /\ WasRead(g[a.cnt], p, a.pc, a.at) = WasRead(h[a.cnt], p, a.pc, a.at)
        <3>1. SUFFICES ASSUME a.pc # "idle" PROVE Alike(h[a.cnt], g[a.cnt])
            BY AlikeFacts DEF Alike
        <3> QED BY <1>4, <2>1, <3>1
    <2> QED BY <2>2, <2>3 DEF SentOf, ReadOf
<1>8. ASSUME NEW p \in Party
      PROVE  PartyOK(conf, g, p, me[p])
    <2> DEFINE a == me[p]
    <2>1. PartyOK(conf, h, p, a) /\ (a.cnt < n \/ (a.cnt = n /\ a.pc # "idle" /\ InCall(u, p, a)))
        BY <1>1
    <2> HIDE DEF a
    <2>2. a.cnt \in 0..Len(h) /\ Len(a.out) = a.cnt - (IF a.pc = "idle" THEN 0 ELSE 1)
        BY <2>1 DEF PartyOK
    <2>3. \A m \in 1..Len(a.out) : a.out[m] = OutOf(g[m], p)
        <3>1. ASSUME NEW m \in 1..Len(a.out) PROVE m \in 1..Len(h) /\ m # n
            BY <1>2, <2>1, <2>2
        <3> QED BY <1>3, <2>1, <3>1 DEF PartyOK
    <2>4. a.pc = "idle" => Between(g, p, a)
        BY <1>5, <2>1, <2>2 DEF PartyOK, Between
    <2>5. a.pc # "idle" => a.cnt > 0 /\ InCall(g[a.cnt], p, a)
        <3>1. SUFFICES ASSUME a.pc # "idle" PROVE a.cnt > 0 /\ InCall(g[a.cnt], p, a)
            OBVIOUS
        <3>2. a.cnt > 0 /\ InCall(h[a.cnt], p, a)
            BY <2>1, <3>1 DEF PartyOK
        <3>3. CASE a.cnt < n
            BY <1>2, <1>3, <2>2, <3>2, <3>3
        <3>4. CASE a.cnt = n /\ InCall(u, p, a)
            BY <1>3, <3>2, <3>4
        <3> QED BY <2>1, <3>3, <3>4
    <2>6. p = "ALICE" => DeltasOK(g, a)
        <3> SUFFICES ASSUME p = "ALICE" PROVE DeltasOK(g, a)
            OBVIOUS
        <3>1. IsSeq(a.deltas) /\ Len(a.deltas) = Len(a.out)
              /\ \A m \in 1..Len(a.deltas) : a.deltas[m] = Sec(h[m])
            BY <2>1 DEF PartyOK, DeltasOK
        <3>2. ASSUME NEW m \in 1..Len(a.deltas) PROVE m \in 1..Len(h) /\ m # n
            BY <1>2, <2>1, <2>2, <3>1
        <3> QED BY <1>3, <3>1, <3>2 DEF DeltasOK
    <2>7. PartyOK(conf, g, p, a)
        BY <1>3, <2>1, <2>3, <2>4, <2>5, <2>6 DEF PartyOK
    <2> QED BY <2>7 DEF a
<1>9. ASSUME NEW p \in Party
      PROVE  Stretch(g, p, me[p].cnt, Outgoing(p), ReadOf(g, Peer(p), me[Peer(p)]),
                     SentOf(g, p, me[p]))
    <2> DEFINE a == me[p]
               first == ReadOf(h, Peer(p), me[Peer(p)])
               last == SentOf(h, p, a)
               s == Outgoing(p)
    <2>1. Stretch(h, p, a.cnt, s, first, last) /\ a.cnt \in 0..Len(h)
        BY <1>1 DEF PartyOK
    <2>2. a.cnt = n => last = SentAt(h[n].from, p) + Written(h[n], p, a.pc, a.at)
                       /\ \A o \in 0..(Written(h[n], p, a.pc, a.at) - 1) :
                             MessageOf(u, p, o) = MessageOf(h[n], p, o)
        <3>1. SUFFICES ASSUME a.cnt = n PROVE a.pc # "idle" /\ 
                          \A o \in 0..(Written(h[n], p, a.pc, a.at) - 1) :
                             MessageOf(u, p, o) = MessageOf(h[n], p, o)
            BY DEF SentOf
        <3>2. ~(a.cnt < n)
            BY <3>1
        <3> QED BY <3>2
    <2>3. a.cnt = n => Written(h[n], p, a.pc, a.at) \in Nat
        <3>1. a.cnt = n => a.pc # "idle"
            <4>1. a.cnt = n => ~(a.cnt < n)
                OBVIOUS
            <4> QED BY <4>1
        <3> QED BY <3>1, WithinCall
    <2> HIDE DEF a, first, last, s
    <2>4. ASSUME NEW m \in 1..a.cnt, NEW o \in 0..(Count(g[m], p) - 1),
                 first <= SentAt(g[m].from, p) + o, SentAt(g[m].from, p) + o < last
          PROVE  s[(SentAt(g[m].from, p) + o) - first + 1] = MessageOf(g[m], p, o)
        <3>1. m \in 1..Len(h) /\ Alike(h[m], g[m])
            BY <1>2, <1>4, <2>1
        <3>2. g[m].from = h[m].from /\ Count(g[m], p) = Count(h[m], p)
            BY <3>1, AlikeFacts DEF Alike
        <3>3. s[(SentAt(g[m].from, p) + o) - first + 1] = MessageOf(h[m], p, o)
            BY <2>1, <2>4, <3>2 DEF Stretch
        <3>4. MessageOf(h[m], p, o) = MessageOf(g[m], p, o)
            <4>1. CASE m # n
                BY <1>3, <3>1, <4>1
            <4>2. CASE m = n /\ a.cnt = n
                <5>1. SentAt(h[n].from, p) \in Nat /\ Count(h[n], p) \in Nat
                    BY <1>2, CountsOf
                <5>2. o \in 0..(Written(h[n], p, a.pc, a.at) - 1)
                    <6> DEFINE x == SentAt(h[n].from, p)
                               y == Written(h[n], p, a.pc, a.at)
                    <6>1. x + o < x + y /\ x \in Nat /\ y \in Nat
                        BY <2>2, <2>3, <2>4, <3>2, <4>2, <5>1
                    <6>2. o \in Nat
                        BY <3>2, <4>2, <5>1
                    <6> HIDE DEF x, y
                    <6>3. o \in 0..(y - 1)
                        BY <6>1, <6>2
                    <6> QED BY <6>3 DEF y
                <5> QED BY <1>3, <2>2, <4>2, <5>2
            <4>3. m = n => a.cnt = n
                <5>1. a.cnt < n \/ a.cnt = n
                    BY DEF a
                <5>2. a.cnt \in Nat /\ m \in 1..a.cnt
                    BY <1>2, <2>1
                <5> QED BY <5>1, <5>2
            <4> QED BY <4>1, <4>2, <4>3
        <3> QED BY <3>3, <3>4
    <2>5. Stretch(g, p, a.cnt, s, first, last)
        BY <2>1, <2>4 DEF Stretch
    <2>6. ReadOf(g, Peer(p), me[Peer(p)]) = first /\ SentOf(g, p, me[p]) = last
        BY <1>7, Peers DEF first, last, a
    <2> QED BY <2>5, <2>6 DEF a, s
<1>10. Inv(cs, g)
    BY <1>1, <1>6, <1>8, <1>9 DEF Inv
<1> QED BY <1>10 DEF g

\* One more call, begun by the first of the parties.
LEMMA Extended ==
    ASSUME NEW cs, NEW h, Inv(cs, h), Len(h) <= MaxCalls, NEW c \in Calls,
           Offers(conf, c, PlaceOf(h, Len(h)).epoch), NEW x,
           NEW t, t = [conf |-> conf, nr |-> Len(h) + 1, call |-> c, from |-> PlaceOf(h, Len(h)),
                       to |-> After(conf, c, PlaceOf(h, Len(h))), chose |-> x],
           Chosen(t)
    PROVE  Inv(Append(cs, c), Append(h, t))
<1> DEFINE g == Append(h, t)
           ds == Append(cs, c)
           l == Len(h)
<1>1. /\ HistoryOK(conf, cs, h) /\ ChannelOK /\ me = [p \in Party |-> me[p]]
      /\ \A p \in Party : Record(me[p]) /\ PartyOK(conf, h, p, me[p])
      /\ \A p \in Party : Stretch(h, p, me[p].cnt, Outgoing(p), ReadOf(h, Peer(p), me[Peer(p)]),
                                  SentOf(h, p, me[p]))
    BY DEF Inv
<1>2. /\ l \in Nat /\ l = Len(cs) /\ IsSeq(h) /\ ConfOK(conf) /\ cs \in Seq(Calls)
      /\ \A m \in 1..l : /\ CallOK(h[m], m) /\ h[m].call = cs[m] /\ h[m].conf = conf
                         /\ Chosen(h[m]) /\ h[m].from = PlaceOf(h, m - 1)
      /\ \A k, m \in 1..l : k < m => h[k].to.alice <= h[m].from.alice
                                     /\ h[k].to.bob <= h[m].from.bob
    BY <1>1, HistoryFacts DEF HistoryOK
<1>3. /\ IsSeq(g) /\ Len(g) = l + 1 /\ g[l + 1] = t /\ \A m \in 1..l : g[m] = h[m]
    BY <1>2, Appended
<1>4. /\ ds \in Seq(Calls) /\ Len(ds) = l + 1 /\ ds[l + 1] = c /\ \A m \in 1..l : ds[m] = cs[m]
    BY <1>2
<1>5. PlaceOf(h, l) \in Places /\ PlaceOf(h, l).gid % Batch = 0
      /\ (conf.provider # "ferret" => PlaceOf(h, l).pos % Width = 0)
    <2>1. l \in 0..l
        BY <1>2
    <2> QED BY <1>1, <2>1, PlaceFacts
<1> HIDE DEF g, ds, l
<1>6. \A m \in 0..l : PlaceOf(g, m) = PlaceOf(h, m)
    BY <1>2, <1>3 DEF PlaceOf
<1>7. MaxCalls \in Nat /\ l <= MaxCalls /\ l + 1 \in 1..(MaxCalls + 1)
    BY <1>2, CotAssumption DEF l
<1>8. t.to.epoch <= l + 1
    <2>1. PlaceOf(h, l).epoch \in Nat /\ PlaceOf(h, l).epoch <= l
        <3>1. PlaceOf(h, l).epoch \in Nat
            BY <1>5 DEF Places
        <3>2. CASE l = 0
            BY <3>2 DEF PlaceOf, Origin
        <3>3. CASE l # 0
            <4>1. CallOK(h[l], l)
                BY <1>2, <3>3
            <4>2. PlaceOf(h, l) = h[l].to
                BY <3>3 DEF PlaceOf
            <4> QED BY <3>1, <4>1, <4>2 DEF CallOK
        <3> QED BY <3>1, <3>2, <3>3
    <2>2. t.to.epoch = PlaceOf(h, l).epoch + (IF Renews(conf, c, PlaceOf(h, l).epoch) THEN 1 ELSE 0)
        BY DEF After, l
    <2> QED BY <1>2, <2>1, <2>2
<1>9. CallOK(t, l + 1)
    BY <1>2, <1>5, <1>7, <1>8 DEF CallOK, l
<1>10. ASSUME NEW k \in 1..l
      PROVE  h[k].to.alice <= t.from.alice /\ h[k].to.bob <= t.from.bob
    <2>1. t.from = h[l].to
        BY <1>2 DEF PlaceOf, l
    <2>2. CallOK(h[k], k) /\ CallOK(h[l], l)
        BY <1>2
    <2>3. /\ h[k].to.alice \in Nat /\ h[k].to.bob \in Nat
          /\ h[l].to.alice \in Nat /\ h[l].to.bob \in Nat
          /\ h[l].from.alice \in Nat /\ h[l].from.bob \in Nat
        BY <2>2, PlacesOf DEF Places
    <2>4. h[l].from.alice <= h[l].to.alice /\ h[l].from.bob <= h[l].to.bob
        <3>1. ASSUME NEW p \in Party
              PROVE  Count(h[l], p) \in Nat /\ SentAt(h[l].to, p) = SentAt(h[l].from, p) + Count(h[l], p)
            BY <2>2, CountsOf
        <3>2. "ALICE" \in Party /\ "BOB" \in Party
            BY DEF Party
        <3>3. /\ Count(h[l], "ALICE") \in Nat
              /\ h[l].to.alice = h[l].from.alice + Count(h[l], "ALICE")
            BY <3>1, <3>2 DEF SentAt
        <3>4. /\ Count(h[l], "BOB") \in Nat
              /\ h[l].to.bob = h[l].from.bob + Count(h[l], "BOB")
            BY <3>1, <3>2 DEF SentAt
        <3> QED BY <2>3, <3>3, <3>4
    <2>5. CASE k = l
        <3>1. h[k] = h[l]
            BY <2>5
        <3>2. h[k].to.alice <= h[k].to.alice /\ h[k].to.bob <= h[k].to.bob
            BY <2>3
        <3>3. t.from = h[k].to
            BY <2>1, <3>1
        <3> QED BY <3>2, <3>3
    <2>6. CASE k # l
        <3>1. k < l /\ l \in 1..l
            BY <1>2, <2>6
        <3>2. h[k].to.alice <= h[l].from.alice /\ h[k].to.bob <= h[l].from.bob
            BY <1>2, <3>1
        <3>3. h[k].to.alice <= h[l].to.alice /\ h[k].to.bob <= h[l].to.bob
            BY <2>3, <2>4, <3>2
        <3> QED BY <2>1, <3>3
    <2> QED BY <2>5, <2>6
<1>11. HistoryOK(conf, ds, g)
    <2>1. ASSUME NEW m \in 1..Len(ds)
          PROVE  g[m].call = ds[m] /\ g[m].conf = conf /\ CallOK(g[m], m)
                 /\ Chosen(g[m]) /\ g[m].from = PlaceOf(g, m - 1)
        <3>1. CASE m \in 1..l
            <4>1. m - 1 \in 0..l
                BY <1>2, <3>1
            <4> QED BY <1>2, <1>3, <1>4, <1>6, <3>1, <4>1
        <3>2. CASE m = l + 1
            <4>1. m - 1 = l /\ l \in 0..l
                BY <1>2, <3>2
            <4>2. t.from = PlaceOf(h, l) /\ t.call = c /\ t.conf = conf
                BY DEF l
            <4> QED BY <1>3, <1>4, <1>6, <1>9, <3>2, <4>1, <4>2
        <3> QED BY <1>2, <1>4, <3>1, <3>2
    <2>2. ASSUME NEW k \in 1..Len(ds), NEW m \in 1..Len(ds), k < m
          PROVE  g[k].to.alice <= g[m].from.alice /\ g[k].to.bob <= g[m].from.bob
        <3>1. k \in 1..l /\ g[k] = h[k]
            BY <1>2, <1>3, <1>4, <2>2
        <3>2. CASE m \in 1..l
            BY <1>2, <1>3, <2>2, <3>1, <3>2
        <3>3. CASE m = l + 1
            BY <1>3, <1>10, <3>1, <3>3
        <3> QED BY <1>2, <1>4, <3>2, <3>3
    <2>3. Len(ds) <= MaxCalls + 1
        BY <1>2, <1>4, <1>7
    <2> QED BY <1>2, <1>3, <1>4, <2>1, <2>2, <2>3 DEF HistoryOK
<1>12. ASSUME NEW p \in Party
       PROVE  /\ SentOf(g, p, me[p]) = SentOf(h, p, me[p])
              /\ ReadOf(g, p, me[p]) = ReadOf(h, p, me[p])
              /\ me[p].cnt \in 0..l
    <2>1. me[p].cnt \in 0..l /\ (me[p].pc # "idle" => me[p].cnt \in 1..l)
        BY <1>1, <1>2 DEF PartyOK, l
    <2> QED BY <1>3, <1>6, <2>1 DEF SentOf, ReadOf
<1>13. ASSUME NEW p \in Party
       PROVE  PartyOK(conf, g, p, me[p])
    <2> DEFINE a == me[p]
    <2>1. PartyOK(conf, h, p, a) /\ a.cnt \in 0..l
        BY <1>1, <1>12
    <2> HIDE DEF a
    <2>2. Len(a.out) = a.cnt - (IF a.pc = "idle" THEN 0 ELSE 1) /\ a.cnt \in 0..Len(g)
        BY <1>2, <1>3, <2>1 DEF PartyOK
    <2>3. \A m \in 1..Len(a.out) : a.out[m] = OutOf(g[m], p)
        <3>1. ASSUME NEW m \in 1..Len(a.out) PROVE m \in 1..l
            BY <1>2, <2>1, <2>2
        <3> QED BY <1>3, <2>1, <3>1 DEF PartyOK
    <2>4. a.pc = "idle" => Between(g, p, a)
        BY <1>6, <2>1 DEF PartyOK, Between
    <2>5. a.pc # "idle" => a.cnt > 0 /\ InCall(g[a.cnt], p, a)
        BY <1>2, <1>3, <2>1 DEF PartyOK
    <2>6. p = "ALICE" => DeltasOK(g, a)
        <3> SUFFICES ASSUME p = "ALICE" PROVE DeltasOK(g, a)
            OBVIOUS
        <3>1. IsSeq(a.deltas) /\ Len(a.deltas) = Len(a.out)
              /\ \A m \in 1..Len(a.deltas) : a.deltas[m] = Sec(h[m])
            BY <2>1 DEF PartyOK, DeltasOK
        <3>2. ASSUME NEW m \in 1..Len(a.deltas) PROVE m \in 1..l
            BY <1>2, <2>1, <2>2, <3>1
        <3> QED BY <1>3, <3>1, <3>2 DEF DeltasOK
    <2>7. PartyOK(conf, g, p, a)
        BY <2>1, <2>2, <2>3, <2>4, <2>5, <2>6 DEF PartyOK
    <2> QED BY <2>7 DEF a
<1>14. ASSUME NEW p \in Party
       PROVE  Stretch(g, p, me[p].cnt, Outgoing(p), ReadOf(g, Peer(p), me[Peer(p)]),
                      SentOf(g, p, me[p]))
    <2> DEFINE first == ReadOf(h, Peer(p), me[Peer(p)])
               last == SentOf(h, p, me[p])
    <2>1. Stretch(h, p, me[p].cnt, Outgoing(p), first, last) /\ me[p].cnt \in 0..l
        BY <1>1, <1>12
    <2> HIDE DEF first, last
    <2>2. \A m \in 1..me[p].cnt : g[m] = h[m]
        BY <1>2, <1>3, <2>1
    <2>3. Stretch(g, p, me[p].cnt, Outgoing(p), first, last)
        BY <2>1, <2>2 DEF Stretch
    <2>4. ReadOf(g, Peer(p), me[Peer(p)]) = first /\ SentOf(g, p, me[p]) = last
        BY <1>12, Peers DEF first, last
    <2> QED BY <2>3, <2>4
<1>15. Inv(ds, g)
    BY <1>1, <1>11, <1>13, <1>14 DEF Inv
<1> QED BY <1>15 DEF ds, g

(*---------------------- the actions: the base OTs -----------------------*)
LEMMA KeysGrow ==
    ASSUME NEW cf, NEW e, NEW t, NEW m \in Nat
    PROVE  /\ PointsIn(t, 0) = <<>> /\ KeysIn(cf, e, 0) = <<>>
           /\ Append(PointsIn(t, m), PointIn(t, m)) = PointsIn(t, m + 1)
           /\ Append(KeysIn(cf, e, m), PrgKey(e, m, SecretAt(cf, e)[m])) = KeysIn(cf, e, m + 1)
<1>1. ASSUME NEW f, NEW g, NEW x, f = [i \in 1..m |-> g[i]], NEW k, k = [i \in 1..(m + 1) |-> g[i]],
             x = g[m + 1]
      PROVE  Append(f, x) = k
    <2>1. f = [i \in 1..m |-> f[i]] /\ k = [i \in 1..(m + 1) |-> k[i]] /\ m + 1 \in Nat
        BY <1>1
    <2>2. IsSeq(f) /\ Len(f) = m
        BY <2>1, FromTuple
    <2>3. IsSeq(k) /\ Len(k) = m + 1
        BY <2>1, FromTuple
    <2>4. /\ IsSeq(Append(f, x)) /\ Len(Append(f, x)) = m + 1
          /\ \A i \in 1..m : Append(f, x)[i] = f[i]
          /\ Append(f, x)[m + 1] = x
        BY <2>2, Appended
    <2>5. \A i \in 1..(m + 1) : Append(f, x)[i] = k[i]
        <3>1. ASSUME NEW i \in 1..(m + 1) PROVE Append(f, x)[i] = k[i]
            <4>1. CASE i = m + 1
                BY <1>1, <2>4, <4>1
            <4>2. CASE i # m + 1
                <5>1. i \in 1..m
                    BY <4>2
                <5> QED BY <1>1, <2>4, <5>1
            <4> QED BY <4>1, <4>2
        <3> QED BY <3>1
    <2>6. PICK T : Append(f, x) \in Seq(T) /\ k \in Seq(T)
        BY <2>3, <2>4, OneType
    <2> QED BY <2>3, <2>4, <2>5, <2>6, SeqEqual
<1>2. PointsIn(t, 0) = <<>> /\ KeysIn(cf, e, 0) = <<>>
    BY DEF PointsIn, KeysIn
<1> DEFINE g == [i \in 1..(m + 1) |-> PointIn(t, i - 1)]
           k == [i \in 1..(m + 1) |-> PrgKey(e, i - 1, SecretAt(cf, e)[i - 1])]
<1>3. Append(PointsIn(t, m), PointIn(t, m)) = PointsIn(t, m + 1)
    <2>1. /\ PointsIn(t, m) = [i \in 1..m |-> g[i]] /\ PointsIn(t, m + 1) = [i \in 1..(m + 1) |-> g[i]]
          /\ PointIn(t, m) = g[m + 1]
        BY DEF PointsIn
    <2> QED BY <1>1, <2>1
<1>4. Append(KeysIn(cf, e, m), PrgKey(e, m, SecretAt(cf, e)[m])) = KeysIn(cf, e, m + 1)
    <2>1. /\ KeysIn(cf, e, m) = [i \in 1..m |-> k[i]] /\ KeysIn(cf, e, m + 1) = [i \in 1..(m + 1) |-> k[i]]
          /\ PrgKey(e, m, SecretAt(cf, e)[m]) = k[m + 1]
        BY DEF KeysIn
    <2> QED BY <1>1, <2>1
<1> QED BY <1>2, <1>3, <1>4

LEMMA BobSendAStep ==
    ASSUME NEW cs, NEW h, Inv(cs, h), BobSendA
    PROVE  Inv(cs, h)'
<1>1. PICK b : b = B
    OBVIOUS
<1> DEFINE t == h[b.cnt]
           rec == [Goto(b, "points") EXCEPT !.key = <<>>]
           ms == <<"A">>
<1>2. "BOB" \in Party /\ Peer("BOB") = "ALICE" /\ b = me["BOB"]
    BY <1>1 DEF Party, Peer, B
<1>3. b.pc = "base" /\ Write("BOB", ms) /\ Become("BOB", rec)
    BY <1>1 DEF BobSendA
<1>4. Record(b) /\ ChannelOK /\ \A k \in Slot : b.local[k].plus \in Vector
    BY <1>2, <1>3, Becoming
<1>5. Passes("BOB", 0, ms) /\ Len(ms) = 1 /\ ms[1] = "A"
    BY <1>2, <1>3, <1>4, Single, WritePasses
<1>6. InCall(t, "BOB", b) /\ CallOK(t, b.cnt)
    BY <1>2, <1>3, WithinCall
<1> HIDE DEF t
<1>7. Based(t) /\ ~Ferret(t) /\ BaseSent(t, "BOB") = 1 + BaseN /\ BaseN \in Nat \ {0}
    <2>1. Based(t)
        BY <1>3, <1>6 DEF InCall, StageOK, HashKinds, LoopKinds
    <2> QED BY <1>6, <2>1, KindsOf, IknpAssumption
<1>8. /\ Record(rec) /\ rec.pc = "points" /\ rec.at = 0 /\ rec.key = <<>> /\ rec.cnt = b.cnt
      /\ rec.out = b.out /\ rec.local = b.local /\ rec.call = b.call /\ rec.epoch = b.epoch
      /\ rec.deltas = b.deltas /\ rec.s = b.s /\ rec.delta = b.delta
      /\ rec.pos = b.pos /\ rec.gid = b.gid /\ rec.data = b.data /\ rec.r = b.r
    BY <1>4 DEF Record, Fields, Goto
<1> HIDE DEF rec
<1>9. Keeps(t, "BOB", b, rec)
    <2>1. StageOK(t, "BOB", "points", 0)
        BY <1>7 DEF StageOK
    <2>2. InCall(t, "BOB", rec)
        BY <1>3, <1>6, <1>8, <2>1, KeysGrow DEF InCall, PosAt, Early, DataAt, KeyAt
    <2> QED BY <1>3, <1>4, <1>8, <2>2 DEF Keeps
<1>10. Advances(t, "BOB", b, rec, 0, ms)
    <2>1. MessageOf(t, "BOB", 0) = "A"
        BY <1>7 DEF MessageOf, BobsMessage
    <2> QED BY <1>3, <1>5, <1>8, <2>1 DEF Advances, Written, WasRead
<1> HIDE DEF ms
<1> QED BY <1>2, <1>3, <1>5, <1>9, <1>10, Stays DEF t

\* What is known of a party at work in the call t
AtWork(p, a, t) ==
    /\ Record(a) /\ a.at \in Nat /\ InCall(t, p, a) /\ CallOK(t, a.cnt) /\ Chosen(t) /\ t.conf = conf
    /\ \A k \in Slot : a.local[k].plus \in Vector
    /\ ChannelOK

LEMMA WorkFacts ==
    ASSUME NEW cs, NEW h, Inv(cs, h), NEW p \in Party, NEW a, a = me[p], a.pc # "idle",
           NEW t, t = h[a.cnt]
    PROVE  AtWork(p, a, t)
<1>1. Record(a) /\ ChannelOK /\ PartyOK(conf, h, p, a)
    BY PartsOf
<1>2. /\ a.at \in Nat /\ InCall(t, p, a) /\ CallOK(t, a.cnt) /\ Chosen(t) /\ t.conf = conf
    BY WithinCall
<1> QED BY <1>1, <1>2 DEF AtWork, PartyOK

LEMMA Names == "ALICE" \in Party /\ "BOB" \in Party /\ Peer("ALICE") = "BOB" /\ Peer("BOB") = "ALICE"
BY DEF Party, Peer

\* Within the base OTs
LEMMA BasedFacts ==
    ASSUME NEW p, NEW a, NEW t, AtWork(p, a, t), a.pc \in {"base", "keys", "points"}
    PROVE  /\ Based(t) /\ ~Ferret(t) /\ BaseSent(t, "ALICE") = BaseN /\ BaseSent(t, "BOB") = 1 + BaseN
           /\ BaseN \in Nat \ {0} /\ First(t) = 0 /\ Sec(t) \in Vector
           /\ p = "ALICE" => a.s = Sec(t)
           /\ a.epoch = t.to.epoch /\ a.data = [i \in Index(t) |-> Junk] /\ a.gid = t.from.gid
           /\ a.pos = t.from.pos /\ a.call = t.call
           /\ a.pc = "keys" => p = "ALICE" /\ a.at < BaseN
           /\ a.pc = "points" => p = "BOB" /\ a.at <= BaseN
<1>1. InCall(t, p, a) /\ CallOK(t, a.cnt)
    BY DEF AtWork
<1>2. Based(t) /\ (a.pc = "keys" => p = "ALICE" /\ a.at < BaseN)
      /\ (a.pc = "points" => p = "BOB" /\ a.at <= BaseN)
    BY <1>1 DEF InCall, StageOK
<1>3. Sec(t) \in Vector
    BY <1>1, SecFacts
<1>5. p = "ALICE" => a.s = Sec(t)
    <2>1. p = "ALICE" => p # "BOB"
        OBVIOUS
    <2> QED BY <1>1, <1>2, <2>1, KindsOf DEF InCall
<1>4. /\ a.epoch = t.to.epoch /\ a.data = [i \in Index(t) |-> Junk] /\ a.gid = t.from.gid
      /\ a.pos = t.from.pos /\ a.call = t.call
    <2>1. a.pc \in Early /\ a.pc # "ot"
        BY DEF Early
    <2>2. DataAt(t, p, a.pc, a.at) = [i \in Index(t) |-> Junk] /\ PosAt(t, a.pc, a.at) = t.from.pos
        BY <2>1 DEF DataAt, PosAt
    <2>3. t.from.gid \in Nat
        BY <1>1, PlacesOf DEF Places
    <2> QED BY <1>1, <2>1, <2>2, <2>3 DEF InCall
<1> QED BY <1>1, <1>2, <1>3, <1>4, <1>5, KindsOf, IknpAssumption

LEMMA AliceSendPointsStep ==
    ASSUME NEW cs, NEW h, Inv(cs, h), AliceSendPoints
    PROVE  Inv(cs, h)'
<1>1. PICK a : a = A
    OBVIOUS
<1>2. PICK t : t = h[a.cnt]
    OBVIOUS
<1> DEFINE rec == [Goto(a, "keys") EXCEPT !.key = <<>>]
<1>3. PICK ms : ms = Points
    OBVIOUS
<1>4. a = me["ALICE"] /\ a.pc = "base" /\ CanRead("ALICE") /\ ReadSend("ALICE", ms) /\ Become("ALICE", rec)
    BY <1>1, <1>3 DEF AliceSendPoints, A
<1>5. AtWork("ALICE", a, t)
    BY <1>2, <1>4, Names, WorkFacts
<1>6. /\ Based(t) /\ ~Ferret(t) /\ BaseSent(t, "ALICE") = BaseN /\ BaseN \in Nat \ {0}
      /\ A.s = Sec(t)
    <2>1. a.pc \in {"base", "keys", "points"}
        BY <1>4
    <2>2. Based(t) /\ ~Ferret(t) /\ BaseSent(t, "ALICE") = BaseN /\ BaseN \in Nat \ {0}
        BY <1>5, <2>1, BasedFacts
    <2>3. InCall(t, "ALICE", a)
        BY <1>5 DEF AtWork
    <2>4. a.s = Sec(t)
        BY <2>2, <2>3, Names DEF InCall
    <2> QED BY <1>1, <2>2, <2>4
<1>7. IsSeq(ms) /\ Len(ms) = BaseN /\ \A i \in 1..BaseN : ms[i] = PointIn(t, i - 1)
    <2>1. ms = [i \in 1..BaseN |-> ms[i]] /\ \A i \in 1..BaseN : ms[i] = PointIn(t, i - 1)
        BY <1>3, <1>6 DEF Points, Point, PointIn
    <2> QED BY <1>6, <2>1, FromTuple
<1>8. Passes("ALICE", 1, ms)
    BY <1>4, <1>5, <1>7, Names, ReadSendPasses DEF AtWork
<1>9. /\ Record(rec) /\ rec.pc = "keys" /\ rec.at = 0 /\ rec.key = <<>> /\ rec.cnt = a.cnt
      /\ rec.out = a.out /\ rec.local = a.local /\ rec.call = a.call /\ rec.epoch = a.epoch
      /\ rec.deltas = a.deltas /\ rec.s = a.s /\ rec.delta = a.delta
      /\ rec.pos = a.pos /\ rec.gid = a.gid /\ rec.data = a.data
    BY <1>5 DEF Record, Fields, Goto, AtWork
<1> HIDE DEF rec
<1>10. Keeps(t, "ALICE", a, rec)
    <2>1. StageOK(t, "ALICE", "keys", 0)
        BY <1>6 DEF StageOK
    <2>2. InCall(t, "ALICE", rec)
        BY <1>4, <1>5, <1>9, <2>1, KeysGrow DEF InCall, PosAt, Early, DataAt, KeyAt, AtWork
    <2> QED BY <1>4, <1>5, <1>9, <2>2 DEF Keeps, AtWork
<1>11. Advances(t, "ALICE", a, rec, 1, ms)
    <2>1. \A i \in 1..BaseN : MessageOf(t, "ALICE", i - 1) = PointIn(t, i - 1)
        BY <1>6 DEF MessageOf, AlicesMessage
    <2>2. Written(t, "ALICE", a.pc, a.at) = 0 /\ Written(t, "ALICE", rec.pc, rec.at) = BaseN
          /\ WasRead(t, "ALICE", a.pc, a.at) = 0 /\ WasRead(t, "ALICE", rec.pc, rec.at) = 1
        BY <1>4, <1>6, <1>9 DEF Written, WasRead
    <2>3. \A i \in 1..Len(ms) : ms[i] = MessageOf(t, "ALICE", 0 + i - 1)
        BY <1>6, <1>7, <2>1
    <2> QED BY <1>6, <1>7, <1>9, <2>2, <2>3 DEF Advances
<1> QED BY <1>2, <1>4, <1>8, <1>10, <1>11, Names, Stays

\* After the base OTs the rows begin; a set-up is done.
LEMMA RowsBegin ==
    ASSUME NEW t, NEW n, CallOK(t, n), Based(t), NEW p \in Party, NEW b, b.call = t.call,
           b.pc = (IF t.call.kind = "setup" THEN "return" ELSE "pre"), b.at = 0,
           b.epoch = t.to.epoch, b.pos = 0, b.gid = t.from.gid, b.data = [i \in Index(t) |-> Junk],
           p = "BOB" => b.r = t.chose.r,
           p = "ALICE" => /\ b.key = KeysIn(t.conf, t.to.epoch, BaseN)
                          /\ b.s = Sec(t) /\ b.delta = Sec(t)
    PROVE  /\ InCall(t, p, b)
           /\ Written(t, p, b.pc, b.at) = BaseSent(t, p)
           /\ WasRead(t, p, b.pc, b.at) = BaseSent(t, Peer(p))
<1>1. /\ ~Ferret(t) /\ First(t) = 0 /\ t.conf.malicious \in BOOLEAN
      /\ t.call.kind = "setup" => Count(t, "BOB") = BaseSent(t, "BOB") /\ t.call.len = 0
      /\ t.call.kind # "setup" => t.call.len > 0
      /\ t.to.pos = First(t) + RowsDrawn(t.conf, t.call) /\ t.call.len \in Nat
    <2>1. t.call \in Calls /\ ConfOK(t.conf)
        BY DEF CallOK
    <2> QED BY <2>1, KindsOf, PlacesOf, CallFacts DEF ConfOK
<1>2. p = "ALICE" \/ p = "BOB"
    BY DEF Party
<1>3. BaseSent(t, p) \in Nat /\ BaseSent(t, Peer(p)) \in Nat
    BY CountsOf, Peers
<1>4. t.from.gid \in Nat
    BY PlacesOf DEF Places
<1>5. CASE t.call.kind = "setup"
    <2>1. b.pc = "return" /\ t.to.pos = 0 /\ t.call.len = 0
        BY <1>1, <1>5 DEF RowsDrawn, Ferret
    <2>2. StageOK(t, p, b.pc, b.at)
        BY <1>5, <2>1 DEF StageOK
    <2>3. DataAt(t, p, b.pc, b.at) = b.data
        <3>1. Index(t) = {}
            BY <2>1 DEF Index
        <3>2. RowsOf(t, p) = [i \in Index(t) |-> Junk]
            BY <3>1 DEF RowsOf
        <3> QED BY <2>1, <3>2 DEF DataAt, Early
    <2>4. InCall(t, p, b)
        BY <1>2, <1>4, <2>1, <2>2, <2>3 DEF InCall, PosAt, Early, KeyAt
    <2>5. Written(t, p, b.pc, b.at) = BaseSent(t, p)
        BY <1>1, <1>2, <1>5, <2>1 DEF Written
    <2>6. WasRead(t, p, b.pc, b.at) = BaseSent(t, Peer(p))
        BY <1>1, <1>2, <1>5, <2>1, Names DEF WasRead
    <2> QED BY <2>4, <2>5, <2>6
<1>6. CASE t.call.kind # "setup"
    <2>1. b.pc = "pre" /\ Moved(t.call.len, 0) = 0
        BY <1>1, <1>6, MovedFacts
    <2>2. StageOK(t, p, b.pc, b.at)
        <3>1. 0 < RoundsOf(t)
            BY <1>1, <1>6, RoundsFacts DEF RoundsOf
        <3> QED BY <1>1, <1>6, <2>1, <3>1 DEF StageOK
    <2>3. DataAt(t, p, b.pc, b.at) = b.data
        <3>1. ASSUME NEW i \in Index(t) PROVE ~(i \div BlockSize < 0)
            <4>1. i \in Nat
                BY <1>1 DEF Index
            <4>2. i \div BlockSize \in Nat
                BY <4>1, Divided, IknpAssumption
            <4> QED BY <4>2
        <3>2. RowsBefore(t, p, 0) = [i \in Index(t) |-> Junk]
            BY <3>1 DEF RowsBefore
        <3> QED BY <2>1, <3>2 DEF DataAt, Early
    <2>4. InCall(t, p, b)
        BY <1>1, <1>2, <1>4, <2>1, <2>2, <2>3 DEF InCall, PosAt, Early, KeyAt
    <2>5. Written(t, p, b.pc, b.at) = BaseSent(t, p)
        BY <1>2, <1>3, <2>1 DEF Written
    <2>6. WasRead(t, p, b.pc, b.at) = BaseSent(t, Peer(p))
        BY <1>2, <1>3, <2>1, Names DEF WasRead
    <2> QED BY <2>4, <2>5, <2>6
<1> QED BY <1>5, <1>6

LEMMA BaseCounts ==
    ASSUME NEW t, NEW n, CallOK(t, n), NEW p \in Party
    PROVE  BaseSent(t, p) <= Count(t, p)
<1>1. /\ Count(t, "ALICE") \in Nat /\ BaseSent(t, "ALICE") \in Nat /\ RoundsOf(t) \in Nat
      /\ Count(t, "BOB") \in Nat /\ BaseSent(t, "BOB") \in Nat /\ Batches(t.call.len) \in Nat
      /\ t.call.kind \in {"setup", "gen", "cot", "rot", "ot", "not"}
    <2>1. t.call \in Calls
        BY DEF CallOK
    <2> QED BY <2>1, CountsOf, Names, CallFacts, BatchFacts
<1>2. BaseSent(t, "ALICE") <= Count(t, "ALICE")
    BY <1>1, KindsOf DEF HashKinds
<1>3. BaseSent(t, "BOB") <= Count(t, "BOB")
    BY <1>1, KindsOf, Names
<1> QED BY <1>2, <1>3 DEF Party

\* What a party within a call reads is the next message of that call.
LEMMA Reads ==
    ASSUME NEW cs, NEW h, Inv(cs, h), NEW p \in Party, NEW a, a = me[p], a.pc # "idle",
           NEW t, t = h[a.cnt], CanRead(p), WasRead(t, p, a.pc, a.at) < Count(t, Peer(p))
    PROVE  Incoming(p) = MessageOf(t, Peer(p), WasRead(t, p, a.pc, a.at))
<1> DEFINE w == WasRead(t, p, a.pc, a.at)
<1>1. w \in Nat
    BY WithinCall
<1> QED BY <1>1, ReaderSees

LEMMA BobRecvPointStep ==
    ASSUME NEW cs, NEW h, Inv(cs, h), BobRecvPoint
    PROVE  Inv(cs, h)'
<1>1. PICK b : b = B
    OBVIOUS
<1>2. PICK t : t = h[b.cnt]
    OBVIOUS
<1>3. PICK m : m = Incoming("BOB")
    OBVIOUS
<1> DEFINE rec == [Loop(b) EXCEPT !.key = Append(@, m)]
<1>4. /\ b = me["BOB"] /\ b.pc = "points" /\ b.at < BaseN /\ CanRead("BOB")
      /\ Read("BOB") /\ Become("BOB", rec)
    BY <1>1, <1>3 DEF BobRecvPoint, B
<1>5. AtWork("BOB", b, t) /\ b.pc \in {"base", "keys", "points"}
    BY <1>2, <1>4, Names, WorkFacts
<1>6. /\ Based(t) /\ ~Ferret(t) /\ BaseSent(t, "ALICE") = BaseN /\ BaseN \in Nat \ {0}
      /\ b.data = [i \in Index(t) |-> Junk]
    BY <1>5, BasedFacts
<1>7. Passes("BOB", 1, <<>>)
    BY <1>4, <1>5, Names, ReadPasses DEF AtWork
<1>8. b.at \in Nat /\ b.key = PointsIn(t, b.at)
    BY <1>4, <1>5 DEF AtWork, InCall, KeyAt
<1>9. m = PointIn(t, b.at)
    <2>1. WasRead(t, "BOB", b.pc, b.at) = b.at
        BY <1>4 DEF WasRead
    <2>2. BaseSent(t, "ALICE") <= Count(t, "ALICE") /\ Count(t, "ALICE") \in Nat
        BY <1>5, BaseCounts, CountsOf, Names DEF AtWork
    <2>3. WasRead(t, "BOB", b.pc, b.at) < Count(t, Peer("BOB"))
        BY <1>4, <1>6, <1>8, <2>1, <2>2, Names
    <2>4. m = MessageOf(t, "ALICE", b.at)
        BY <1>2, <1>3, <1>4, <2>1, <2>3, Names, Reads
    <2> QED BY <1>4, <1>6, <1>8, <2>4 DEF MessageOf, AlicesMessage
<1>10. /\ Record(rec) /\ rec.pc = b.pc /\ rec.at = b.at + 1 /\ rec.key = Append(b.key, m)
       /\ rec.cnt = b.cnt /\ rec.out = b.out /\ rec.local = b.local /\ rec.call = b.call
       /\ rec.deltas = b.deltas /\ rec.s = b.s /\ rec.delta = b.delta
       /\ rec.epoch = b.epoch /\ rec.pos = b.pos /\ rec.gid = b.gid /\ rec.data = b.data
       /\ rec.r = b.r
    BY <1>5 DEF Record, Fields, Loop, AtWork
<1> HIDE DEF rec
<1>11. rec.key = PointsIn(t, rec.at)
    BY <1>8, <1>9, <1>10, KeysGrow
<1>12. Keeps(t, "BOB", b, rec)
    <2>1. StageOK(t, "BOB", "points", rec.at)
        BY <1>4, <1>6, <1>8, <1>10 DEF StageOK
    <2>2. InCall(t, "BOB", rec)
        BY <1>4, <1>5, <1>10, <1>11, <2>1 DEF InCall, PosAt, Early, DataAt, KeyAt, AtWork
    <2> QED BY <1>4, <1>5, <1>8, <1>10, <2>2 DEF Keeps, AtWork
<1>13. Advances(t, "BOB", b, rec, 1, <<>>)
    BY <1>4, <1>8, <1>10, Empty DEF Advances, Written, WasRead
<1> QED BY <1>2, <1>4, <1>7, <1>12, <1>13, Names, Stays

LEMMA BobSendKeysStep ==
    ASSUME NEW cs, NEW h, Inv(cs, h), BobSendKeys
    PROVE  Inv(cs, h)'
<1>1. PICK b : b = B
    OBVIOUS
<1>2. PICK t : t = h[b.cnt]
    OBVIOUS
<1>3. PICK ms : ms = [i \in 1..BaseN |-> <<MaskedKey(i, 0), MaskedKey(i, 1)>>]
    OBVIOUS
<1> DEFINE rec == AfterBase(b, b.call.kind)
<1>4. /\ b = me["BOB"] /\ b.pc = "points" /\ b.at = BaseN
      /\ Write("BOB", ms) /\ Become("BOB", rec)
    BY <1>1, <1>3 DEF BobSendKeys, B
<1>5. AtWork("BOB", b, t) /\ b.pc \in {"base", "keys", "points"}
    BY <1>2, <1>4, Names, WorkFacts
<1>6. /\ Based(t) /\ ~Ferret(t) /\ BaseSent(t, "ALICE") = BaseN /\ BaseSent(t, "BOB") = 1 + BaseN
      /\ BaseN \in Nat \ {0} /\ b.epoch = t.to.epoch /\ b.data = [i \in Index(t) |-> Junk]
      /\ b.gid = t.from.gid /\ b.call = t.call
    BY <1>5, BasedFacts
<1>7. b.at \in Nat /\ b.key = PointsIn(t, b.at) /\ b.r = t.chose.r
    BY <1>4, <1>5 DEF AtWork, InCall, KeyAt
<1>8. IsSeq(ms) /\ Len(ms) = BaseN
      /\ \A i \in 1..BaseN : ms[i] = <<MaskedIn(t, i, 0), MaskedIn(t, i, 1)>>
    <2>1. ASSUME NEW i \in 1..BaseN
          PROVE  MaskedKey(i, 0) = MaskedIn(t, i, 0) /\ MaskedKey(i, 1) = MaskedIn(t, i, 1)
        <3>1. B.key[i] = PointIn(t, i - 1) /\ B.epoch = t.to.epoch
            BY <1>1, <1>4, <1>6, <1>7 DEF PointsIn
        <3> QED BY <3>1 DEF MaskedKey, MaskedIn
    <2>2. \A i \in 1..BaseN : ms[i] = <<MaskedIn(t, i, 0), MaskedIn(t, i, 1)>>
        BY <1>3, <2>1
    <2>3. ms = [i \in 1..BaseN |-> ms[i]]
        BY <1>3
    <2> QED BY <1>6, <2>2, <2>3, FromTuple
<1>9. Passes("BOB", 0, ms)
    BY <1>4, <1>5, <1>8, Names, WritePasses DEF AtWork
<1>10. /\ Record(rec) /\ rec.pc = (IF t.call.kind = "setup" THEN "return" ELSE "pre") /\ rec.at = 0
       /\ rec.pos = 0 /\ rec.cnt = b.cnt /\ rec.out = b.out /\ rec.local = b.local
       /\ rec.deltas = b.deltas /\ rec.s = b.s /\ rec.delta = b.delta
       /\ rec.call = b.call /\ rec.epoch = b.epoch /\ rec.gid = b.gid /\ rec.data = b.data
       /\ rec.r = b.r
    BY <1>5, <1>6 DEF Record, Fields, AfterBase, Goto, AtWork
<1> HIDE DEF rec
<1>11. CallOK(t, b.cnt)
    BY <1>5 DEF AtWork
<1>12. /\ InCall(t, "BOB", rec) /\ Written(t, "BOB", rec.pc, rec.at) = 1 + BaseN
       /\ WasRead(t, "BOB", rec.pc, rec.at) = BaseN
    BY <1>6, <1>7, <1>10, <1>11, Names, RowsBegin
<1>13. Keeps(t, "BOB", b, rec)
    BY <1>4, <1>5, <1>10, <1>12 DEF Keeps, AtWork
<1>14. Advances(t, "BOB", b, rec, 0, ms)
    <2>1. Written(t, "BOB", b.pc, b.at) = 1 /\ WasRead(t, "BOB", b.pc, b.at) = BaseN
        BY <1>4 DEF Written, WasRead
    <2>2. \A i \in 1..BaseN : MessageOf(t, "BOB", 1 + i - 1) = <<MaskedIn(t, i, 0), MaskedIn(t, i, 1)>>
        <3>1. ASSUME NEW i \in 1..BaseN
              PROVE  MessageOf(t, "BOB", i) = <<MaskedIn(t, i, 0), MaskedIn(t, i, 1)>>
            BY <1>6 DEF MessageOf, BobsMessage
        <3>2. \A i \in 1..BaseN : 1 + i - 1 = i
            BY <1>6
        <3> QED BY <3>1, <3>2
    <2>3. rec.pc # "idle"
        BY <1>10
    <2> QED BY <1>6, <1>8, <1>12, <2>1, <2>2, <2>3 DEF Advances
<1> QED BY <1>2, <1>4, <1>9, <1>13, <1>14, Names, Stays

LEMMA MaskedFacts ==
    ASSUME NEW t, NEW k \in Nat
    PROVE  /\ MaskedIn(t, 1 + k, 1).key = PrgKey(t.to.epoch, k, TRUE)
           /\ MaskedIn(t, 1 + k, 1).under = Kdf(PointIn(t, k), 1, k)
           /\ MaskedIn(t, 1 + k, 0).key = PrgKey(t.to.epoch, k, FALSE)
           /\ MaskedIn(t, 1 + k, 0).under = Kdf(PointIn(t, k), 0, k)
<1>1. 1 + k - 1 = k /\ (1 = 1) = TRUE /\ (0 = 1) = FALSE
    OBVIOUS
<1>2. \A i, j, sub : j = i - 1 => /\ MaskedIn(t, i, sub).key = PrgKey(t.to.epoch, j, sub = 1)
                                  /\ MaskedIn(t, i, sub).under = Kdf(PointIn(t, j), sub, j)
    BY DEF MaskedIn
<1>3. \A sub : /\ MaskedIn(t, 1 + k, sub).key = PrgKey(t.to.epoch, k, sub = 1)
               /\ MaskedIn(t, 1 + k, sub).under = Kdf(PointIn(t, k), sub, k)
    BY <1>1, <1>2
<1> QED BY <1>1, <1>3

LEMMA AliceRecvKeyStep ==
    ASSUME NEW cs, NEW h, Inv(cs, h), AliceRecvKey
    PROVE  Inv(cs, h)'
<1>1. PICK a : a = A
    OBVIOUS
<1>2. PICK t : t = h[a.cnt]
    OBVIOUS
<1>3. PICK m : m = Incoming("ALICE")
    OBVIOUS
<1> DEFINE res == m[IF a.s[a.at] THEN 2 ELSE 1]
           k0 == IF res.under = Kdf([b |-> a.at, aa |-> 0], 0, a.at)
                 THEN res.key ELSE PrgKey(0, a.at, FALSE)
           got == [a EXCEPT !.key = Append(@, k0)]
           rec == IF a.at + 1 < BaseN THEN Loop(got) ELSE AfterBase(NewDelta(got), a.call.kind)
<1>4. /\ a = me["ALICE"] /\ a.pc = "keys" /\ CanRead("ALICE")
      /\ Read("ALICE") /\ Become("ALICE", rec)
    BY <1>1, <1>3 DEF AliceRecvKey, A
<1>5. AtWork("ALICE", a, t) /\ a.pc \in {"base", "keys", "points"}
    BY <1>2, <1>4, Names, WorkFacts
<1>6. /\ Based(t) /\ ~Ferret(t) /\ BaseSent(t, "ALICE") = BaseN /\ BaseSent(t, "BOB") = 1 + BaseN
      /\ BaseN \in Nat \ {0} /\ a.epoch = t.to.epoch /\ a.data = [i \in Index(t) |-> Junk]
      /\ a.gid = t.from.gid /\ a.call = t.call /\ a.pos = t.from.pos /\ a.at < BaseN
      /\ Sec(t) \in Vector /\ a.s = Sec(t)
    BY <1>4, <1>5, BasedFacts
<1>7. /\ a.at \in Nat /\ a.key = KeysIn(t.conf, t.to.epoch, a.at) /\ t.conf = conf
      /\ CallOK(t, a.cnt)
    BY <1>4, <1>5, <1>6 DEF AtWork, InCall, KeyAt
<1>8. Passes("ALICE", 1, <<>>)
    BY <1>4, <1>5, Names, ReadPasses DEF AtWork
<1>9. m = <<MaskedIn(t, 1 + a.at, 0), MaskedIn(t, 1 + a.at, 1)>>
    <2>1. WasRead(t, "ALICE", a.pc, a.at) = 1 + a.at
        BY <1>4 DEF WasRead
    <2>2. BaseSent(t, "BOB") <= Count(t, "BOB") /\ Count(t, "BOB") \in Nat
        BY <1>7, BaseCounts, CountsOf, Names
    <2>3. WasRead(t, "ALICE", a.pc, a.at) < Count(t, Peer("ALICE"))
        BY <1>6, <1>7, <2>1, <2>2, Names
    <2>4. m = MessageOf(t, "BOB", 1 + a.at)
        BY <1>2, <1>3, <1>4, <2>1, <2>3, Names, Reads
    <2> QED BY <1>6, <1>7, <2>4 DEF MessageOf, BobsMessage
<1>10. k0 = PrgKey(t.to.epoch, a.at, Sec(t)[a.at])
    <2>1. a.at \in Base /\ Sec(t)[a.at] \in BOOLEAN
        BY <1>6, <1>7 DEF Base, Vector
    <2>2. CASE Sec(t)[a.at]
        <3>1. res = MaskedIn(t, 1 + a.at, 1)
            BY <1>6, <1>9, <2>2
        <3>2. /\ MaskedIn(t, 1 + a.at, 1).key = PrgKey(t.to.epoch, a.at, TRUE)
              /\ MaskedIn(t, 1 + a.at, 1).under = Kdf(PointIn(t, a.at), 1, a.at)
            BY <1>7, MaskedFacts
        <3>3. Kdf(PointIn(t, a.at), 1, a.at) = Kdf([b |-> a.at, aa |-> 0], 0, a.at)
            BY <1>7, <2>2 DEF Kdf, PointIn
        <3>4. Sec(t)[a.at] = TRUE
            BY <2>1, <2>2
        <3> QED BY <3>1, <3>2, <3>3, <3>4
    <2>3. CASE ~Sec(t)[a.at]
        <3>1. res = MaskedIn(t, 1 + a.at, 0)
            BY <1>6, <1>9, <2>3
        <3>2. /\ MaskedIn(t, 1 + a.at, 0).key = PrgKey(t.to.epoch, a.at, FALSE)
              /\ MaskedIn(t, 1 + a.at, 0).under = Kdf(PointIn(t, a.at), 0, a.at)
            BY <1>7, MaskedFacts
        <3>3. Kdf(PointIn(t, a.at), 0, a.at) = Kdf([b |-> a.at, aa |-> 0], 0, a.at)
            BY <1>7, <2>3 DEF Kdf, PointIn
        <3>4. Sec(t)[a.at] = FALSE
            BY <2>1, <2>3
        <3> QED BY <3>1, <3>2, <3>3, <3>4
    <2> QED BY <2>2, <2>3
<1> HIDE DEF k0, res
<1>11. Append(a.key, k0) = KeysIn(t.conf, t.to.epoch, a.at + 1)
    BY <1>7, <1>10, KeysGrow DEF Sec
<1>12. /\ Record(got) /\ got.pc = "keys" /\ got.at = a.at /\ got.key = Append(a.key, k0)
       /\ got.cnt = a.cnt /\ got.out = a.out /\ got.local = a.local /\ got.call = a.call
       /\ got.deltas = a.deltas /\ got.s = a.s /\ got.delta = a.delta
       /\ got.epoch = a.epoch /\ got.pos = a.pos /\ got.gid = a.gid /\ got.data = a.data
    BY <1>4, <1>5 DEF Record, Fields, AtWork
<1> HIDE DEF got
<1>13. CASE a.at + 1 < BaseN
    <2> DEFINE nxt == Loop(got)
    <2>1. rec = nxt
        BY <1>13
    <2>2. /\ Record(nxt) /\ nxt.pc = "keys" /\ nxt.at = a.at + 1 /\ nxt.key = Append(a.key, k0)
          /\ nxt.cnt = a.cnt /\ nxt.out = a.out /\ nxt.local = a.local /\ nxt.call = a.call
          /\ nxt.deltas = a.deltas /\ nxt.s = a.s /\ nxt.delta = a.delta
          /\ nxt.epoch = a.epoch /\ nxt.pos = a.pos /\ nxt.gid = a.gid /\ nxt.data = a.data
        BY <1>12 DEF Record, Fields, Loop
    <2> HIDE DEF nxt, rec
    <2>3. Keeps(t, "ALICE", a, nxt)
        <3>1. StageOK(t, "ALICE", "keys", nxt.at)
            BY <1>6, <1>7, <1>13, <2>2 DEF StageOK
        <3>2. InCall(t, "ALICE", nxt)
            BY <1>4, <1>5, <1>11, <2>2, <3>1 DEF InCall, PosAt, Early, DataAt, KeyAt, AtWork
        <3> QED BY <1>4, <1>5, <1>7, <2>2, <3>2 DEF Keeps, AtWork
    <2>4. Advances(t, "ALICE", a, nxt, 1, <<>>)
        <3>1. BaseSent(t, "ALICE") + 0 = BaseSent(t, "ALICE")
            BY <1>6
        <3> QED BY <1>4, <1>7, <2>2, <3>1, Empty DEF Advances, Written, WasRead
    <2> QED BY <1>2, <1>4, <1>8, <2>1, <2>3, <2>4, Names, Stays
<1>14. CASE ~(a.at + 1 < BaseN)
    <2> DEFINE ready == NewDelta(got)
               nxt == AfterBase(ready, a.call.kind)
    <2>1. rec = nxt /\ a.at + 1 = BaseN
        BY <1>6, <1>7, <1>14
    <2>6. /\ Record(ready) /\ ready.key = Append(a.key, k0) /\ ready.delta = Sec(t) /\ ready.s = a.s
          /\ ready.cnt = a.cnt /\ ready.out = a.out /\ ready.deltas = a.deltas
          /\ ready.local = a.local /\ ready.call = a.call /\ ready.epoch = a.epoch
          /\ ready.gid = a.gid /\ ready.data = a.data
        BY <1>6, <1>12 DEF Record, Fields, NewDelta
    <2> HIDE DEF ready
    <2>2. /\ Record(nxt) /\ nxt.pc = (IF t.call.kind = "setup" THEN "return" ELSE "pre") /\ nxt.at = 0
          /\ nxt.key = KeysIn(t.conf, t.to.epoch, BaseN)
          /\ nxt.cnt = a.cnt /\ nxt.out = a.out /\ nxt.local = a.local /\ nxt.call = a.call
          /\ nxt.deltas = a.deltas /\ nxt.s = Sec(t) /\ nxt.delta = Sec(t)
          /\ nxt.epoch = a.epoch /\ nxt.pos = 0 /\ nxt.gid = a.gid /\ nxt.data = a.data
        BY <1>6, <1>11, <2>1, <2>6 DEF Record, Fields, AfterBase, Goto
    <2> HIDE DEF nxt, rec
    <2>3. /\ InCall(t, "ALICE", nxt) /\ Written(t, "ALICE", nxt.pc, nxt.at) = BaseN
          /\ WasRead(t, "ALICE", nxt.pc, nxt.at) = 1 + BaseN
        BY <1>6, <1>7, <2>2, Names, RowsBegin
    <2>4. Keeps(t, "ALICE", a, nxt)
        BY <1>4, <1>5, <2>2, <2>3 DEF Keeps, AtWork
    <2>5. Advances(t, "ALICE", a, nxt, 1, <<>>)
        <3>1. Written(t, "ALICE", a.pc, a.at) = BaseN /\ WasRead(t, "ALICE", a.pc, a.at) = 1 + a.at
            BY <1>4, <1>6 DEF Written, WasRead
        <3>2. nxt.pc # "idle"
            BY <2>2
        <3> QED BY <1>6, <1>7, <2>1, <2>3, <3>1, <3>2, Empty DEF Advances
    <2> QED BY <1>2, <1>4, <1>8, <2>1, <2>4, <2>5, Names, Stays
<1> QED BY <1>13, <1>14

(*---------------------------- the actions: rows -------------------------*)
LEMMA ConfOps ==
    ASSUME NEW n, NEW j
    PROVE  /\ Rounds(n) = RoundsIn(conf, n) /\ (IsCheck(n, j) <=> CheckRound(conf, n, j))
           /\ Size(n, j) = SizeIn(conf, n, j)
<1>1. Rounds(n) = RoundsIn(conf, n)
    BY DEF Rounds, RoundsIn
<1>2. IsCheck(n, j) <=> CheckRound(conf, n, j)
    BY <1>1 DEF IsCheck, CheckRound
<1> QED BY <1>1, <1>2 DEF Size, SizeIn

\* All rows have been made.
LEMMA RowsDone ==
    ASSUME NEW t, NEW n, CallOK(t, n), t.call.kind # "setup", NEW p \in Party, NEW b, b.call = t.call,
           b.pc = AfterCot(t.call.kind), b.at = 0, b.epoch = t.to.epoch, b.pos = t.to.pos,
           b.gid = t.from.gid, b.data = RowsOf(t, p), p = "BOB" => b.r = t.chose.r,
           p = "ALICE" /\ ~Ferret(t) => b.key = KeysIn(t.conf, t.to.epoch, BaseN) /\ b.s = Sec(t),
           p = "ALICE" => b.delta = Sec(t)
    PROVE  /\ InCall(t, p, b) /\ b.pc \in {"return", "tidy", "key"}
           /\ Written(t, p, b.pc, b.at) = (IF p = "ALICE" THEN BaseSent(t, p) ELSE Count(t, p))
           /\ WasRead(t, p, b.pc, b.at) = (IF p = "BOB" THEN BaseSent(t, "ALICE") ELSE Count(t, "BOB"))
<1>1. t.call.kind \in {"gen", "cot", "rot", "ot", "not"} /\ t.from.gid \in Nat
    <2>1. t.call \in Calls /\ t.from.gid \in Nat
        BY PlacesOf DEF Places
    <2> QED BY <2>1, CallFacts
<1>2. b.pc \in {"return", "tidy", "key"} /\ StageOK(t, p, b.pc, b.at)
    BY <1>1 DEF AfterCot, StageOK, HashKinds
<1>3. p = "ALICE" \/ p = "BOB"
    BY DEF Party
<1>4. InCall(t, p, b)
    <2>1. b.pc \notin Early /\ b.pc \notin {"pre", "bits", "ot", "keys", "points", "check", "sum", "rot", "base"}
        BY <1>2 DEF Early
    <2>2. DataAt(t, p, b.pc, b.at) = RowsOf(t, p) /\ PosAt(t, b.pc, b.at) = t.to.pos
        BY <2>1 DEF DataAt, PosAt
    <2>3. p = "ALICE" => KeyAt(t, p, b.pc, b.at) = KeysIn(t.conf, t.to.epoch, BaseN)
        BY <2>1 DEF KeyAt
    <2> QED BY <1>1, <1>2, <1>3, <2>1, <2>2, <2>3 DEF InCall
<1>5. Written(t, p, b.pc, b.at) = (IF p = "ALICE" THEN BaseSent(t, p) ELSE Count(t, p))
    BY <1>2, <1>3 DEF Written
<1>6. WasRead(t, p, b.pc, b.at) = (IF p = "BOB" THEN BaseSent(t, "ALICE") ELSE Count(t, "BOB"))
    BY <1>2, <1>3 DEF WasRead
<1> QED BY <1>2, <1>4, <1>5, <1>6

LEMMA ChoiceFacts ==
    ASSUME NEW t, NEW n, CallOK(t, n), Chosen(t), NEW j \in Nat, j < RoundsOf(t)
    PROVE  /\ \A i \in Index(t) : t.chose.r[i] \in BOOLEAN
           /\ \A k \in CheckIndex : t.chose.localR[k] \in BOOLEAN
           /\ LET w == Rounded(SizeIn(t.conf, t.call.len, j))
              IN  /\ w \in Nat
                  /\ \A k \in 0..(w - 1) : PreMessage(t, j).r[k] \in BOOLEAN
<1>1. t.conf.malicious \in BOOLEAN /\ t.call.len \in Nat /\ RoundsOf(t) \in Nat
    <2>1. t.call \in Calls /\ ConfOK(t.conf)
        BY DEF CallOK
    <2> QED BY <2>1, CallFacts, CountsOf, Names DEF ConfOK
<1>2. /\ \A i \in Index(t) : t.chose.r[i] \in BOOLEAN
      /\ \A k \in CheckIndex : t.chose.localR[k] \in BOOLEAN
    BY DEF Chosen
<1> DEFINE w == Rounded(SizeIn(t.conf, t.call.len, j))
<1>3. w \in Nat
    <2>1. j \in 0..(RoundsIn(t.conf, t.call.len) - 1)
        BY <1>1 DEF RoundsOf
    <2>2. SizeIn(t.conf, t.call.len, j) \in Nat
        BY <1>1, <2>1, MovedStep
    <2> QED BY <2>2, RoundedFacts
<1>4. CheckRound(t.conf, t.call.len, j) => w = CheckRows
    BY RoundedSizes DEF SizeIn
<1>5. ASSUME NEW k \in 0..(w - 1)
      PROVE  PreMessage(t, j).r[k] \in BOOLEAN
    <2>1. PreMessage(t, j).r[k] = IF CheckRound(t.conf, t.call.len, j) THEN t.chose.localR[k]
                                  ELSE BlockR(t.chose.r, t.call.len, j, k)
        BY DEF PreMessage
    <2>2. CheckRound(t.conf, t.call.len, j) => k \in CheckIndex
        BY <1>4 DEF CheckIndex
    <2>3. BlockR(t.chose.r, t.call.len, j, k) \in BOOLEAN
        BY DEF BlockR
    <2> QED BY <1>2, <2>1, <2>2, <2>3
<1> QED BY <1>2, <1>3, <1>5

\* Row k of those that round j draws
Made(t, p, j, k) == RowIn(t, (First(t) + Moved(t.call.len, j)) + k,
                          IF p = "ALICE" THEN PreMessage(t, j).r[k] ELSE FALSE)

\* What a round that is not the check round makes of the rows so far
LEMMA RoundRows ==
    ASSUME NEW t, NEW n, CallOK(t, n), Chosen(t), ~Ferret(t), NEW j \in Nat, j < RoundsOf(t),
           ~CheckRound(t.conf, t.call.len, j), NEW p \in Party, NEW rows,
           \A k \in Slot : k < Rounded(SizeIn(t.conf, t.call.len, j)) =>
               rows[k] = Made(t, p, j, k)
    PROVE  \A i \in Index(t) : RowsBefore(t, p, j + 1)[i] = IF i \div BlockSize = j
                                      THEN rows[i % BlockSize] ELSE RowsBefore(t, p, j)[i]
<1> DEFINE f == [i \in Index(t) |-> IF i \div BlockSize = j
                                    THEN rows[i % BlockSize] ELSE RowsBefore(t, p, j)[i]]
           w == Rounded(SizeIn(t.conf, t.call.len, j))
           len == t.call.len
<1>1. t.conf.malicious \in BOOLEAN /\ len \in Nat /\ First(t) \in Nat
    <2>1. t.call \in Calls /\ ConfOK(t.conf)
        BY DEF CallOK
    <2> QED BY <2>1, CallFacts, PlacesOf DEF ConfOK
<1>2. ASSUME NEW i \in Index(t)
      PROVE  f[i] = IF i \div BlockSize < j + 1 THEN RowOf(t, p, i) ELSE Junk
    <2>1. i \in 0..(len - 1) /\ i \in Nat /\ i < len
        BY <1>1 DEF Index
    <2>2. i \div BlockSize \in Nat
        BY <2>1, Divided, IknpAssumption
    <2>3. RowsBefore(t, p, j)[i] = IF i \div BlockSize < j THEN RowOf(t, p, i) ELSE Junk
        BY DEF RowsBefore
    <2>4. CASE i \div BlockSize = j
        <3> DEFINE k == i % BlockSize
        <3>1. /\ k \in Slot /\ k < SizeIn(t.conf, len, j) /\ Moved(len, j) + k = i
              /\ j * BlockSize + k = i
            BY <1>1, <2>1, <2>4, RowsRound
        <3>2. SizeIn(t.conf, len, j) \in Nat /\ Moved(len, j) \in Nat
            <4>1. j \in 0..(RoundsIn(t.conf, len) - 1)
                BY <1>1, <2>1, <2>4, RowsRound
            <4>2. SizeIn(t.conf, len, j) \in Nat
                BY <1>1, <4>1, MovedStep
            <4>3. Moved(len, j) \in Nat
                BY <1>1, MovedFacts
            <4> QED BY <4>2, <4>3
        <3>3. w \in Nat /\ w >= SizeIn(t.conf, len, j)
            BY <3>2, RoundedFacts
        <3>4. k \in Nat /\ k < w
            BY <3>1, <3>2, <3>3 DEF Slot
        <3>5. f[i] = rows[k]
            BY <2>4
        <3> HIDE DEF k
        <3>6. rows[k] = RowIn(t, (First(t) + Moved(len, j)) + k,
                               IF p = "ALICE" THEN PreMessage(t, j).r[k] ELSE FALSE)
            BY <3>1, <3>4 DEF Made
        <3>7. PreMessage(t, j).r[k] = t.chose.r[i]
            <4>1. k \in 0..(w - 1)
                BY <3>3, <3>4
            <4>2. PreMessage(t, j).r[k] = BlockR(t.chose.r, len, j, k)
                BY <4>1 DEF PreMessage
            <4>3. t.chose.r[i] \in BOOLEAN
                BY DEF Chosen
            <4> QED BY <2>1, <3>1, <4>2, <4>3 DEF BlockR
        <3>8. (First(t) + Moved(len, j)) + k = First(t) + i
            BY <1>1, <3>1, <3>2, <3>4
        <3>9. RowOf(t, p, i) = RowIn(t, First(t) + i, IF p = "ALICE" THEN t.chose.r[i] ELSE FALSE)
            <4>1. t.chose.r[i] \in BOOLEAN
                BY DEF Chosen
            <4>2. (t.chose.r[i] # FALSE) = t.chose.r[i]
                BY <4>1
            <4> QED BY <4>2 DEF RowOf
        <3>10. i \div BlockSize < j + 1
            BY <2>4
        <3> QED BY <3>5, <3>6, <3>7, <3>8, <3>9, <3>10
    <2>5. CASE i \div BlockSize # j
        BY <2>2, <2>3, <2>5
    <2> QED BY <2>4, <2>5
<1>3. RowsBefore(t, p, j + 1) = [i \in Index(t) |-> f[i]]
    BY <1>2 DEF RowsBefore
<1> QED BY <1>3 DEF f

\* The blocks and the remainder have made all rows.
LEMMA RoundsMakeAll ==
    ASSUME NEW t, NEW n, CallOK(t, n), NEW p \in Party
    PROVE  /\ RowsBefore(t, p, RoundsOf(t)) = RowsOf(t, p)
           /\ t.conf.malicious => RowsBefore(t, p, RoundsOf(t) - 1) = RowsOf(t, p)
<1>1. t.conf.malicious \in BOOLEAN /\ t.call.len \in Nat /\ RoundsOf(t) \in Nat
    <2>1. t.call \in Calls /\ ConfOK(t.conf)
        BY DEF CallOK
    <2> QED BY <2>1, CallFacts, CountsOf, Names DEF ConfOK
<1>2. ASSUME NEW i \in Index(t)
      PROVE  i \div BlockSize < RoundsOf(t) /\ (t.conf.malicious => i \div BlockSize < RoundsOf(t) - 1)
    <2>1. i \in 0..(t.call.len - 1)
        BY DEF Index
    <2> DEFINE j == i \div BlockSize
    <2>2. j \in 0..(RoundsOf(t) - 1) /\ ~CheckRound(t.conf, t.call.len, j)
        BY <1>1, <2>1, RowsRound DEF RoundsOf
    <2> HIDE DEF j
    <2>3. j < RoundsOf(t) /\ (t.conf.malicious => j < RoundsOf(t) - 1)
        BY <1>1, <2>2 DEF CheckRound, RoundsOf
    <2> QED BY <2>3 DEF j
<1> QED BY <1>2 DEF RowsBefore, RowsOf

LEMMA RoundStep ==
    ASSUME NEW t, NEW a, NEW p \in Party, AtWork(p, a, t), a.pc = "pre",
           (p = "BOB" /\ CheckRound(conf, t.call.len, a.at)) => a.localR = t.chose.localR,
           NEW w, w = Rounded(SizeIn(conf, t.call.len, a.at)),
           NEW rows, \A k \in Slot : rows[k] = IF k < w THEN Made(t, p, a.at, k) ELSE Junk,
           NEW b, b = NextRound(Store(a, rows))
    PROVE  /\ Record(b) /\ b.cnt = a.cnt /\ b.out = a.out /\ b.pc # "idle" /\ b.at \in Nat
           /\ b.deltas = a.deltas /\ b.s = a.s /\ b.delta = a.delta
           /\ \A k \in Slot : b.local[k].plus \in Vector
           /\ InCall(t, p, b)
           /\ Written(t, p, a.pc, a.at) \in Nat /\ WasRead(t, p, a.pc, a.at) \in Nat
           /\ Written(t, p, b.pc, b.at) = Written(t, p, a.pc, a.at) + (IF p = "BOB" THEN 1 ELSE 0)
           /\ WasRead(t, p, b.pc, b.at) = WasRead(t, p, a.pc, a.at) + (IF p = "BOB" THEN 0 ELSE 1)
<1> DEFINE len == t.call.len
           j == a.at
           check == CheckRound(conf, len, j)
           s == Store(a, rows)
<1>1. /\ Record(a) /\ j \in Nat /\ InCall(t, p, a) /\ CallOK(t, a.cnt) /\ Chosen(t) /\ t.conf = conf
      /\ \A k \in Slot : a.local[k].plus \in Vector
    BY DEF AtWork
<1>2. /\ ~Ferret(t) /\ t.call.kind # "setup" /\ j < RoundsOf(t) /\ a.call = t.call
      /\ a.epoch = t.to.epoch /\ a.pos = First(t) + Moved(len, j) /\ a.gid = t.from.gid
      /\ a.data = RowsBefore(t, p, j) /\ (p = "BOB" => a.r = t.chose.r)
      /\ (p = "ALICE" => a.key = KeysIn(conf, t.to.epoch, BaseN))
      /\ (p = "ALICE" => a.s = Sec(t) /\ a.delta = Sec(t))
    <2>1. t.from.gid \in Nat
        BY <1>1, PlacesOf DEF Places
    <2>2. ~Ferret(t) /\ t.call.kind # "setup" /\ j < RoundsOf(t)
        BY <1>1 DEF InCall, StageOK
    <2>3. /\ PosAt(t, a.pc, j) = First(t) + Moved(len, j) /\ DataAt(t, p, a.pc, j) = RowsBefore(t, p, j)
          /\ p = "ALICE" => KeyAt(t, p, a.pc, j) = KeysIn(conf, t.to.epoch, BaseN)
        BY <1>1 DEF PosAt, DataAt, KeyAt, Early
    <2>4. p = "ALICE" => p # "BOB"
        OBVIOUS
    <2> QED BY <1>1, <2>1, <2>2, <2>3, <2>4 DEF InCall
<1>3. /\ conf.malicious \in BOOLEAN /\ len \in Nat /\ First(t) \in Nat /\ RoundsOf(t) \in Nat
      /\ RoundsOf(t) = RoundsIn(conf, len) /\ BlockSize \in Nat /\ CheckRows \in Nat
      /\ CheckRows <= BlockSize
    <2>1. t.call \in Calls /\ ConfOK(conf)
        BY <1>1 DEF CallOK
    <2> QED BY <1>1, <2>1, CallFacts, CountsOf, PlacesOf, IknpAssumption DEF ConfOK, RoundsOf
<1>4. /\ w \in Nat /\ SizeIn(conf, len, j) \in Nat /\ Moved(len, j) \in Nat
      /\ Moved(len, j + 1) = Moved(len, j) + w
      /\ (check => w = CheckRows /\ j = RoundsOf(t) - 1 /\ conf.malicious)
      /\ (~check => ~(conf.malicious /\ j = RoundsOf(t) - 1))
    <2>1. j \in 0..(RoundsIn(conf, len) - 1)
        BY <1>1, <1>2, <1>3
    <2>2. SizeIn(conf, len, j) \in Nat /\ Moved(len, j + 1) = Moved(len, j) + w
        BY <1>3, <2>1, MovedStep
    <2>3. w \in Nat
        BY <2>2, RoundedFacts
    <2>4. Moved(len, j) \in Nat
        BY <1>1, <1>3, MovedFacts
    <2>5. check => w = CheckRows
        BY RoundedSizes DEF SizeIn
    <2> QED BY <1>3, <2>2, <2>3, <2>4, <2>5 DEF CheckRound
<1>0. \A k \in Slot : rows[k] =
               IF k < w THEN RowIn(t, a.pos + k, IF p = "ALICE" THEN PreMessage(t, j).r[k] ELSE FALSE)
               ELSE Junk
    BY <1>2 DEF Made
<1>5. \A k \in Slot : rows[k].plus \in Vector
    <2>1. ASSUME NEW k \in Slot PROVE rows[k].plus \in Vector
        <3>1. CASE k < w
            <4>1. k \in 0..(w - 1)
                BY <1>3, <1>4, <3>1 DEF Slot
            <4>2. PreMessage(t, j).r[k] \in BOOLEAN
                BY <1>1, <1>2, <4>1, ChoiceFacts
            <4> DEFINE x == IF p = "ALICE" THEN PreMessage(t, j).r[k] ELSE FALSE
            <4>3. x \in BOOLEAN
                BY <4>2
            <4>4. rows[k] = RowIn(t, a.pos + k, x)
                BY <1>0, <2>1, <3>1
            <4> HIDE DEF x
            <4>5. Sec(t) \in Vector
                BY <1>1, SecFacts
            <4>6. Times(x, Sec(t)) \in Vector
                BY <4>3, <4>5, TimesFacts
            <4> QED BY <4>4, <4>6 DEF RowIn
        <3>2. CASE ~(k < w)
            <4>1. rows[k] = Junk
                BY <1>0, <2>1, <3>2
            <4> QED BY <4>1 DEF Junk, Zero, Vector
        <3> QED BY <3>1, <3>2
    <2> QED BY <2>1
<1>6. /\ Record(s) /\ s.pc = "pre" /\ s.at = j /\ s.cnt = a.cnt /\ s.call = t.call /\ s.r = a.r
      /\ s.epoch = a.epoch /\ s.key = a.key /\ s.pos = a.pos + w /\ s.localR = a.localR
      /\ s.chi = a.chi /\ s.start = a.start /\ s.gid = a.gid /\ s.out = a.out
      /\ s.deltas = a.deltas /\ s.s = a.s /\ s.delta = a.delta
      /\ s.data = (IF check THEN a.data
                   ELSE [i \in DOMAIN a.data |-> IF i \div BlockSize = j
                                                 THEN rows[i % BlockSize] ELSE a.data[i]])
      /\ s.local = (IF ~check /\ SizeIn(conf, len, j) = BlockSize THEN a.local ELSE rows)
    <2> DEFINE d == IF check THEN a.data
                    ELSE [i \in DOMAIN a.data |-> IF i \div BlockSize = j
                                                  THEN rows[i % BlockSize] ELSE a.data[i]]
               l == IF ~check /\ SizeIn(conf, len, j) = BlockSize THEN a.local ELSE rows
    <2>1. /\ IsCheck(len, j) <=> check
          /\ Size(len, j) = SizeIn(conf, len, j)
        BY ConfOps
    <2>2. s = [a EXCEPT !.data = IF IsCheck(len, j) THEN @
                   ELSE [i \in DOMAIN @ |-> IF i \div BlockSize = j
                                            THEN rows[i % BlockSize] ELSE @[i]],
                        !.local = IF ~IsCheck(len, j) /\ Size(len, j) = BlockSize THEN @ ELSE rows,
                        !.pos = @ + Rounded(Size(len, j))]
        BY <1>2 DEF Store
    <2> HIDE DEF check
    <2>3. s = [a EXCEPT !.data = d, !.local = l, !.pos = a.pos + w]
        BY <2>1, <2>2
    <2> HIDE DEF d, l, s
    <2>4. /\ Record(s) /\ s.pc = "pre" /\ s.at = j /\ s.cnt = a.cnt /\ s.call = t.call /\ s.r = a.r
          /\ s.epoch = a.epoch /\ s.key = a.key /\ s.pos = a.pos + w /\ s.localR = a.localR
          /\ s.chi = a.chi /\ s.start = a.start /\ s.gid = a.gid /\ s.out = a.out
          /\ s.deltas = a.deltas /\ s.s = a.s /\ s.delta = a.delta
          /\ s.data = d /\ s.local = l
        BY <1>1, <1>2, <2>3 DEF Record, Fields
    <2> QED BY <2>4 DEF d, l
<1>7. s.data = RowsBefore(t, p, j + 1)
    <2>1. CASE check
        <3>1. j + 1 = RoundsOf(t)
            BY <1>3, <1>4, <2>1
        <3> QED BY <1>1, <1>2, <1>4, <1>6, <2>1, <3>1, RoundsMakeAll
    <2>2. CASE ~check
        <3>1. RowsBefore(t, p, j + 1) = [i \in Index(t) |-> IF i \div BlockSize = j
                                      THEN rows[i % BlockSize] ELSE RowsBefore(t, p, j)[i]]
            <4>1. ASSUME NEW k \in Slot, k < Rounded(SizeIn(t.conf, len, j))
                  PROVE  rows[k] = Made(t, p, j, k)
                BY <1>1, <1>2, <4>1 DEF Made
            <4>2. ~CheckRound(t.conf, len, j)
                BY <1>1, <2>2
            <4>3. \A k \in Slot : k < Rounded(SizeIn(t.conf, t.call.len, j)) =>
                     rows[k] = Made(t, p, j, k)
                BY <4>1
            <4>4. /\ CallOK(t, a.cnt) /\ Chosen(t) /\ ~Ferret(t) /\ j \in Nat /\ j < RoundsOf(t)
                  /\ ~CheckRound(t.conf, t.call.len, j) /\ p \in Party
                BY <1>1, <1>2, <4>2
            <4> HIDE DEF j, len, check
            <4>5. \A i \in Index(t) : RowsBefore(t, p, j + 1)[i] = IF i \div BlockSize = j
                                      THEN rows[i % BlockSize] ELSE RowsBefore(t, p, j)[i]
                BY ONLY <4>3, <4>4, RoundRows
            <4> QED BY <4>5 DEF RowsBefore
        <3>2. DOMAIN a.data = Index(t)
            BY <1>2 DEF RowsBefore
        <3> QED BY <1>2, <1>6, <2>2, <3>1, <3>2
    <2> QED BY <2>1, <2>2
<1>8. s.pos = First(t) + Moved(len, j + 1)
    BY <1>2, <1>3, <1>4, <1>6
<1>9. \A k \in Slot : s.local[k].plus \in Vector
    BY <1>1, <1>5, <1>6
<1>10. check => \A k \in CheckIndex : s.local[k] = CheckRowOf(t, p, k)
    <2>1. ASSUME check, NEW k \in CheckIndex PROVE s.local[k] = CheckRowOf(t, p, k)
        <3>1. k \in Slot /\ k < w
            BY <1>3, <1>4, <2>1 DEF CheckIndex, Slot
        <3>2. s.local[k] = RowIn(t, a.pos + k, IF p = "ALICE" THEN PreMessage(t, j).r[k] ELSE FALSE)
            BY <1>0, <1>6, <2>1, <3>1
        <3>3. PreMessage(t, j).r[k] = t.chose.localR[k]
            <4>1. k \in 0..(Rounded(SizeIn(t.conf, t.call.len, j)) - 1)
                BY <1>1, <1>3, <1>4, <2>1, <3>1 DEF Slot
            <4> QED BY <1>1, <2>1, <4>1 DEF PreMessage
        <3> QED BY <1>2, <1>4, <2>1, <3>2, <3>3 DEF CheckRowOf
    <2> QED BY <2>1
<1> HIDE DEF s, j, len, check
<1>11. /\ BaseSent(t, "ALICE") \in Nat /\ BaseSent(t, "BOB") \in Nat
       /\ Count(t, "BOB") = BaseSent(t, "BOB") + (RoundsOf(t) + (IF conf.malicious THEN 2 ELSE 0))
       /\ Written(t, p, a.pc, a.at) = (IF p = "ALICE" THEN BaseSent(t, "ALICE")
                                       ELSE BaseSent(t, "BOB") + j)
       /\ WasRead(t, p, a.pc, a.at) = (IF p = "BOB" THEN BaseSent(t, "ALICE")
                                       ELSE BaseSent(t, "BOB") + j)
       /\ (p = "ALICE" \/ p = "BOB")
       /\ Written(t, p, a.pc, a.at) \in Nat /\ WasRead(t, p, a.pc, a.at) \in Nat
    BY <1>1, <1>2, Names, CountsOf, KindsOf DEF Written, WasRead, Party, j
<1>12. CASE j + 1 < RoundsOf(t)
    <2>1. b = Loop(s)
        BY <1>3, <1>6, <1>12, ConfOps DEF NextRound, len, s
    <2>2. /\ Record(b) /\ b.pc = "pre" /\ b.at = j + 1 /\ b.cnt = a.cnt /\ b.call = t.call /\ b.r = a.r
          /\ b.epoch = a.epoch /\ b.key = a.key /\ b.pos = s.pos /\ b.gid = a.gid /\ b.out = a.out
          /\ b.deltas = a.deltas /\ b.s = a.s /\ b.delta = a.delta
          /\ b.data = s.data /\ b.local = s.local
        BY <1>6, <2>1 DEF Record, Fields, Loop
    <2>3. InCall(t, p, b)
        <3>1. StageOK(t, p, "pre", j + 1)
            BY <1>2, <1>12 DEF StageOK
        <3>2. DataAt(t, p, "pre", j + 1) = b.data /\ PosAt(t, "pre", j + 1) = b.pos
            BY <1>7, <1>8, <2>2 DEF DataAt, PosAt, Early, len
        <3>3. p = "ALICE" => KeyAt(t, p, "pre", j + 1) = b.key
            BY <1>1, <1>2, <2>2 DEF KeyAt
        <3>4. t.from.gid \in Nat
            BY <1>1, PlacesOf DEF Places
        <3> QED BY <1>2, <1>11, <2>2, <3>1, <3>2, <3>3, <3>4 DEF InCall
    <2>4. Written(t, p, b.pc, b.at) = Written(t, p, a.pc, a.at) + (IF p = "BOB" THEN 1 ELSE 0)
        <3>1. Written(t, p, b.pc, b.at) = (IF p = "ALICE" THEN BaseSent(t, "ALICE")
                                       ELSE BaseSent(t, "BOB") + (j + 1))
            BY <1>11, <2>2 DEF Written
        <3> QED BY <1>1, <1>11, <3>1 DEF j
    <2>5. WasRead(t, p, b.pc, b.at) = WasRead(t, p, a.pc, a.at) + (IF p = "BOB" THEN 0 ELSE 1)
        <3>1. WasRead(t, p, b.pc, b.at) = (IF p = "BOB" THEN BaseSent(t, "ALICE")
                                       ELSE BaseSent(t, "BOB") + (j + 1))
            BY <1>11, <2>2 DEF WasRead
        <3> QED BY <1>1, <1>11, <3>1 DEF j
    <2> QED BY <1>1, <1>9, <1>11, <2>2, <2>3, <2>4, <2>5 DEF j
<1>13. CASE ~(j + 1 < RoundsOf(t))
    <2>1. j + 1 = RoundsOf(t)
        BY <1>1, <1>2, <1>3, <1>13 DEF j
    <2> DEFINE pc == IF conf.malicious THEN "check" ELSE AfterCot(t.call.kind)
    <2>2. b = Goto(s, pc)
        BY <1>3, <1>6, <1>13, ConfOps DEF NextRound, len, s
    <2>3. /\ Record(b) /\ b.pc = pc /\ b.at = 0 /\ b.cnt = a.cnt /\ b.call = t.call /\ b.r = a.r
          /\ b.epoch = a.epoch /\ b.key = a.key /\ b.pos = s.pos /\ b.gid = a.gid /\ b.out = a.out
          /\ b.deltas = a.deltas /\ b.s = a.s /\ b.delta = a.delta
          /\ b.data = s.data /\ b.local = s.local /\ b.localR = a.localR
        BY <1>6, <2>2 DEF Record, Fields, Goto
    <2>4. s.data = RowsOf(t, p) /\ s.pos = t.to.pos
        <3>1. s.data = RowsOf(t, p)
            BY <1>1, <1>7, <2>1, RoundsMakeAll
        <3>2. t.to.pos = First(t) + Moved(len, RoundsOf(t))
            BY <1>1, <1>2, <1>3, PlacesOf DEF RowsDrawn, Ferret, len
        <3> QED BY <1>8, <2>1, <3>1, <3>2
    <2>5. CASE conf.malicious
        <3>1. check /\ b.pc = "check"
            <4>1. j = RoundsOf(t) - 1
                BY <1>1, <1>3, <2>1 DEF j
            <4>2. check
                BY <1>4, <2>5, <4>1
            <4> QED BY <2>3, <2>5, <4>2
        <3>2. StageOK(t, p, "check", 0)
            BY <1>1, <1>2, <2>5 DEF StageOK
        <3>3. DataAt(t, p, "check", 0) = b.data /\ PosAt(t, "check", 0) = b.pos
            BY <2>3, <2>4 DEF DataAt, PosAt, Early
        <3>4. p = "ALICE" => KeyAt(t, p, "check", 0) = b.key
            BY <1>1, <1>2, <2>3 DEF KeyAt
        <3>5. t.from.gid \in Nat
            BY <1>1, PlacesOf DEF Places
        <3>6. p = "BOB" => b.localR = t.chose.localR
            BY <2>3, <3>1 DEF check, j, len
        <3>7. InCall(t, p, b)
            BY <1>2, <1>10, <1>11, <2>3, <3>1, <3>2, <3>3, <3>4, <3>5, <3>6 DEF InCall
        <3>8. Written(t, p, b.pc, b.at) = Written(t, p, a.pc, a.at) + (IF p = "BOB" THEN 1 ELSE 0)
            <4>1. Written(t, p, b.pc, b.at) = (IF p = "ALICE" THEN BaseSent(t, "ALICE")
                                           ELSE BaseSent(t, "BOB") + RoundsOf(t))
                BY <1>11, <3>1 DEF Written
            <4> QED BY <1>1, <1>11, <2>1, <4>1 DEF j
        <3>9. WasRead(t, p, b.pc, b.at) = WasRead(t, p, a.pc, a.at) + (IF p = "BOB" THEN 0 ELSE 1)
            <4>1. WasRead(t, p, b.pc, b.at) = (IF p = "BOB" THEN BaseSent(t, "ALICE")
                                           ELSE BaseSent(t, "BOB") + RoundsOf(t))
                BY <1>11, <3>1 DEF WasRead
            <4> QED BY <1>1, <1>11, <2>1, <4>1 DEF j
        <3> QED BY <1>9, <1>11, <2>3, <3>1, <3>7, <3>8, <3>9
    <2>6. CASE ~conf.malicious
        <3>1. b.pc = AfterCot(t.call.kind)
            BY <2>3, <2>6
        <3>2. /\ InCall(t, p, b) /\ b.pc \in {"return", "tidy", "key"}
              /\ Written(t, p, b.pc, b.at) = (IF p = "ALICE" THEN BaseSent(t, p) ELSE Count(t, p))
              /\ WasRead(t, p, b.pc, b.at) = (IF p = "BOB" THEN BaseSent(t, "ALICE")
                                              ELSE Count(t, "BOB"))
            BY <1>1, <1>2, <2>3, <2>4, <3>1, RowsDone
        <3>3. Count(t, "BOB") = BaseSent(t, "BOB") + (j + 1)
            BY <1>3, <1>11, <2>1, <2>6
        <3>4. Written(t, p, b.pc, b.at) = Written(t, p, a.pc, a.at) + (IF p = "BOB" THEN 1 ELSE 0)
            BY <1>1, <1>11, <3>2, <3>3 DEF j
        <3>5. WasRead(t, p, b.pc, b.at) = WasRead(t, p, a.pc, a.at) + (IF p = "BOB" THEN 0 ELSE 1)
            BY <1>1, <1>11, <3>2, <3>3 DEF j
        <3> QED BY <1>9, <1>11, <2>3, <3>2, <3>4, <3>5
    <2> QED BY <2>5, <2>6
<1> QED BY <1>12, <1>13

\* ALICE's keys are those of the last set-up.
LEMMA KeysAre ==
    ASSUME NEW t
    PROVE  KeysOf(t.to.epoch, Sec(t)) = KeysIn(t.conf, t.to.epoch, BaseN)
BY DEF KeysOf, KeysIn, Sec

LEMMA RowIs ==
    ASSUME NEW t, NEW k, NEW r
    PROVE  Row(<<t.to.epoch, k>>, Times(r, Sec(t))) = RowIn(t, k, r)
BY DEF Row, RowIn

LEMMA AlicePreBlockStep ==
    ASSUME NEW cs, NEW h, Inv(cs, h), AlicePreBlock
    PROVE  Inv(cs, h)'
<1>1. PICK a : a = A
    OBVIOUS
<1>2. PICK t : t = h[a.cnt]
    OBVIOUS
<1>3. PICK m : m = Incoming("ALICE")
    OBVIOUS
<1>4. PICK w : w = Rounded(Size(a.call.len, a.at))
    OBVIOUS
<1>5. PICK rows : rows = [k \in Slot |-> IF k < w
                   THEN IF m.pos = a.pos /\ a.key = KeysOf(m.epoch, a.s)
                        THEN Row(<<m.epoch, a.pos + k>>, Times(m.r[k], a.s)) ELSE Junk
                   ELSE Junk]
    OBVIOUS
<1>13. PICK p : p = "ALICE"
    OBVIOUS
<1> DEFINE rec == NextRound(Store(a, rows))
<1>6. /\ a = me["ALICE"] /\ a.pc = "pre" /\ CanRead("ALICE")
      /\ Read("ALICE") /\ Become("ALICE", rec)
    BY <1>1, <1>3, <1>4, <1>5 DEF AlicePreBlock, Wide, A
<1>7. AtWork("ALICE", a, t) /\ CallOK(t, a.cnt) /\ t.conf = conf
    BY <1>2, <1>6, Names, WorkFacts DEF AtWork
<1>8. /\ ~Ferret(t) /\ t.call.kind # "setup" /\ a.at \in Nat /\ a.at < RoundsOf(t) /\ a.call = t.call
      /\ a.pos = First(t) + Moved(t.call.len, a.at) /\ a.key = KeysIn(conf, t.to.epoch, BaseN)
      /\ a.s = Sec(t)
    BY <1>6, <1>7 DEF AtWork, InCall, StageOK, PosAt, Early, KeyAt
<1>9. Passes("ALICE", 1, <<>>)
    BY <1>6, <1>7, Names, ReadPasses DEF AtWork
<1>10. m = PreMessage(t, a.at)
    <2>1. WasRead(t, "ALICE", a.pc, a.at) = BaseSent(t, "BOB") + a.at
        BY <1>6 DEF WasRead
    <2>2. /\ BaseSent(t, "BOB") \in Nat /\ RoundsOf(t) \in Nat
          /\ Count(t, "BOB") = BaseSent(t, "BOB")
               + (RoundsOf(t) + (IF conf.malicious THEN 2 ELSE 0))
        BY <1>7, <1>8, CountsOf, KindsOf, Names
    <2>3. WasRead(t, "ALICE", a.pc, a.at) < Count(t, Peer("ALICE"))
        BY <1>8, <2>1, <2>2, Names
    <2>4. m = MessageOf(t, "BOB", BaseSent(t, "BOB") + a.at)
        BY <1>2, <1>3, <1>6, <2>1, <2>3, Names, Reads
    <2>5. (BaseSent(t, "BOB") + a.at) - BaseSent(t, "BOB") = a.at /\ ~(a.at < 0)
        BY <1>8, <2>2
    <2> QED BY <1>8, <2>4, <2>5 DEF MessageOf, BobsMessage
<1>11. ASSUME NEW k \in Slot
       PROVE  rows[k] = IF k < w THEN RowIn(t, a.pos + k, PreMessage(t, a.at).r[k]) ELSE Junk
    <2>1. m.pos = a.pos /\ m.epoch = t.to.epoch
        BY <1>8, <1>10 DEF PreMessage
    <2>2. a.key = KeysOf(m.epoch, a.s)
        BY <1>7, <1>8, <2>1, KeysAre
    <2>3. Row(<<m.epoch, a.pos + k>>, Times(m.r[k], a.s)) = RowIn(t, a.pos + k, PreMessage(t, a.at).r[k])
        BY <1>8, <1>10, <2>1, RowIs
    <2> QED BY <1>5, <2>1, <2>2, <2>3
<1>12. w = Rounded(SizeIn(conf, t.call.len, a.at))
    BY <1>4, <1>8, ConfOps
<1>14. \A k \in Slot : rows[k] = IF k < w THEN Made(t, p, a.at, k) ELSE Junk
    BY <1>8, <1>11, <1>13 DEF Made
<1> HIDE DEF rec
<1>15. Keeps(t, "ALICE", a, rec) /\ Advances(t, "ALICE", a, rec, 1, <<>>)
    <2>1. p \in Party /\ p # "BOB" /\ AtWork(p, a, t)
        BY <1>7, <1>13, Names
    <2>2. rec = NextRound(Store(a, rows))
        BY DEF rec
    <2>3. /\ Record(rec) /\ rec.cnt = a.cnt /\ rec.out = a.out /\ rec.pc # "idle" /\ rec.at \in Nat
          /\ rec.deltas = a.deltas /\ rec.s = a.s /\ rec.delta = a.delta
          /\ \A k \in Slot : rec.local[k].plus \in Vector
          /\ InCall(t, p, rec)
          /\ Written(t, p, a.pc, a.at) \in Nat /\ WasRead(t, p, a.pc, a.at) \in Nat
          /\ Written(t, p, rec.pc, rec.at) = Written(t, p, a.pc, a.at) + (IF p = "BOB" THEN 1 ELSE 0)
          /\ WasRead(t, p, rec.pc, rec.at) = WasRead(t, p, a.pc, a.at) + (IF p = "BOB" THEN 0 ELSE 1)
        BY <1>6, <1>12, <1>14, <2>1, <2>2, RoundStep
    <2>4. Keeps(t, p, a, rec)
        BY <1>6, <2>3 DEF Keeps
    <2>5. Advances(t, p, a, rec, 1, <<>>)
        BY <2>1, <2>3, Empty DEF Advances
    <2> QED BY <1>13, <2>4, <2>5
<1> QED BY <1>2, <1>6, <1>9, <1>15, Names, Stays

\* A party of call n cannot be ahead of what its peer has written of that call.
LEMMA NotAhead ==
    ASSUME NEW cs, NEW h, Inv(cs, h), NEW p \in Party, NEW n \in 1..Len(h), NEW x \in Nat,
           SentOf(h, p, me[p]) = SentAt(h[n].from, p) + x, x < Count(h[n], p)
    PROVE  LET q == Peer(p)
           IN  \/ me[q].cnt < n
               \/ /\ me[q].cnt = n /\ me[q].pc # "idle"
                  /\ WasRead(h[n], q, me[q].pc, me[q].at) <= x
<1> DEFINE q == Peer(p)
<1>1. q \in Party /\ Peer(q) = p
    BY Peers
<1>2. /\ HistoryOK(conf, cs, h) /\ PartyOK(conf, h, q, me[q])
      /\ ReadOf(h, q, me[q]) <= SentOf(h, p, me[p])
    BY PartsOf DEF Stretch
<1>3. /\ Len(h) \in Nat /\ me[q].cnt \in 0..Len(h) /\ ReadOf(h, q, me[q]) \in Nat
    BY <1>1, <1>2, HistoryFacts, SentFacts DEF PartyOK
<1> DEFINE t == h[n]
           k == me[q].cnt
           r == ReadOf(h, q, me[q])
<1>4. CallOK(t, n) /\ SentAt(t.from, p) \in Nat /\ SentAt(t.to, p) = SentAt(t.from, p) + Count(t, p)
      /\ Count(t, p) \in Nat
    <2>1. CallOK(t, n)
        BY <1>2, HistoryFacts
    <2> QED BY <2>1, CountsOf
<1>5. r <= SentAt(t.from, p) + x
    BY <1>2
<1>6. CASE k > n
    <2> DEFINE y == SentAt(h[k].from, p)
    <2>1. k \in 1..Len(h) /\ SentAt(t.to, p) <= y
        BY <1>2, <1>3, <1>6, HistoryFacts
    <2>2. CallOK(h[k], k) /\ y \in Nat /\ SentAt(h[k].to, p) = y + Count(h[k], p)
          /\ Count(h[k], p) \in Nat
        <3>1. CallOK(h[k], k)
            BY <1>2, <2>1, HistoryFacts
        <3> QED BY <3>1, CountsOf
    <2>3. y <= r
        <3>1. CASE me[q].pc = "idle"
            <4>1. PlaceOf(h, k) = h[k].to
                BY <2>1 DEF PlaceOf
            <4>2. r = SentAt(h[k].to, p)
                BY <1>1, <3>1, <4>1 DEF ReadOf
            <4> QED BY <2>2, <4>2
        <3>2. CASE me[q].pc # "idle"
            BY <1>1, <1>2, <3>2, SentFacts
        <3> QED BY <3>1, <3>2
    <2> HIDE DEF y, r, t, k
    <2> QED BY <1>3, <1>4, <1>5, <2>1, <2>2, <2>3 DEF t, r
<1>7. CASE k = n
    <2>1. PlaceOf(h, n) = t.to
        BY DEF PlaceOf
    <2>2. me[q].pc # "idle"
        <3>1. me[q].pc = "idle" => r = SentAt(t.to, p)
            BY <1>1, <1>7, <2>1 DEF ReadOf
        <3> QED BY <1>3, <1>4, <1>5, <3>1
    <2>3. r = SentAt(t.from, p) + WasRead(t, q, me[q].pc, me[q].at)
        BY <1>1, <1>7, <2>2 DEF ReadOf
    <2>4. WasRead(t, q, me[q].pc, me[q].at) \in Nat
        BY <1>1, <1>7, <2>2, WithinCall
    <2> QED BY <1>4, <1>5, <1>7, <2>2, <2>3, <2>4
<1> QED BY <1>3, <1>6, <1>7

\* Before the check, nothing depends on the choice bits of the check rows.
LEMMA OtherCheck ==
    ASSUME NEW t, NEW n, CallOK(t, n), ~Ferret(t), t.conf.malicious, NEW u, Alike(t, u),
           u.chose.r = t.chose.r, u.chose.x = t.chose.x, NEW p \in Party, NEW rec,
           InCall(t, p, rec), rec.pc \notin {"check", "sum"}
    PROVE  /\ InCall(u, p, rec)
           /\ \A o : MessageOf(u, "ALICE", o) = MessageOf(t, "ALICE", o)
           /\ \A o \in 0..(BaseSent(t, "BOB") + RoundsOf(t) - 2) :
                 MessageOf(u, "BOB", o) = MessageOf(t, "BOB", o)
<1>1. /\ t.conf = u.conf /\ t.nr = u.nr /\ t.call = u.call /\ t.from = u.from /\ t.to = u.to
      /\ Ferret(u) = Ferret(t) /\ First(u) = First(t) /\ Index(u) = Index(t)
      /\ RoundsOf(u) = RoundsOf(t) /\ Sec(u) = Sec(t)
      /\ \A q \in Party : BaseSent(t, q) = BaseSent(u, q)
    BY DEF Alike, Ferret, First, Index, RoundsOf, BaseSent, Sec
<1>2. \A k, x : RowIn(u, k, x) = RowIn(t, k, x) /\ StreamRow(u, k, x) = StreamRow(t, k, x)
    BY <1>1 DEF RowIn, StreamRow
<1>10. \A i : PointIn(u, i) = PointIn(t, i)
    BY <1>1 DEF PointIn
<1>3. \A q, i : RowOf(u, q, i) = RowOf(t, q, i)
    BY <1>1, <1>2 DEF RowOf
<1>4. /\ \A q : RowsOf(u, q) = RowsOf(t, q)
      /\ \A q, j : RowsBefore(u, q, j) = RowsBefore(t, q, j)
      /\ \A i, side : TextOf(u, i, side) = TextOf(t, i, side)
      /\ \A j, x, i : HashOf(u, j, x, i) = HashOf(t, j, x, i)
    BY <1>1, <1>3 DEF RowsOf, RowsBefore, TextOf, HashOf
<1>5. /\ \A j : TextsBefore(u, j) = TextsBefore(t, j)
      /\ \A j, i, x, side : PadOf(u, j, i, x, side) = PadOf(t, j, i, x, side)
      /\ ItemsOf(u) = ItemsOf(t) /\ \A x : Plus(u, x) = Plus(t, x)
      /\ \A j : BatchOf(u, j) = BatchOf(t, j)
    BY <1>1, <1>3, <1>4 DEF TextsBefore, PadOf, ItemsOf, Plus, BatchOf
<1>6. \A j : BatchMessage(u, j) = BatchMessage(t, j)
    <2>1. ASSUME NEW j PROVE BatchMessage(u, j) = BatchMessage(t, j)
        <3>1. \A i : /\ PadOf(u, j, i, RowOf(u, "ALICE", i), FALSE) = PadOf(t, j, i, RowOf(t, "ALICE", i), FALSE)
                     /\ PadOf(u, j, i, Plus(u, RowOf(u, "ALICE", i)), TRUE)
                           = PadOf(t, j, i, Plus(t, RowOf(t, "ALICE", i)), TRUE)
            BY <1>3, <1>5
        <3>2. BatchOf(u, j) = BatchOf(t, j)
            BY <1>5
        <3> QED BY <3>1, <3>2 DEF BatchMessage
    <2> QED BY <2>1
<1>7. InCall(u, p, rec)
    <2>1. StageOK(u, p, rec.pc, rec.at)
        BY AlikeFacts DEF InCall
    <2>2. PosAt(u, rec.pc, rec.at) = PosAt(t, rec.pc, rec.at)
        BY <1>1 DEF PosAt
    <2>3. DataAt(u, p, rec.pc, rec.at) = DataAt(t, p, rec.pc, rec.at)
        BY <1>1, <1>2, <1>4, <1>5 DEF DataAt
    <2>4. KeyAt(u, p, rec.pc, rec.at) = KeyAt(t, p, rec.pc, rec.at)
        BY <1>1, <1>10 DEF KeyAt, PointsIn
    <2> QED BY <1>1, <2>1, <2>2, <2>3, <2>4 DEF InCall
<1>8. ASSUME NEW o PROVE MessageOf(u, "ALICE", o) = MessageOf(t, "ALICE", o)
    <2>2. BaseSent(u, "ALICE") = BaseSent(t, "ALICE")
        BY <1>1, Names
    <2> QED BY <1>1, <1>5, <1>6, <1>10, <2>2 DEF MessageOf, AlicesMessage
<1>9. ASSUME NEW o \in 0..(BaseSent(t, "BOB") + RoundsOf(t) - 2)
      PROVE  MessageOf(u, "BOB", o) = MessageOf(t, "BOB", o)
    <2>1. BaseSent(u, "BOB") = BaseSent(t, "BOB") /\ BaseSent(t, "BOB") \in Nat /\ RoundsOf(t) \in Nat
          /\ RoundsOf(t) = RoundsIn(t.conf, t.call.len)
        BY <1>1, CountsOf, Names DEF RoundsOf
    <2> DEFINE j == o - BaseSent(t, "BOB")
    <2>2. j \in Int /\ j < RoundsOf(t) - 1
        BY <2>1
    <2>3. CASE j < 0
        <3>1. \A i, sub : MaskedIn(u, i, sub) = MaskedIn(t, i, sub)
            BY <1>1, <1>10 DEF MaskedIn
        <3> QED BY <1>1, <2>1, <2>3, <3>1 DEF MessageOf, BobsMessage
    <2>4. CASE ~(j < 0)
        <3>1. /\ MessageOf(t, "BOB", o) = PreMessage(t, j)
              /\ MessageOf(u, "BOB", o) = PreMessage(u, j)
            BY <1>1, <2>1, <2>2, <2>4 DEF MessageOf, BobsMessage
        <3>2. ~CheckRound(t.conf, t.call.len, j)
            BY <2>1, <2>2 DEF CheckRound
        <3> HIDE DEF j
        <3>3. PreMessage(u, j) = PreMessage(t, j)
            BY <1>1, <3>2 DEF PreMessage
        <3> QED BY <3>1, <3>3
    <2> QED BY <2>3, <2>4
<1> QED BY <1>7, <1>8, <1>9

\* A round of BOB's, once the choice bits of the check rows are known
LEMMA BobRound ==
    ASSUME NEW cs, NEW h, Inv(cs, h), NEW a, a = me["BOB"], NEW t, t = h[a.cnt],
           NEW localR, BobPreBlock(localR),
           CheckRound(conf, t.call.len, a.at) => localR = t.chose.localR
    PROVE  Inv(cs, h)'
<1>1. a = B /\ a.pc = "pre"
    BY DEF BobPreBlock, B
<1>2. AtWork("BOB", a, t) /\ CallOK(t, a.cnt) /\ t.conf = conf /\ Record(a)
    <2>1. AtWork("BOB", a, t)
        BY <1>1, Names, WorkFacts
    <2> QED BY <2>1 DEF AtWork
<1>3. /\ ~Ferret(t) /\ t.call.kind # "setup" /\ a.at \in Nat /\ a.at < RoundsOf(t) /\ a.call = t.call
      /\ a.pos = First(t) + Moved(t.call.len, a.at) /\ a.r = t.chose.r /\ a.epoch = t.to.epoch
    BY <1>1, <1>2 DEF AtWork, InCall, StageOK, PosAt, Early
<1>4. PICK w : w = Rounded(Size(a.call.len, a.at))
    OBVIOUS
<1>5. PICK rows : rows = [k \in Slot |-> IF k < w THEN Row(<<a.epoch, a.pos + k>>, Zero) ELSE Junk]
    OBVIOUS
<1>6. PICK ms : ms = <<[epoch |-> a.epoch, pos |-> a.pos,
                       r |-> [k \in 0..(w - 1) |-> IF IsCheck(a.call.len, a.at) THEN localR[k]
                                                   ELSE BlockR(a.r, a.call.len, a.at, k)]]>>
    OBVIOUS
<1>7. PICK b : b = [a EXCEPT !.localR = localR]
    OBVIOUS
<1>8. PICK p : p = "BOB"
    OBVIOUS
<1> DEFINE rec == NextRound(Store(b, rows))
<1>9. Write("BOB", ms) /\ Become("BOB", rec) /\ (IsCheck(a.call.len, a.at) \/ localR = a.localR)
    BY <1>1, <1>4, <1>5, <1>6, <1>7 DEF BobPreBlock, Wide
<1>10. w = Rounded(SizeIn(conf, t.call.len, a.at))
       /\ (IsCheck(a.call.len, a.at) <=> CheckRound(conf, t.call.len, a.at))
    BY <1>3, <1>4, ConfOps
<1>11. ms = <<PreMessage(t, a.at)>>
    <2>1. [k \in 0..(w - 1) |-> IF IsCheck(a.call.len, a.at) THEN localR[k]
                                ELSE BlockR(a.r, a.call.len, a.at, k)] =
          [k \in 0..(w - 1) |-> IF CheckRound(conf, t.call.len, a.at) THEN t.chose.localR[k]
                                ELSE BlockR(t.chose.r, t.call.len, a.at, k)]
        BY <1>3, <1>10
    <2> QED BY <1>2, <1>3, <1>6, <1>10, <2>1 DEF PreMessage
<1>12. IsSeq(ms) /\ Len(ms) = 1 /\ ms[1] = PreMessage(t, a.at)
    BY <1>11, Single
<1>13. Passes("BOB", 0, ms)
    BY <1>2, <1>9, <1>12, Names, WritePasses DEF AtWork
<1>14. \A k \in Slot : rows[k] = IF k < w THEN Made(t, p, a.at, k) ELSE Junk
    <2>1. ASSUME NEW k \in Slot, k < w PROVE rows[k] = Made(t, p, a.at, k)
        <3>1. rows[k] = Row(<<t.to.epoch, a.pos + k>>, Zero)
            BY <1>3, <1>5, <2>1
        <3>2. Made(t, p, a.at, k) = RowIn(t, a.pos + k, FALSE)
            BY <1>3, <1>8 DEF Made
        <3>3. Row(<<t.to.epoch, a.pos + k>>, Zero) = RowIn(t, a.pos + k, FALSE)
            BY DEF Row, RowIn, Times
        <3> QED BY <3>1, <3>2, <3>3
    <2>2. ASSUME NEW k \in Slot, ~(k < w) PROVE rows[k] = Junk
        BY <1>5, <2>2
    <2> QED BY <2>1, <2>2
<1>15. /\ Record(b) /\ b.pc = a.pc /\ b.at = a.at /\ b.cnt = a.cnt /\ b.out = a.out
       /\ b.deltas = a.deltas /\ b.s = a.s /\ b.delta = a.delta
       /\ b.local = a.local /\ b.call = a.call /\ b.epoch = a.epoch /\ b.pos = a.pos
       /\ b.gid = a.gid /\ b.data = a.data /\ b.r = a.r /\ b.localR = localR
    BY <1>2, <1>7 DEF Record, Fields
<1>16. AtWork(p, b, t)
    <2>1. InCall(t, p, b)
        BY <1>1, <1>2, <1>8, <1>15 DEF InCall, AtWork
    <2> QED BY <1>2, <1>15, <2>1 DEF AtWork
<1> HIDE DEF rec
<1>17. Keeps(t, p, a, rec) /\ Advances(t, p, a, rec, 0, ms)
    <2>1. p \in Party /\ p = "BOB" /\ b.pc = "pre"
        BY <1>1, <1>8, <1>15, Names
    <2>2. rec = NextRound(Store(b, rows))
        BY DEF rec
    <2>3. w = Rounded(SizeIn(conf, t.call.len, b.at))
          /\ (\A k \in Slot : rows[k] = IF k < w THEN Made(t, p, b.at, k) ELSE Junk)
          /\ (CheckRound(conf, t.call.len, b.at) => b.localR = t.chose.localR)
        BY <1>10, <1>14, <1>15
    <2>4. /\ Record(rec) /\ rec.cnt = b.cnt /\ rec.out = b.out /\ rec.pc # "idle" /\ rec.at \in Nat
          /\ rec.deltas = b.deltas /\ rec.s = b.s /\ rec.delta = b.delta
          /\ \A k \in Slot : rec.local[k].plus \in Vector
          /\ InCall(t, p, rec)
          /\ Written(t, p, b.pc, b.at) \in Nat /\ WasRead(t, p, b.pc, b.at) \in Nat
          /\ Written(t, p, rec.pc, rec.at) = Written(t, p, b.pc, b.at) + (IF p = "BOB" THEN 1 ELSE 0)
          /\ WasRead(t, p, rec.pc, rec.at) = WasRead(t, p, b.pc, b.at) + (IF p = "BOB" THEN 0 ELSE 1)
        BY <1>16, <2>1, <2>2, <2>3, RoundStep
    <2>5. Keeps(t, p, a, rec)
        BY <1>1, <1>15, <2>4 DEF Keeps
    <2>6. ms[1] = MessageOf(t, p, Written(t, p, a.pc, a.at) + 1 - 1)
        <3>1. Written(t, "BOB", a.pc, a.at) = BaseSent(t, "BOB") + a.at
            BY <1>1 DEF Written
        <3>2. BaseSent(t, "BOB") \in Nat
            BY <1>2, CountsOf, Names
        <3>3. /\ (BaseSent(t, "BOB") + a.at) + 1 - 1 = BaseSent(t, "BOB") + a.at
              /\ (BaseSent(t, "BOB") + a.at) - BaseSent(t, "BOB") = a.at /\ ~(a.at < 0)
            BY <1>3, <3>2
        <3>4. MessageOf(t, "BOB", BaseSent(t, "BOB") + a.at) = PreMessage(t, a.at)
            BY <1>3, <3>3 DEF MessageOf, BobsMessage
        <3> QED BY <1>8, <1>12, <3>1, <3>3, <3>4
    <2>7. /\ Written(t, p, a.pc, a.at) \in Nat /\ WasRead(t, p, a.pc, a.at) \in Nat
          /\ Written(t, p, rec.pc, rec.at) = Written(t, p, a.pc, a.at) + 1
          /\ WasRead(t, p, rec.pc, rec.at) = WasRead(t, p, a.pc, a.at) + 0 /\ rec.pc # "idle"
        BY <1>15, <2>1, <2>4
    <2>8. Advances(t, p, a, rec, 0, ms)
        BY <1>12, <2>6, <2>7 DEF Advances
    <2> QED BY <2>5, <2>8
<1> QED BY <1>8, <1>9, <1>13, <1>17, Names, Stays

(* When BOB draws the choice bits of the check rows, ALICE has not read anything
   that depends on them. *)
LEMMA BobPreBlockStep ==
    ASSUME NEW cs, NEW h, Inv(cs, h), NEW ones, BobPreBlock(Bits(CheckRows, ones))
    PROVE  \E g : Inv(cs, g)'
<1>1. PICK a : a = B
    OBVIOUS
<1>2. PICK n : n = a.cnt
    OBVIOUS
<1>3. PICK t : t = h[n]
    OBVIOUS
<1>4. PICK localR : localR = Bits(CheckRows, ones)
    OBVIOUS
<1>5. a = me["BOB"] /\ a.pc = "pre" /\ BobPreBlock(localR)
    BY <1>1, <1>4 DEF BobPreBlock, B
<1>6. AtWork("BOB", a, t)
    BY <1>2, <1>3, <1>5, Names, WorkFacts
<1>7. /\ CallOK(t, n) /\ t.conf = conf /\ Chosen(t) /\ InCall(t, "BOB", a) /\ a.at \in Nat
      /\ ~Ferret(t) /\ a.at < RoundsOf(t)
    BY <1>2, <1>5, <1>6 DEF AtWork, InCall, StageOK
<1>8. CASE ~CheckRound(conf, t.call.len, a.at)
    BY <1>2, <1>3, <1>5, <1>8, BobRound
<1>9. CASE CheckRound(conf, t.call.len, a.at)
    <2> DEFINE c == [r |-> t.chose.r, localR |-> localR, x |-> t.chose.x]
    <2>1. PICK u : u = Choosing(t, c)
        OBVIOUS
    <2>2. Alike(t, u) /\ u.chose.r = t.chose.r /\ u.chose.x = t.chose.x /\ u.chose.localR = localR
        BY <2>1 DEF Alike, Choosing
    <2>3. Chosen(u)
        <3>1. localR \in [CheckIndex -> BOOLEAN]
            BY <1>4 DEF Bits, CheckIndex
        <3>2. Index(u) = Index(t) /\ Own(u) = Own(t) /\ u.call = t.call
            BY <2>2 DEF Alike, Index, Own
        <3> QED BY <1>7, <2>2, <3>1, <3>2 DEF Chosen
    <2> HIDE DEF c
    <2>4. /\ n \in 1..Len(h) /\ SentOf(h, "BOB", a) = SentAt(t.from, "BOB") + Written(t, "BOB", a.pc, a.at)
          /\ Written(t, "BOB", a.pc, a.at) = BaseSent(t, "BOB") + a.at
        <3>1. Written(t, "BOB", a.pc, a.at) = BaseSent(t, "BOB") + a.at
            BY <1>5 DEF Written
        <3> QED BY <1>2, <1>3, <1>5, <3>1, Names, WithinCall
    <2>5. /\ BaseSent(t, "BOB") \in Nat /\ RoundsOf(t) \in Nat /\ conf.malicious
          /\ RoundsOf(t) - 1 = a.at /\ Count(t, "BOB") = BaseSent(t, "BOB") + (RoundsOf(t) + 2)
        <3>1. BaseSent(t, "BOB") \in Nat /\ RoundsOf(t) \in Nat
            BY <1>7, CountsOf, Names
        <3>2. conf.malicious /\ RoundsOf(t) - 1 = a.at
            BY <1>7, <1>9 DEF CheckRound, RoundsOf
        <3>3. t.call.kind # "setup"
            BY <1>5, <1>7 DEF InCall, StageOK
        <3> QED BY <1>7, <3>1, <3>2, <3>3, KindsOf
    <2> DEFINE q == "ALICE"
               x == BaseSent(t, "BOB") + a.at
    <2>6. \/ me[q].cnt < n
          \/ me[q].cnt = n /\ me[q].pc # "idle" /\ WasRead(t, q, me[q].pc, me[q].at) <= x
        <3>1. x \in Nat /\ x < Count(t, "BOB")
            BY <1>7, <2>5
        <3> HIDE DEF x
        <3>2. SentOf(h, "BOB", me["BOB"]) = SentAt(h[n].from, "BOB") + x
            BY <1>3, <1>5, <2>4 DEF x
        <3> QED BY <1>3, <2>4, <3>1, <3>2, Names, NotAhead
    <2>7. ASSUME me[q].cnt = n, me[q].pc # "idle", WasRead(t, q, me[q].pc, me[q].at) <= x
          PROVE  InCall(t, q, me[q]) /\ me[q].pc \notin {"check", "sum"}
        <3>1. InCall(t, q, me[q])
            BY <1>3, <2>7, Names, WithinCall
        <3>2. /\ me[q].pc = "check" => WasRead(t, q, me[q].pc, me[q].at) = BaseSent(t, "BOB") + RoundsOf(t)
              /\ me[q].pc = "sum" => WasRead(t, q, me[q].pc, me[q].at)
                                       = BaseSent(t, "BOB") + RoundsOf(t) + 1
            BY DEF WasRead
        <3> QED BY <1>7, <2>5, <2>7, <3>1, <3>2
    <2>8. ASSUME NEW p \in Party
          PROVE  \/ me[p].cnt < n
                 \/ /\ me[p].cnt = n /\ me[p].pc # "idle" /\ InCall(u, p, me[p])
                    /\ \A o \in 0..(Written(t, p, me[p].pc, me[p].at) - 1) :
                          MessageOf(u, p, o) = MessageOf(t, p, o)
        <3>1. CASE p = "ALICE"
            BY <1>7, <2>2, <2>5, <2>6, <2>7, <3>1, OtherCheck, Names
        <3>2. CASE p = "BOB"
            <4>1. InCall(u, p, me[p])
                BY <1>5, <1>7, <2>2, <2>5, <3>2, OtherCheck, Names
            <4>2. \A o \in 0..(BaseSent(t, "BOB") + RoundsOf(t) - 2) :
                     MessageOf(u, "BOB", o) = MessageOf(t, "BOB", o)
                BY <1>5, <1>7, <2>2, <2>5, OtherCheck, Names
            <4>3. Written(t, p, me[p].pc, me[p].at) - 1 = BaseSent(t, "BOB") + RoundsOf(t) - 2
                BY <1>5, <1>7, <2>4, <2>5, <3>2
            <4> QED BY <1>2, <1>5, <3>2, <4>1, <4>2, <4>3
        <3> QED BY <3>1, <3>2 DEF Party
    <2>9. PICK g : g = [h EXCEPT ![n] = u]
        OBVIOUS
    <2>10. Inv(cs, g)
        BY <1>3, <2>1, <2>3, <2>4, <2>8, <2>9, Rechosen
    <2>11. g[n] = u
        <3>1. IsSeq(h) /\ n \in 1..Len(h)
            BY <2>4, HistoryFacts DEF Inv
        <3> QED BY <2>9, <3>1 DEF IsSeq
    <2>12. CheckRound(conf, u.call.len, a.at) => localR = u.chose.localR
        BY <2>2
    <2> QED BY <1>2, <1>5, <2>10, <2>11, <2>12, BobRound
<1> QED BY <1>8, <1>9

(*---------------------------- the actions: check ------------------------*)
LEMMA CheckFacts ==
    ASSUME NEW p \in Party, NEW a, NEW t, AtWork(p, a, t), a.pc \in {"check", "sum"}
    PROVE  /\ ~Ferret(t) /\ t.call.kind # "setup" /\ t.conf.malicious /\ t.conf = conf
           /\ CallOK(t, a.cnt) /\ t.nr = a.cnt /\ Chosen(t)
           /\ a.call = t.call /\ a.epoch = t.to.epoch /\ a.pos = t.to.pos /\ a.gid = t.from.gid
           /\ a.data = RowsOf(t, p) /\ \A k \in CheckIndex : a.local[k] = CheckRowOf(t, p, k)
           /\ p = "BOB" => a.r = t.chose.r /\ a.localR = t.chose.localR
           /\ p = "ALICE" => /\ a.key = KeysIn(t.conf, t.to.epoch, BaseN)
                             /\ a.s = Sec(t) /\ a.delta = Sec(t)
           /\ BaseSent(t, "BOB") \in Nat /\ BaseSent(t, "ALICE") \in Nat /\ RoundsOf(t) \in Nat
           /\ Count(t, "BOB") = BaseSent(t, "BOB") + (RoundsOf(t) + 2)
           /\ Written(t, p, a.pc, a.at) = (IF p = "ALICE" THEN BaseSent(t, "ALICE")
                                           ELSE BaseSent(t, "BOB") + RoundsOf(t)
                                                  + (IF a.pc = "sum" THEN 1 ELSE 0))
           /\ WasRead(t, p, a.pc, a.at) = (IF p = "BOB" THEN BaseSent(t, "ALICE")
                                           ELSE BaseSent(t, "BOB") + RoundsOf(t)
                                                  + (IF a.pc = "sum" THEN 1 ELSE 0))
<1>1. InCall(t, p, a) /\ CallOK(t, a.cnt) /\ t.conf = conf /\ Chosen(t) /\ t.nr = a.cnt
    BY DEF AtWork, CallOK
<1>2. ~Ferret(t) /\ t.call.kind # "setup" /\ t.conf.malicious
    BY <1>1 DEF InCall, StageOK
<1>3. /\ a.call = t.call /\ a.epoch = t.to.epoch /\ a.pos = t.to.pos /\ a.gid = t.from.gid
      /\ a.data = RowsOf(t, p) /\ \A k \in CheckIndex : a.local[k] = CheckRowOf(t, p, k)
    <2>1. t.from.gid \in Nat
        BY <1>1, PlacesOf DEF Places
    <2>2. PosAt(t, a.pc, a.at) = t.to.pos /\ DataAt(t, p, a.pc, a.at) = RowsOf(t, p)
        BY DEF PosAt, DataAt, Early
    <2> QED BY <1>1, <2>1, <2>2 DEF InCall
<1>4. /\ p = "BOB" => a.r = t.chose.r /\ a.localR = t.chose.localR
      /\ p = "ALICE" => /\ a.key = KeysIn(t.conf, t.to.epoch, BaseN)
                        /\ a.s = Sec(t) /\ a.delta = Sec(t)
    <2>1. p = "ALICE" => p # "BOB"
        OBVIOUS
    <2> QED BY <1>1, <1>2, <2>1 DEF InCall, KeyAt
<1>5. /\ BaseSent(t, "BOB") \in Nat /\ BaseSent(t, "ALICE") \in Nat /\ RoundsOf(t) \in Nat
      /\ Count(t, "BOB") = BaseSent(t, "BOB") + (RoundsOf(t) + 2)
    <2>1. BaseSent(t, "BOB") \in Nat /\ BaseSent(t, "ALICE") \in Nat /\ RoundsOf(t) \in Nat
        BY <1>1, CountsOf, Names
    <2> QED BY <1>1, <1>2, <2>1, KindsOf
<1>6. /\ Written(t, p, a.pc, a.at) = (IF p = "ALICE" THEN BaseSent(t, "ALICE")
                                      ELSE BaseSent(t, "BOB") + RoundsOf(t)
                                             + (IF a.pc = "sum" THEN 1 ELSE 0))
      /\ WasRead(t, p, a.pc, a.at) = (IF p = "BOB" THEN BaseSent(t, "ALICE")
                                      ELSE BaseSent(t, "BOB") + RoundsOf(t)
                                             + (IF a.pc = "sum" THEN 1 ELSE 0))
    <2>1. (BaseSent(t, "BOB") + RoundsOf(t)) + 0 = BaseSent(t, "BOB") + RoundsOf(t)
        BY <1>5
    <2> QED BY <2>1 DEF Written, WasRead, Party
<1> QED BY <1>1, <1>2, <1>3, <1>4, <1>5, <1>6

\* From the seed to the sums
Seeded(a, seed) == [Goto(a, "sum") EXCEPT !.chi = seed]

LEMMA SeedDone ==
    ASSUME NEW p \in Party, NEW a, NEW t, AtWork(p, a, t), a.pc = "check",
           NEW b, b = Seeded(a, t.nr)
    PROVE  /\ Keeps(t, p, a, b) /\ b.pc = "sum" /\ b.at = 0
<1>1. Record(a) /\ InCall(t, p, a) /\ \A k \in Slot : a.local[k].plus \in Vector
    BY DEF AtWork
<1>2. /\ Record(b) /\ b.pc = "sum" /\ b.at = 0 /\ b.cnt = a.cnt /\ b.out = a.out
      /\ b.deltas = a.deltas /\ b.s = a.s /\ b.delta = a.delta
      /\ b.local = a.local /\ b.call = a.call /\ b.epoch = a.epoch /\ b.pos = a.pos
      /\ b.gid = a.gid /\ b.data = a.data /\ b.r = a.r /\ b.localR = a.localR /\ b.key = a.key
      /\ b.chi = t.nr
    BY <1>1 DEF Record, Fields, Goto, Seeded
<1>3. InCall(t, p, b)
    BY <1>1, <1>2 DEF InCall, StageOK, PosAt, DataAt, Early, KeyAt
<1> QED BY <1>1, <1>2, <1>3 DEF Keeps

LEMMA BobCheckSeedStep ==
    ASSUME NEW cs, NEW h, Inv(cs, h), BobCheckSeed
    PROVE  Inv(cs, h)'
<1>1. PICK b : b = B
    OBVIOUS
<1>2. PICK t : t = h[b.cnt]
    OBVIOUS
<1>3. PICK ms : ms = <<b.cnt>>
    OBVIOUS
<1> DEFINE rec == [Goto(b, "sum") EXCEPT !.chi = b.cnt]
<1>4. b = me["BOB"] /\ b.pc = "check" /\ Send("BOB", ms) /\ Become("BOB", rec)
    BY <1>1, <1>3 DEF BobCheckSeed, B
<1>5. AtWork("BOB", b, t)
    BY <1>2, <1>4, Names, WorkFacts
<1>6. /\ ~Ferret(t) /\ t.nr = b.cnt /\ BaseSent(t, "BOB") \in Nat /\ RoundsOf(t) \in Nat
      /\ BaseSent(t, "ALICE") \in Nat
    BY <1>4, <1>5, Names, CheckFacts
<1>7. IsSeq(ms) /\ Len(ms) = 1 /\ ms[1] = t.nr
    BY <1>3, <1>6, Single
<1>8. Passes("BOB", 0, ms)
    BY <1>4, <1>5, <1>7, Names, SendPasses DEF AtWork
<1>9. Keeps(t, "BOB", b, rec) /\ rec.pc = "sum" /\ rec.at = 0
    <2>1. rec = Seeded(b, t.nr)
        BY <1>6 DEF Seeded
    <2> HIDE DEF rec
    <2> QED BY <1>4, <1>5, <2>1, Names, SeedDone
<1> HIDE DEF rec
<1>10. Advances(t, "BOB", b, rec, 0, ms)
    <2>1. /\ Written(t, "BOB", b.pc, b.at) = BaseSent(t, "BOB") + RoundsOf(t)
          /\ Written(t, "BOB", rec.pc, rec.at) = BaseSent(t, "BOB") + RoundsOf(t) + 1
          /\ WasRead(t, "BOB", b.pc, b.at) = BaseSent(t, "ALICE")
          /\ WasRead(t, "BOB", rec.pc, rec.at) = BaseSent(t, "ALICE")
        BY <1>4, <1>9 DEF Written, WasRead
    <2>2. MessageOf(t, "BOB", BaseSent(t, "BOB") + RoundsOf(t) + 1 - 1) = t.nr
        <3>1. /\ BaseSent(t, "BOB") + RoundsOf(t) + 1 - 1 - BaseSent(t, "BOB") = RoundsOf(t)
              /\ ~(RoundsOf(t) < 0) /\ ~(RoundsOf(t) < RoundsOf(t))
            BY <1>6
        <3> QED BY <1>6, <3>1 DEF MessageOf, BobsMessage
    <2> QED BY <1>6, <1>7, <1>9, <2>1, <2>2 DEF Advances
<1> QED BY <1>2, <1>4, <1>8, <1>9, <1>10, Names, Stays

LEMMA AliceCheckSeedStep ==
    ASSUME NEW cs, NEW h, Inv(cs, h), AliceCheckSeed
    PROVE  Inv(cs, h)'
<1>1. PICK a : a = A
    OBVIOUS
<1>2. PICK t : t = h[a.cnt]
    OBVIOUS
<1>3. PICK m : m = Incoming("ALICE")
    OBVIOUS
<1> DEFINE rec == [Goto(a, "sum") EXCEPT !.chi = m]
<1>4. a = me["ALICE"] /\ a.pc = "check" /\ CanRead("ALICE") /\ Read("ALICE") /\ Become("ALICE", rec)
    BY <1>1, <1>3 DEF AliceCheckSeed, A
<1>5. AtWork("ALICE", a, t)
    BY <1>2, <1>4, Names, WorkFacts
<1>6. /\ ~Ferret(t) /\ BaseSent(t, "BOB") \in Nat /\ RoundsOf(t) \in Nat
      /\ BaseSent(t, "ALICE") \in Nat
      /\ Count(t, "BOB") = BaseSent(t, "BOB") + (RoundsOf(t) + 2)
    BY <1>4, <1>5, Names, CheckFacts
<1>7. Passes("ALICE", 1, <<>>)
    BY <1>4, <1>5, Names, ReadPasses DEF AtWork
<1>8. m = t.nr
    <2>1. WasRead(t, "ALICE", a.pc, a.at) = BaseSent(t, "BOB") + RoundsOf(t)
        BY <1>4 DEF WasRead
    <2>2. m = MessageOf(t, "BOB", BaseSent(t, "BOB") + RoundsOf(t))
        BY <1>2, <1>3, <1>4, <1>6, <2>1, Names, Reads
    <2>3. /\ BaseSent(t, "BOB") + RoundsOf(t) - BaseSent(t, "BOB") = RoundsOf(t)
          /\ ~(RoundsOf(t) < 0) /\ ~(RoundsOf(t) < RoundsOf(t))
        BY <1>6
    <2> QED BY <1>6, <2>2, <2>3 DEF MessageOf, BobsMessage
<1>9. Keeps(t, "ALICE", a, rec) /\ rec.pc = "sum" /\ rec.at = 0
    <2>1. rec = Seeded(a, t.nr)
        BY <1>8 DEF Seeded
    <2> HIDE DEF rec
    <2> QED BY <1>4, <1>5, <2>1, Names, SeedDone
<1> HIDE DEF rec
<1>10. Advances(t, "ALICE", a, rec, 1, <<>>)
    <2>1. /\ WasRead(t, "ALICE", a.pc, a.at) = BaseSent(t, "BOB") + RoundsOf(t)
          /\ WasRead(t, "ALICE", rec.pc, rec.at) = BaseSent(t, "BOB") + RoundsOf(t) + 1
          /\ Written(t, "ALICE", a.pc, a.at) = BaseSent(t, "ALICE")
          /\ Written(t, "ALICE", rec.pc, rec.at) = BaseSent(t, "ALICE")
        BY <1>4, <1>9 DEF Written, WasRead
    <2> QED BY <1>6, <1>9, <2>1, Empty DEF Advances
<1> QED BY <1>2, <1>4, <1>7, <1>9, <1>10, Names, Stays

\* A row and the same plus Delta
LEMMA PlusFlips ==
    ASSUME NEW t, NEW n, CallOK(t, n), NEW name, NEW own, NEW r \in BOOLEAN, NEW x,
           x = [row |-> name, plus |-> Times(r, Sec(t)), own |-> own]
    PROVE  Plus(t, x) = [row |-> name, plus |-> Times(~r, Sec(t)), own |-> own]
<1>1. Xor(Times(r, Sec(t)), Sec(t)) = Times(~r, Sec(t))
    BY SecFacts, TimesFacts
<1>2. PICK v : v = Times(r, Sec(t))
    OBVIOUS
<1>3. PICK w : w = Times(~r, Sec(t))
    OBVIOUS
<1>4. x = [row |-> name, plus |-> v, own |-> own] /\ Xor(v, Sec(t)) = w
    BY <1>1, <1>2, <1>3
<1>5. Plus(t, x) = [x EXCEPT !.plus = Xor(x.plus, Sec(t))]
    BY DEF Plus
<1>6. Xor(x.plus, Sec(t)) = w
    BY <1>4
<1>7. [x EXCEPT !.plus = w] = [row |-> name, plus |-> w, own |-> own]
    BY <1>4
<1> QED BY <1>3, <1>5, <1>6, <1>7

LEMMA PlusIs ==
    ASSUME NEW t, A.delta = Sec(t), NEW x
    PROVE  XorDelta(x) = Plus(t, x)
BY DEF XorDelta, Plus

\* Rows with Delta taken out where r is 1
LEMMA DeltaOut ==
    ASSUME NEW t, NEW n, CallOK(t, n), A.delta = Sec(t), NEW k, NEW r \in BOOLEAN
    PROVE  (IF r THEN XorDelta(RowIn(t, k, r)) ELSE RowIn(t, k, r)) = RowIn(t, k, FALSE)
<1>1. CASE r = TRUE
    <2>1. XorDelta(RowIn(t, k, r)) = Plus(t, RowIn(t, k, r))
        BY PlusIs
    <2>2. RowIn(t, k, r) = [row |-> <<t.to.epoch, k>>, plus |-> Times(r, Sec(t)), own |-> TRUE]
        BY DEF RowIn
    <2>3. Plus(t, RowIn(t, k, r)) = [row |-> <<t.to.epoch, k>>, plus |-> Times(~r, Sec(t)), own |-> TRUE]
        <3>1. PICK x : x = RowIn(t, k, r)
            OBVIOUS
        <3>2. PICK name : name = <<t.to.epoch, k>>
            OBVIOUS
        <3>3. PICK own : own = TRUE
            OBVIOUS
        <3>4. x = [row |-> name, plus |-> Times(r, Sec(t)), own |-> own]
            BY <2>2, <3>1, <3>2, <3>3
        <3>5. Plus(t, x) = [row |-> name, plus |-> Times(~r, Sec(t)), own |-> own]
            BY <3>4, PlusFlips
        <3> QED BY <3>1, <3>2, <3>3, <3>5
    <2>4. (~r) = FALSE
        BY <1>1
    <2>5. Plus(t, RowIn(t, k, r)) = RowIn(t, k, FALSE)
        BY <2>3, <2>4 DEF RowIn
    <2> QED BY <1>1, <2>1, <2>5
<1>2. CASE r = FALSE
    BY <1>2
<1> QED BY <1>1, <1>2

\* The rows of the stream hold FerretCOT's Delta.
LEMMA CorrelationIs ==
    ASSUME NEW t, Ferret(t), t.conf = conf, NEW k, NEW v
    PROVE  Correlation(k, v) = StreamRow(t, k, v)
BY DEF Correlation, StreamRow, Sec, SecretAt, Ferret

\* To add Delta once more takes it out.
LEMMA StreamOther ==
    ASSUME NEW t, NEW n, CallOK(t, n), NEW k, NEW v \in BOOLEAN
    PROVE  Plus(t, StreamRow(t, k, v)) = StreamRow(t, k, ~v)
<1>1. PICK x : x = StreamRow(t, k, v)
    OBVIOUS
<1>2. PICK e : e = <<0, k>>
    OBVIOUS
<1>3. PICK o : o = FALSE
    OBVIOUS
<1>4. x = [row |-> e, plus |-> Times(v, Sec(t)), own |-> o]
    BY <1>1, <1>2, <1>3 DEF StreamRow
<1>5. Plus(t, x) = [row |-> e, plus |-> Times(~v, Sec(t)), own |-> o]
    BY <1>4, PlusFlips
<1> QED BY <1>1, <1>2, <1>3, <1>5 DEF StreamRow

\* The least bit says whether Delta is in a row.
LEMMA LeastOf ==
    ASSUME NEW t, NEW n, CallOK(t, n), Ferret(t), NEW k, NEW v \in BOOLEAN
    PROVE  StreamRow(t, k, v).plus[0] = v
<1>1. StreamRow(t, k, v).plus = Times(v, Sec(t))
    BY DEF StreamRow
<1>2. Sec(t)[0] = TRUE
    BY SecFacts DEF Ferret
<1>3. Zero[0] = FALSE
    BY IknpAssumption DEF Zero, Base
<1>4. CASE v = TRUE
    BY <1>1, <1>2, <1>4 DEF Times
<1>5. CASE v = FALSE
    BY <1>1, <1>3, <1>5 DEF Times
<1> QED BY <1>4, <1>5

LEMMA RowOther ==
    ASSUME NEW t, NEW n, CallOK(t, n), NEW k, NEW v \in BOOLEAN
    PROVE  Plus(t, RowIn(t, k, v)) = RowIn(t, k, ~v)
<1>1. PICK x : x = RowIn(t, k, v)
    OBVIOUS
<1>2. PICK e : e = <<t.to.epoch, k>>
    OBVIOUS
<1>3. PICK o : o = TRUE
    OBVIOUS
<1>4. x = [row |-> e, plus |-> Times(v, Sec(t)), own |-> o]
    BY <1>1, <1>2, <1>3 DEF RowIn
<1>5. Plus(t, x) = [row |-> e, plus |-> Times(~v, Sec(t)), own |-> o]
    BY <1>4, PlusFlips
<1> QED BY <1>1, <1>2, <1>3, <1>5 DEF RowIn

LEMMA AliceCorrects ==
    ASSUME NEW t, NEW n, CallOK(t, n), Chosen(t), ~Ferret(t), A.delta = Sec(t)
    PROVE  /\ Corrected(RowsOf(t, "ALICE"), t.chose.r) = RowsOf(t, "BOB")
           /\ Corrected(CheckRowsOf(t, "ALICE"), t.chose.localR) = CheckRowsOf(t, "BOB")
<1>1. ASSUME NEW i \in Index(t)
      PROVE  (IF t.chose.r[i] THEN XorDelta(RowOf(t, "ALICE", i)) ELSE RowOf(t, "ALICE", i))
                = RowOf(t, "BOB", i)
    <2> DEFINE r == t.chose.r[i]
    <2>1. r \in BOOLEAN
        BY DEF Chosen
    <2>2. RowOf(t, "ALICE", i) = RowIn(t, First(t) + i, r # FALSE)
        BY DEF RowOf
    <2>3. RowOf(t, "BOB", i) = RowIn(t, First(t) + i, FALSE)
        BY DEF RowOf
    <2> HIDE DEF r
    <2>4. (r # FALSE) = r
        BY <2>1
    <2>5. RowOf(t, "ALICE", i) = RowIn(t, First(t) + i, r)
        BY <2>2, <2>4
    <2>6. (IF r THEN XorDelta(RowIn(t, First(t) + i, r)) ELSE RowIn(t, First(t) + i, r))
             = RowIn(t, First(t) + i, FALSE)
        BY <2>1, DeltaOut
    <2> QED BY <2>3, <2>5, <2>6 DEF r
<1>2. Corrected(RowsOf(t, "ALICE"), t.chose.r) = RowsOf(t, "BOB")
    BY <1>1 DEF Corrected, RowsOf
<1>3. ASSUME NEW k \in CheckIndex
      PROVE  (IF t.chose.localR[k] THEN XorDelta(CheckRowOf(t, "ALICE", k)) ELSE CheckRowOf(t, "ALICE", k))
                = CheckRowOf(t, "BOB", k)
    <2> DEFINE r == t.chose.localR[k]
               o == First(t) + Moved(t.call.len, RoundsOf(t) - 1) + k
    <2>1. r \in BOOLEAN
        BY DEF Chosen
    <2>2. CheckRowOf(t, "ALICE", k) = RowIn(t, o, r) /\ CheckRowOf(t, "BOB", k) = RowIn(t, o, FALSE)
        BY DEF CheckRowOf
    <2> HIDE DEF r, o
    <2>3. (IF r THEN XorDelta(RowIn(t, o, r)) ELSE RowIn(t, o, r)) = RowIn(t, o, FALSE)
        BY <2>1, DeltaOut
    <2> QED BY <2>2, <2>3 DEF r
<1>4. Corrected(CheckRowsOf(t, "ALICE"), t.chose.localR) = CheckRowsOf(t, "BOB")
    BY <1>3 DEF Corrected, CheckRowsOf
<1> QED BY <1>2, <1>4

\* The check is done.
LEMMA CheckDone ==
    ASSUME NEW p \in Party, NEW a, NEW t, AtWork(p, a, t), a.pc = "sum",
           NEW b, b = Goto(a, AfterCot(t.call.kind))
    PROVE  /\ Keeps(t, p, a, b) /\ b.pc \in {"return", "tidy", "key"}
           /\ Written(t, p, b.pc, b.at) = (IF p = "ALICE" THEN BaseSent(t, p) ELSE Count(t, p))
           /\ WasRead(t, p, b.pc, b.at) = (IF p = "BOB" THEN BaseSent(t, "ALICE") ELSE Count(t, "BOB"))
<1>1. Record(a) /\ InCall(t, p, a) /\ \A k \in Slot : a.local[k].plus \in Vector
    BY DEF AtWork
<1>2. /\ Record(b) /\ b.pc = AfterCot(t.call.kind) /\ b.at = 0 /\ b.cnt = a.cnt /\ b.out = a.out
      /\ b.deltas = a.deltas /\ b.s = a.s /\ b.delta = a.delta
      /\ b.local = a.local /\ b.call = a.call /\ b.epoch = a.epoch /\ b.pos = a.pos
      /\ b.gid = a.gid /\ b.data = a.data /\ b.r = a.r /\ b.key = a.key
    BY <1>1 DEF Record, Fields, Goto
<1>3. /\ ~Ferret(t) /\ t.call.kind # "setup" /\ CallOK(t, a.cnt)
      /\ a.call = t.call /\ a.epoch = t.to.epoch /\ a.pos = t.to.pos /\ a.gid = t.from.gid
      /\ a.data = RowsOf(t, p) /\ (p = "BOB" => a.r = t.chose.r)
      /\ (p = "ALICE" => /\ a.key = KeysIn(t.conf, t.to.epoch, BaseN)
                         /\ a.s = Sec(t) /\ a.delta = Sec(t))
    BY CheckFacts
<1>4. /\ InCall(t, p, b) /\ b.pc \in {"return", "tidy", "key"}
      /\ Written(t, p, b.pc, b.at) = (IF p = "ALICE" THEN BaseSent(t, p) ELSE Count(t, p))
      /\ WasRead(t, p, b.pc, b.at) = (IF p = "BOB" THEN BaseSent(t, "ALICE") ELSE Count(t, "BOB"))
    BY <1>2, <1>3, RowsDone
<1> QED BY <1>1, <1>2, <1>4 DEF Keeps

LEMMA BobCheckSumStep ==
    ASSUME NEW cs, NEW h, Inv(cs, h), BobCheckSum
    PROVE  Inv(cs, h)'
<1>1. PICK b : b = B
    OBVIOUS
<1>2. PICK t : t = h[b.cnt]
    OBVIOUS
<1>3. PICK ms : ms = <<[chi |-> b.chi, t |-> CheckedRows(b), x |-> CheckX]>>
    OBVIOUS
<1> DEFINE rec == Goto(b, AfterCot(b.call.kind))
<1>4. b = me["BOB"] /\ b.pc = "sum" /\ Write("BOB", ms) /\ Become("BOB", rec)
    BY <1>1, <1>3 DEF BobCheckSum, B
<1>5. AtWork("BOB", b, t)
    BY <1>2, <1>4, Names, WorkFacts
<1>6. /\ ~Ferret(t) /\ t.nr = b.cnt /\ BaseSent(t, "BOB") \in Nat /\ RoundsOf(t) \in Nat
      /\ BaseSent(t, "ALICE") \in Nat /\ Count(t, "BOB") = BaseSent(t, "BOB") + (RoundsOf(t) + 2)
      /\ b.data = RowsOf(t, "BOB") /\ (\A k \in CheckIndex : b.local[k] = CheckRowOf(t, "BOB", k))
      /\ b.r = t.chose.r /\ b.localR = t.chose.localR /\ b.call = t.call
      /\ Written(t, "BOB", b.pc, b.at) = BaseSent(t, "BOB") + RoundsOf(t) + 1
      /\ WasRead(t, "BOB", b.pc, b.at) = BaseSent(t, "ALICE")
    <2>1. b.pc \in {"check", "sum"}
        BY <1>4
    <2> QED BY <1>4, <1>5, <2>1, Names, CheckFacts
<1>7. IsSeq(ms) /\ Len(ms) = 1 /\ ms[1] = SumMessage(t)
    <2>1. b.chi = t.nr
        BY <1>4, <1>5 DEF AtWork, InCall
    <2>2. CheckedRows(b) = <<RowsOf(t, "BOB"), CheckRowsOf(t, "BOB")>>
        <3>1. [k \in 0..(CheckRows - 1) |-> b.local[k]] = CheckRowsOf(t, "BOB")
            BY <1>6 DEF CheckRowsOf, CheckIndex
        <3> QED BY <1>6, <3>1 DEF CheckedRows
    <2>3. CheckX = <<t.chose.r, t.chose.localR>>
        BY <1>1, <1>6 DEF CheckX
    <2> QED BY <1>3, <2>1, <2>2, <2>3, Single DEF SumMessage
<1>8. Passes("BOB", 0, ms)
    BY <1>4, <1>5, <1>7, Names, WritePasses DEF AtWork
<1>9. /\ Keeps(t, "BOB", b, rec) /\ rec.pc \in {"return", "tidy", "key"}
      /\ Written(t, "BOB", rec.pc, rec.at) = Count(t, "BOB")
      /\ WasRead(t, "BOB", rec.pc, rec.at) = BaseSent(t, "ALICE")
    <2>1. rec = Goto(b, AfterCot(t.call.kind))
        BY <1>6
    <2> HIDE DEF rec
    <2> QED BY <1>4, <1>5, <2>1, Names, CheckDone
<1> HIDE DEF rec
<1>10. Advances(t, "BOB", b, rec, 0, ms)
    <2>1. MessageOf(t, "BOB", BaseSent(t, "BOB") + RoundsOf(t) + 1 + 1 - 1) = SumMessage(t)
        <3>1. /\ BaseSent(t, "BOB") + RoundsOf(t) + 1 + 1 - 1 - BaseSent(t, "BOB") = RoundsOf(t) + 1
              /\ ~(RoundsOf(t) + 1 < 0) /\ ~(RoundsOf(t) + 1 < RoundsOf(t)) /\ RoundsOf(t) + 1 # RoundsOf(t)
            BY <1>6
        <3> QED BY <1>6, <3>1 DEF MessageOf, BobsMessage
    <2>2. rec.pc # "idle"
        BY <1>9
    <2> QED BY <1>6, <1>7, <1>9, <2>1, <2>2 DEF Advances
<1> QED BY <1>2, <1>4, <1>8, <1>9, <1>10, Names, Stays

LEMMA AliceCheckSumStep ==
    ASSUME NEW cs, NEW h, Inv(cs, h), AliceCheckSum
    PROVE  Inv(cs, h)'
<1>1. PICK a : a = A
    OBVIOUS
<1>2. PICK t : t = h[a.cnt]
    OBVIOUS
<1>3. PICK m : m = Incoming("ALICE")
    OBVIOUS
<1> DEFINE same == /\ m.chi = a.chi
                   /\ \A i \in {1, 2} : Corrected(CheckedRows(a)[i], m.x[i]) = m.t[i]
           rec == Goto(a, IF same THEN AfterCot(a.call.kind) ELSE "error")
<1>4. a = me["ALICE"] /\ a.pc = "sum" /\ CanRead("ALICE") /\ Read("ALICE") /\ Become("ALICE", rec)
    BY <1>1, <1>3 DEF AliceCheckSum, A
<1>5. AtWork("ALICE", a, t)
    BY <1>2, <1>4, Names, WorkFacts
<1>6. /\ ~Ferret(t) /\ BaseSent(t, "BOB") \in Nat /\ RoundsOf(t) \in Nat
      /\ BaseSent(t, "ALICE") \in Nat /\ Count(t, "BOB") = BaseSent(t, "BOB") + (RoundsOf(t) + 2)
      /\ a.data = RowsOf(t, "ALICE") /\ (\A k \in CheckIndex : a.local[k] = CheckRowOf(t, "ALICE", k))
      /\ a.call = t.call /\ A.delta = Sec(t) /\ CallOK(t, a.cnt) /\ Chosen(t)
      /\ WasRead(t, "ALICE", a.pc, a.at) = BaseSent(t, "BOB") + RoundsOf(t) + 1
      /\ Written(t, "ALICE", a.pc, a.at) = BaseSent(t, "ALICE")
    <2>1. a.pc \in {"check", "sum"}
        BY <1>4
    <2> QED BY <1>1, <1>4, <1>5, <2>1, Names, CheckFacts
<1>7. Passes("ALICE", 1, <<>>)
    BY <1>4, <1>5, Names, ReadPasses DEF AtWork
<1>8. m = SumMessage(t)
    <2>1. m = MessageOf(t, "BOB", BaseSent(t, "BOB") + RoundsOf(t) + 1)
        BY <1>2, <1>3, <1>4, <1>6, Names, Reads
    <2>2. /\ BaseSent(t, "BOB") + RoundsOf(t) + 1 - BaseSent(t, "BOB") = RoundsOf(t) + 1
          /\ ~(RoundsOf(t) + 1 < 0) /\ ~(RoundsOf(t) + 1 < RoundsOf(t)) /\ RoundsOf(t) + 1 # RoundsOf(t)
        BY <1>6
    <2> QED BY <1>6, <2>1, <2>2 DEF MessageOf, BobsMessage
<1>9. same
    <2>1. a.chi = t.nr
        BY <1>4, <1>5 DEF AtWork, InCall
    <2>2. CheckedRows(a) = <<RowsOf(t, "ALICE"), CheckRowsOf(t, "ALICE")>>
        <3>1. [k \in 0..(CheckRows - 1) |-> a.local[k]] = CheckRowsOf(t, "ALICE")
            BY <1>6 DEF CheckRowsOf, CheckIndex
        <3> QED BY <1>6, <3>1 DEF CheckedRows
    <2>3. /\ m.chi = t.nr /\ m.t = <<RowsOf(t, "BOB"), CheckRowsOf(t, "BOB")>>
          /\ m.x = <<t.chose.r, t.chose.localR>>
        BY <1>8 DEF SumMessage
    <2>4. /\ Corrected(RowsOf(t, "ALICE"), t.chose.r) = RowsOf(t, "BOB")
          /\ Corrected(CheckRowsOf(t, "ALICE"), t.chose.localR) = CheckRowsOf(t, "BOB")
        BY <1>6, AliceCorrects
    <2>5. /\ CheckedRows(a)[1] = RowsOf(t, "ALICE") /\ CheckedRows(a)[2] = CheckRowsOf(t, "ALICE")
          /\ m.x[1] = t.chose.r /\ m.x[2] = t.chose.localR
          /\ m.t[1] = RowsOf(t, "BOB") /\ m.t[2] = CheckRowsOf(t, "BOB")
        BY <2>2, <2>3
    <2>6. Corrected(CheckedRows(a)[1], m.x[1]) = m.t[1] /\ Corrected(CheckedRows(a)[2], m.x[2]) = m.t[2]
        BY <2>4, <2>5
    <2> QED BY <2>1, <2>3, <2>6
<1> HIDE DEF same
<1>10. /\ Keeps(t, "ALICE", a, rec) /\ rec.pc \in {"return", "tidy", "key"}
       /\ Written(t, "ALICE", rec.pc, rec.at) = BaseSent(t, "ALICE")
       /\ WasRead(t, "ALICE", rec.pc, rec.at) = Count(t, "BOB")
    <2>1. rec = Goto(a, AfterCot(t.call.kind))
        BY <1>6, <1>9
    <2> HIDE DEF rec
    <2> QED BY <1>4, <1>5, <2>1, Names, CheckDone
<1> HIDE DEF rec
<1>11. Advances(t, "ALICE", a, rec, 1, <<>>)
    <2>1. rec.pc # "idle"
        BY <1>10
    <2> QED BY <1>6, <1>10, <2>1, Names, Empty DEF Advances
<1> QED BY <1>2, <1>4, <1>7, <1>10, <1>11, Names, Stays

(*---------------- the actions: rows from the stream of Ferret -----------*)
LEMMA FerretFacts ==
    ASSUME NEW p \in Party, NEW a, NEW t, AtWork(p, a, t), a.pc \in {"rcot", "bits"}
    PROVE  /\ Ferret(t) /\ t.call.kind # "setup" /\ t.conf = conf /\ CallOK(t, a.cnt) /\ Chosen(t)
           /\ First(t) \in Nat /\ t.from.pos = First(t) /\ t.call.len \in Nat
           /\ t.to.pos = First(t) + t.call.len
           /\ BaseSent(t, "ALICE") = 0 /\ BaseSent(t, "BOB") = 0 /\ Count(t, "BOB") = 1
           /\ a.call = t.call /\ a.epoch = t.to.epoch /\ a.gid = t.from.gid
           /\ a.pc = "rcot" => a.pos = First(t)
           /\ a.pc = "bits" => p = "ALICE" /\ a.pos = t.to.pos
           /\ a.data = DataAt(t, p, a.pc, a.at) /\ DOMAIN a.data = Index(t)
           /\ p = "BOB" => a.r = t.chose.r
           /\ p = "ALICE" => a.delta = Sec(t)
<1>1. InCall(t, p, a) /\ CallOK(t, a.cnt) /\ t.conf = conf /\ Chosen(t)
    BY DEF AtWork
<1>2. Ferret(t) /\ (a.pc = "bits" => p = "ALICE")
    BY <1>1 DEF InCall, StageOK
<1>3. /\ t.call.kind # "setup" /\ First(t) \in Nat /\ t.from.pos = First(t) /\ t.call.len \in Nat
      /\ BaseSent(t, "ALICE") = 0 /\ BaseSent(t, "BOB") = 0 /\ Count(t, "BOB") = 1
      /\ t.from.gid \in Nat /\ t.to.pos = First(t) + RowsDrawn(t.conf, t.call)
    <2>1. t.call \in Calls
        BY <1>1 DEF CallOK
    <2> QED BY <1>1, <1>2, <2>1, KindsOf, PlacesOf, CallFacts, Names DEF Places
<1>4. RowsDrawn(t.conf, t.call) = t.call.len
    BY <1>2 DEF Ferret, RowsDrawn
<1>5. /\ PosAt(t, a.pc, a.at) = (IF a.pc = "rcot" THEN t.from.pos ELSE t.to.pos)
      /\ DOMAIN DataAt(t, p, a.pc, a.at) = Index(t)
    BY DEF PosAt, DataAt, Early
<1>6. /\ a.call = t.call /\ a.epoch = t.to.epoch /\ a.gid = t.from.gid
      /\ a.pos = PosAt(t, a.pc, a.at) /\ a.data = DataAt(t, p, a.pc, a.at)
      /\ (p = "BOB" => a.r = t.chose.r)
      /\ (p = "ALICE" => a.delta = Sec(t))
    <2>1. p = "ALICE" => p # "BOB"
        OBVIOUS
    <2> QED BY <1>1, <1>3, <2>1 DEF InCall
<1>7. /\ a.pc = "rcot" => a.pos = First(t)
      /\ a.pc = "bits" => p = "ALICE" /\ a.pos = t.to.pos
    BY <1>2, <1>3, <1>5, <1>6
<1>8. DOMAIN a.data = Index(t)
    BY <1>5, <1>6
<1> QED BY <1>1, <1>2, <1>3, <1>4, <1>6, <1>7, <1>8

\* The rows of the stream that are known to be the call's
LEMMA StreamDone ==
    ASSUME NEW p \in Party, NEW a, NEW t, AtWork(p, a, t), a.pc \in {"rcot", "bits"},
           NEW b, Record(b), b.pc = AfterCot(t.call.kind), b.at = 0, b.cnt = a.cnt, b.out = a.out,
           b.deltas = a.deltas, b.s = a.s, b.delta = a.delta,
           b.local = a.local, b.call = a.call, b.epoch = a.epoch, b.pos = t.to.pos, b.gid = a.gid,
           b.data = RowsOf(t, p), b.r = a.r
    PROVE  /\ Keeps(t, p, a, b) /\ b.pc \in {"return", "tidy", "key"}
           /\ Written(t, p, b.pc, b.at) = (IF p = "ALICE" THEN BaseSent(t, p) ELSE Count(t, p))
           /\ WasRead(t, p, b.pc, b.at) = (IF p = "BOB" THEN BaseSent(t, "ALICE") ELSE Count(t, "BOB"))
<1>1. Record(a) /\ InCall(t, p, a) /\ \A k \in Slot : a.local[k].plus \in Vector
    BY DEF AtWork
<1>2. /\ Ferret(t) /\ t.call.kind # "setup" /\ CallOK(t, a.cnt)
      /\ a.call = t.call /\ a.epoch = t.to.epoch /\ a.gid = t.from.gid
      /\ (p = "BOB" => a.r = t.chose.r) /\ (p = "ALICE" => a.delta = Sec(t))
    BY FerretFacts
<1>3. /\ InCall(t, p, b) /\ b.pc \in {"return", "tidy", "key"}
      /\ Written(t, p, b.pc, b.at) = (IF p = "ALICE" THEN BaseSent(t, p) ELSE Count(t, p))
      /\ WasRead(t, p, b.pc, b.at) = (IF p = "BOB" THEN BaseSent(t, "ALICE") ELSE Count(t, "BOB"))
    BY <1>2, RowsDone
<1> QED BY <1>1, <1>3 DEF Keeps

\* BOB's part of the stream, once its least bits are known
LEMMA BobStream ==
    ASSUME NEW cs, NEW h, Inv(cs, h), NEW b, b = me["BOB"], NEW t, t = h[b.cnt],
           NEW ones, BobOnline(ones), t.chose.x = Bits(t.call.len, ones)
    PROVE  Inv(cs, h)'
<1>1. b = B /\ b.pc = "rcot"
    BY DEF BobOnline, B
<1>2. AtWork("BOB", b, t)
    BY <1>1, Names, WorkFacts
<1>3. /\ Ferret(t) /\ CallOK(t, b.cnt) /\ t.to.pos = First(t) + t.call.len
      /\ BaseSent(t, "ALICE") = 0 /\ BaseSent(t, "BOB") = 0 /\ Count(t, "BOB") = 1
      /\ b.call = t.call /\ b.pos = First(t) /\ DOMAIN b.data = Index(t) /\ b.r = t.chose.r
      /\ Record(b)
    BY <1>1, <1>2, Names, FerretFacts DEF AtWork
<1>4. PICK got : got = Rcot(b, Bits(b.call.len, ones))
    OBVIOUS
<1>5. PICK ms : ms = <<[i \in DOMAIN got.data |-> OnlineBit(b.r[i], got.data[i])]>>
    OBVIOUS
<1> DEFINE rec == Goto(got, AfterCot(b.call.kind))
<1>6. Write("BOB", ms) /\ Become("BOB", rec)
    BY <1>1, <1>4, <1>5 DEF BobOnline
<1>7. got = [b EXCEPT !.data = RowsOf(t, "BOB"), !.pos = t.to.pos]
    <2>1. PICK d : d = [i \in DOMAIN b.data |-> Correlation(b.pos + i, Bits(b.call.len, ones)[i])]
        OBVIOUS
    <2>2. d = RowsOf(t, "BOB")
        <3>1. ASSUME NEW i \in Index(t)
              PROVE  Correlation(b.pos + i, Bits(b.call.len, ones)[i]) = RowOf(t, "BOB", i)
            BY <1>2, <1>3, CorrelationIs DEF RowOf, AtWork
        <3> QED BY <1>3, <2>1, <3>1 DEF RowsOf
    <2>3. b.pos + b.call.len = t.to.pos
        BY <1>3
    <2>4. got = [b EXCEPT !.data = d, !.pos = b.pos + b.call.len]
        BY <1>4, <2>1 DEF Rcot
    <2> QED BY <2>2, <2>3, <2>4
<1>8. PICK d : d = RowsOf(t, "BOB")
    OBVIOUS
<1>9. /\ Record(got) /\ got.pc = b.pc /\ got.cnt = b.cnt /\ got.out = b.out
      /\ got.deltas = b.deltas /\ got.s = b.s /\ got.delta = b.delta
      /\ got.local = b.local /\ got.call = b.call /\ got.epoch = b.epoch /\ got.pos = t.to.pos
      /\ got.gid = b.gid /\ got.data = d /\ got.r = b.r
    BY <1>3, <1>7, <1>8 DEF Record, Fields
<1>10. IsSeq(ms) /\ Len(ms) = 1 /\ ms[1] = OnlineMessage(t)
    <2>1. DOMAIN got.data = Index(t)
        BY <1>8, <1>9 DEF RowsOf
    <2>2. ASSUME NEW i \in Index(t)
          PROVE  OnlineBit(b.r[i], got.data[i]) = (t.chose.r[i] # t.chose.x[i])
        <3>1. got.data[i] = RowOf(t, "BOB", i)
            BY <1>8, <1>9 DEF RowsOf
        <3>2. got.data[i] = StreamRow(t, First(t) + i, t.chose.x[i])
            BY <1>3, <3>1 DEF RowOf
        <3>3. b.r[i] \in BOOLEAN /\ t.chose.x[i] \in BOOLEAN
            BY <1>2, <1>3 DEF AtWork, Chosen
        <3>4. got.data[i].plus[0] = t.chose.x[i]
            BY <1>2, <1>3, <3>2, <3>3, LeastOf DEF AtWork
        <3> QED BY <1>3, <3>4 DEF OnlineBit
    <2>3. ms = <<OnlineMessage(t)>>
        BY <1>5, <2>1, <2>2 DEF OnlineMessage
    <2> QED BY <2>3, Single
<1>11. Passes("BOB", 0, ms)
    BY <1>2, <1>6, <1>10, Names, WritePasses DEF AtWork
<1>12. /\ Record(rec) /\ rec.pc = AfterCot(t.call.kind) /\ rec.at = 0 /\ rec.cnt = b.cnt
       /\ rec.out = b.out /\ rec.local = b.local /\ rec.call = b.call /\ rec.epoch = b.epoch
       /\ rec.deltas = b.deltas /\ rec.s = b.s /\ rec.delta = b.delta
       /\ rec.pos = t.to.pos /\ rec.gid = b.gid /\ rec.data = d /\ rec.r = b.r
    BY <1>3, <1>9 DEF Record, Fields, Goto
<1> HIDE DEF rec
<1>13. /\ Keeps(t, "BOB", b, rec) /\ rec.pc \in {"return", "tidy", "key"}
       /\ Written(t, "BOB", rec.pc, rec.at) = 1 /\ WasRead(t, "BOB", rec.pc, rec.at) = 0
    <2>1. b.pc \in {"rcot", "bits"}
        BY <1>1
    <2>2. /\ Keeps(t, "BOB", b, rec) /\ rec.pc \in {"return", "tidy", "key"}
          /\ Written(t, "BOB", rec.pc, rec.at) = Count(t, "BOB")
          /\ WasRead(t, "BOB", rec.pc, rec.at) = BaseSent(t, "ALICE")
        BY <1>2, <1>8, <1>12, <2>1, Names, StreamDone
    <2> QED BY <1>3, <2>2
<1>14. Advances(t, "BOB", b, rec, 0, ms)
    <2>1. Written(t, "BOB", b.pc, b.at) = 0 /\ WasRead(t, "BOB", b.pc, b.at) = 0
        BY <1>1, <1>3 DEF Written, WasRead
    <2>2. MessageOf(t, "BOB", 0 + 1 - 1) = OnlineMessage(t)
        BY <1>3 DEF MessageOf, BobsMessage
    <2>3. rec.pc # "idle"
        BY <1>13
    <2> QED BY <1>10, <1>13, <2>1, <2>2, <2>3 DEF Advances
<1> QED BY <1>6, <1>11, <1>13, <1>14, Names, Stays

(* When BOB draws the least bits of his rows, ALICE has not read anything that
   depends on them. *)
LEMMA BobOnlineStep ==
    ASSUME NEW cs, NEW h, Inv(cs, h), NEW ones, BobOnline(ones)
    PROVE  \E g : Inv(cs, g)'
<1>1. PICK a : a = B
    OBVIOUS
<1>2. PICK n : n = a.cnt
    OBVIOUS
<1>3. PICK t : t = h[n]
    OBVIOUS
<1>4. PICK x : x = Bits(t.call.len, ones)
    OBVIOUS
<1>5. a = me["BOB"] /\ a.pc = "rcot" /\ a.pc \in {"rcot", "bits"}
    BY <1>1 DEF BobOnline, B
<1>6. AtWork("BOB", a, t)
    BY <1>2, <1>3, <1>5, Names, WorkFacts
<1>7. /\ CallOK(t, n) /\ t.conf = conf /\ Chosen(t) /\ InCall(t, "BOB", a) /\ Ferret(t)
      /\ BaseSent(t, "ALICE") = 0 /\ Count(t, "BOB") = 1
    BY <1>2, <1>5, <1>6, Names, FerretFacts DEF AtWork
<1> DEFINE c == [r |-> t.chose.r, localR |-> t.chose.localR, x |-> x]
<1>8. PICK u : u = Choosing(t, c)
    OBVIOUS
<1>9. /\ Alike(t, u) /\ u.chose.r = t.chose.r /\ u.chose.localR = t.chose.localR /\ u.chose.x = x
      /\ u.call = t.call /\ u.from = t.from /\ u.to = t.to /\ u.conf = t.conf
    BY <1>8 DEF Alike, Choosing
<1>10. Index(u) = Index(t) /\ Own(u) = Own(t) /\ Ferret(u) = Ferret(t) /\ First(u) = First(t)
       /\ Sec(u) = Sec(t)
    BY <1>9 DEF Index, Own, Ferret, First, Sec
<1>11. Chosen(u)
    <2>1. x \in [Index(t) -> BOOLEAN]
        BY <1>4 DEF Bits, Index
    <2> QED BY <1>7, <1>9, <1>10, <2>1 DEF Chosen
<1> HIDE DEF c
<1>12. /\ n \in 1..Len(h) /\ Written(t, "BOB", a.pc, a.at) = 0
       /\ SentAt(t.from, "BOB") \in Nat /\ SentOf(h, "BOB", a) = SentAt(t.from, "BOB") + 0
    <2>1. Written(t, "BOB", a.pc, a.at) = 0
        BY <1>5 DEF Written
    <2>2. SentAt(t.from, "BOB") \in Nat
        BY <1>7, CountsOf, Names
    <2> QED BY <1>2, <1>3, <1>5, <2>1, <2>2, Names, WithinCall
<1> DEFINE q == "ALICE"
<1>13. \/ me[q].cnt < n
       \/ me[q].cnt = n /\ me[q].pc # "idle" /\ WasRead(t, q, me[q].pc, me[q].at) <= 0
    <2>1. SentOf(h, "BOB", me["BOB"]) = SentAt(h[n].from, "BOB") + 0 /\ 0 < Count(h[n], "BOB")
        BY <1>3, <1>5, <1>7, <1>12
    <2> QED BY <1>3, <1>12, <2>1, Names, NotAhead
\* Where the least bits have not been used
<1>14. ASSUME NEW p \in Party, NEW b, InCall(t, p, b), b.pc \in {"rcot", "bits"}
       PROVE  InCall(u, p, b)
    <2>1. StageOK(u, p, b.pc, b.at)
        BY <1>9, <1>14, AlikeFacts DEF InCall
    <2>2. PosAt(u, b.pc, b.at) = PosAt(t, b.pc, b.at)
        BY <1>9, <1>10 DEF PosAt
    <2>4. KeyAt(u, p, b.pc, b.at) = KeyAt(t, p, b.pc, b.at)
        BY <1>9, <1>10 DEF KeyAt, PointsIn, PointIn
    <2>3. DataAt(u, p, b.pc, b.at) = DataAt(t, p, b.pc, b.at)
        BY <1>10, <1>14 DEF DataAt, Early, StreamRow
    <2> QED BY <1>7, <1>9, <1>10, <1>14, <2>1, <2>2, <2>3, <2>4 DEF InCall
<1>15. ASSUME me[q].cnt = n, me[q].pc # "idle", WasRead(t, q, me[q].pc, me[q].at) <= 0
       PROVE  InCall(t, q, me[q]) /\ me[q].pc \in {"rcot", "bits"}
    <2>1. InCall(t, q, me[q])
        BY <1>3, <1>15, Names, WithinCall
    <2>2. ~Based(t) /\ t.call.kind \notin {"setup", "gen"}
        BY <1>7, KindsOf
    <2>3. me[q].pc \in {"rcot", "bits", "return", "key", "rot", "ot"}
        BY <1>7, <2>1, <2>2 DEF InCall, StageOK
    <2>4. me[q].pc \in {"return", "key", "rot", "ot"} => WasRead(t, q, me[q].pc, me[q].at) = 1
        BY <1>7 DEF WasRead
    <2> QED BY <1>15, <2>1, <2>3, <2>4
<1>16. ASSUME NEW p \in Party
       PROVE  \/ me[p].cnt < n
              \/ /\ me[p].cnt = n /\ me[p].pc # "idle" /\ InCall(u, p, me[p])
                 /\ \A o \in 0..(Written(t, p, me[p].pc, me[p].at) - 1) :
                       MessageOf(u, p, o) = MessageOf(t, p, o)
    <2>1. CASE p = "ALICE"
        <3>1. CASE me[q].cnt < n
            BY <2>1, <3>1
        <3>2. CASE ~(me[q].cnt < n)
            <4>1. /\ me[q].cnt = n /\ me[q].pc # "idle" /\ InCall(t, q, me[q])
                  /\ me[q].pc \in {"rcot", "bits"}
                BY <1>13, <1>15, <3>2
            <4>2. InCall(u, q, me[q])
                BY <1>14, <4>1, Names
            <4>3. Written(t, q, me[q].pc, me[q].at) = 0
                BY <1>7, <4>1 DEF Written
            <4> QED BY <2>1, <4>1, <4>2, <4>3
        <3> QED BY <3>1, <3>2
    <2>2. CASE p = "BOB"
        <3>1. InCall(u, p, me[p])
            BY <1>5, <1>7, <1>14, <2>2
        <3>2. Written(t, p, me[p].pc, me[p].at) = 0
            BY <1>5, <1>12, <2>2
        <3> QED BY <1>2, <1>5, <2>2, <3>1, <3>2
    <2> QED BY <2>1, <2>2 DEF Party
<1>17. PICK g : g = [h EXCEPT ![n] = u]
    OBVIOUS
<1>18. Inv(cs, g)
    <2>1. PICK d : u = Choosing(h[n], d)
        BY <1>3, <1>8
    <2>2. n \in 1..Len(h)
        BY <1>12
    <2> HIDE DEF q
    <2>3. \A p \in Party :
              \/ me[p].cnt < n
              \/ /\ me[p].cnt = n /\ me[p].pc # "idle" /\ InCall(u, p, me[p])
                 /\ \A o \in 0..(Written(h[n], p, me[p].pc, me[p].at) - 1) :
                       MessageOf(u, p, o) = MessageOf(h[n], p, o)
        BY <1>3, <1>16
    <2> QED BY <1>11, <1>17, <2>1, <2>2, <2>3, Rechosen
<1>19. g[n] = u
    <2>1. IsSeq(h) /\ n \in 1..Len(h)
        BY <1>12, HistoryFacts DEF Inv
    <2> QED BY <1>17, <2>1 DEF IsSeq
<1>20. u.chose.x = Bits(u.call.len, ones)
    BY <1>4, <1>9
<1> QED BY <1>2, <1>5, <1>18, <1>19, <1>20, BobStream

LEMMA AliceRcotStep ==
    ASSUME NEW cs, NEW h, Inv(cs, h), AliceRcot
    PROVE  Inv(cs, h)'
<1>1. PICK a : a = A
    OBVIOUS
<1>2. PICK t : t = h[a.cnt]
    OBVIOUS
<1> DEFINE got == Rcot(a, Bits(a.call.len, {}))
           rec == Goto(got, "bits")
<1>3. a = me["ALICE"] /\ a.pc = "rcot" /\ Silent /\ Become("ALICE", rec)
    BY <1>1 DEF AliceRcot, A
<1>4. AtWork("ALICE", a, t)
    BY <1>2, <1>3, Names, WorkFacts
<1>5. /\ Ferret(t) /\ t.to.pos = First(t) + t.call.len /\ BaseSent(t, "ALICE") = 0
      /\ a.call = t.call /\ a.pos = First(t) /\ DOMAIN a.data = Index(t) /\ Record(a)
      /\ a.delta = Sec(t)
    BY <1>3, <1>4, Names, FerretFacts DEF AtWork
<1>6. Passes("ALICE", 0, <<>>)
    BY <1>3, <1>4, Names, SilentPasses DEF AtWork
<1>7. PICK d : d = [i \in DOMAIN a.data |-> Correlation(a.pos + i, Bits(a.call.len, {})[i])]
    OBVIOUS
<1>8. got = [a EXCEPT !.data = d, !.pos = a.pos + a.call.len]
    BY <1>7 DEF Rcot
<1>9. d = [i \in Index(t) |-> StreamRow(t, First(t) + i, FALSE)]
    <2>1. ASSUME NEW i \in Index(t) PROVE Bits(a.call.len, {})[i] = FALSE
        <3>1. i \in 0..(a.call.len - 1)
            BY <1>5 DEF Index
        <3>2. Bits(a.call.len, {})[i] = (i \in {})
            BY <3>1 DEF Bits
        <3>3. (i \in {}) = FALSE
            OBVIOUS
        <3> QED BY <3>2, <3>3
    <2>2. \A k : Correlation(k, FALSE) = StreamRow(t, k, FALSE)
        BY <1>4, <1>5, CorrelationIs DEF AtWork
    <2> QED BY <1>5, <1>7, <2>1, <2>2
<1>10. /\ Record(rec) /\ rec.pc = "bits" /\ rec.at = 0 /\ rec.cnt = a.cnt
       /\ rec.out = a.out /\ rec.local = a.local /\ rec.call = a.call /\ rec.epoch = a.epoch
       /\ rec.deltas = a.deltas /\ rec.s = a.s /\ rec.delta = a.delta
       /\ rec.pos = t.to.pos /\ rec.gid = a.gid /\ rec.data = d
    <2> HIDE DEF got
    <2>1. /\ Record(got) /\ got.pc = a.pc /\ got.cnt = a.cnt /\ got.out = a.out
          /\ got.deltas = a.deltas /\ got.s = a.s /\ got.delta = a.delta
          /\ got.local = a.local /\ got.call = a.call /\ got.epoch = a.epoch
          /\ got.pos = a.pos + a.call.len /\ got.gid = a.gid /\ got.data = d
        BY <1>5, <1>8 DEF Record, Fields
    <2> QED BY <1>5, <2>1 DEF Record, Fields, Goto
<1> HIDE DEF rec, got
<1>11. Keeps(t, "ALICE", a, rec)
    <2>1. StageOK(t, "ALICE", "bits", 0)
        BY <1>5 DEF StageOK
    <2>2. DataAt(t, "ALICE", "bits", 0) = d /\ PosAt(t, "bits", 0) = t.to.pos
        BY <1>9 DEF DataAt, PosAt, Early
    <2>3. InCall(t, "ALICE", rec)
        BY <1>3, <1>4, <1>5, <1>10, <2>1, <2>2 DEF InCall, AtWork
    <2> QED BY <1>3, <1>4, <1>10, <2>3 DEF Keeps, AtWork
<1>12. Advances(t, "ALICE", a, rec, 0, <<>>)
    <2>1. /\ Written(t, "ALICE", a.pc, a.at) = 0 /\ WasRead(t, "ALICE", a.pc, a.at) = 0
          /\ Written(t, "ALICE", rec.pc, rec.at) = 0 /\ WasRead(t, "ALICE", rec.pc, rec.at) = 0
        BY <1>3, <1>5, <1>10 DEF Written, WasRead
    <2> QED BY <1>10, <2>1, Empty DEF Advances
<1> QED BY <1>2, <1>3, <1>6, <1>11, <1>12, Names, Stays

\* Delta is added to the rows of the stream where the bit is 1.
LEMMA StreamFlips ==
    ASSUME NEW t, NEW n, CallOK(t, n), A.delta = Sec(t), NEW k, NEW r \in BOOLEAN
    PROVE  (IF r THEN XorDelta(StreamRow(t, k, FALSE)) ELSE StreamRow(t, k, FALSE)) = StreamRow(t, k, r)
<1>1. CASE r = TRUE
    <2>1. Plus(t, StreamRow(t, k, FALSE)) = StreamRow(t, k, ~FALSE)
        BY StreamOther
    <2>2. XorDelta(StreamRow(t, k, FALSE)) = Plus(t, StreamRow(t, k, FALSE))
        BY PlusIs
    <2>3. (~FALSE) = r
        BY <1>1
    <2> QED BY <1>1, <2>1, <2>2, <2>3
<1>2. CASE r = FALSE
    BY <1>2
<1> QED BY <1>1, <1>2

LEMMA AliceOnlineStep ==
    ASSUME NEW cs, NEW h, Inv(cs, h), AliceOnline
    PROVE  Inv(cs, h)'
<1>1. PICK a : a = A
    OBVIOUS
<1>2. PICK t : t = h[a.cnt]
    OBVIOUS
<1>3. PICK m : m = Incoming("ALICE")
    OBVIOUS
<1>4. PICK got : got = [a EXCEPT !.data = Corrected(@, m)]
    OBVIOUS
<1> DEFINE rec == Goto(got, AfterCot(a.call.kind))
<1>5. a = me["ALICE"] /\ a.pc = "bits" /\ CanRead("ALICE") /\ Read("ALICE") /\ Become("ALICE", rec)
    BY <1>1, <1>3, <1>4 DEF AliceOnline, A
<1>6. AtWork("ALICE", a, t)
    BY <1>2, <1>5, Names, WorkFacts
<1>7. /\ Ferret(t) /\ CallOK(t, a.cnt) /\ t.conf = conf /\ Chosen(t) /\ Count(t, "BOB") = 1
      /\ BaseSent(t, "ALICE") = 0 /\ BaseSent(t, "BOB") = 0 /\ a.call = t.call /\ a.pos = t.to.pos
      /\ a.data = DataAt(t, "ALICE", a.pc, a.at) /\ Record(a)
      /\ A.delta = Sec(t)
    BY <1>1, <1>5, <1>6, Names, FerretFacts DEF AtWork
<1>8. Passes("ALICE", 1, <<>>)
    BY <1>5, <1>6, Names, ReadPasses DEF AtWork
<1>9. m = OnlineMessage(t)
    <2>1. WasRead(t, "ALICE", a.pc, a.at) = 0
        BY <1>5 DEF WasRead
    <2>2. m = MessageOf(t, "BOB", 0)
        BY <1>2, <1>3, <1>5, <1>7, <2>1, Names, Reads
    <2> QED BY <1>7, <2>2 DEF MessageOf, BobsMessage
<1>10. Corrected(a.data, m) = RowsOf(t, "ALICE")
    <2>1. a.data = [i \in Index(t) |-> StreamRow(t, First(t) + i, FALSE)]
        BY <1>5, <1>7 DEF DataAt, Early
    <2>2. ASSUME NEW i \in Index(t)
          PROVE  (IF m[i] THEN XorDelta(a.data[i]) ELSE a.data[i]) = RowOf(t, "ALICE", i)
        <3> DEFINE r == t.chose.r[i] # t.chose.x[i]
        <3>1. m[i] = r
            BY <1>9 DEF OnlineMessage
        <3>2. RowOf(t, "ALICE", i) = StreamRow(t, First(t) + i, r)
            BY <1>7 DEF RowOf
        <3>3. r \in BOOLEAN
            OBVIOUS
        <3> HIDE DEF r
        <3>4. (IF r THEN XorDelta(StreamRow(t, First(t) + i, FALSE)) ELSE StreamRow(t, First(t) + i, FALSE))
                 = StreamRow(t, First(t) + i, r)
            BY <1>7, <3>3, StreamFlips
        <3>5. a.data[i] = StreamRow(t, First(t) + i, FALSE)
            BY <2>1
        <3> QED BY <3>1, <3>2, <3>4, <3>5
    <2>3. DOMAIN a.data = Index(t)
        BY <2>1
    <2> QED BY <2>2, <2>3 DEF Corrected, RowsOf
<1>11. PICK d : d = RowsOf(t, "ALICE")
    OBVIOUS
<1>12. /\ Record(got) /\ got.pc = a.pc /\ got.cnt = a.cnt /\ got.out = a.out
       /\ got.deltas = a.deltas /\ got.s = a.s /\ got.delta = a.delta
       /\ got.local = a.local /\ got.call = a.call /\ got.epoch = a.epoch /\ got.pos = a.pos
       /\ got.gid = a.gid /\ got.data = d /\ got.r = a.r
    <2>1. got = [a EXCEPT !.data = d]
        BY <1>4, <1>10, <1>11
    <2> QED BY <1>7, <2>1 DEF Record, Fields
<1>13. /\ Record(rec) /\ rec.pc = AfterCot(t.call.kind) /\ rec.at = 0 /\ rec.cnt = a.cnt
       /\ rec.out = a.out /\ rec.local = a.local /\ rec.call = a.call /\ rec.epoch = a.epoch
       /\ rec.deltas = a.deltas /\ rec.s = a.s /\ rec.delta = a.delta
       /\ rec.pos = t.to.pos /\ rec.gid = a.gid /\ rec.data = d /\ rec.r = a.r
    BY <1>7, <1>12 DEF Record, Fields, Goto
<1> HIDE DEF rec
<1>14. /\ Keeps(t, "ALICE", a, rec) /\ rec.pc \in {"return", "tidy", "key"}
       /\ Written(t, "ALICE", rec.pc, rec.at) = BaseSent(t, "ALICE")
       /\ WasRead(t, "ALICE", rec.pc, rec.at) = Count(t, "BOB")
    <2>1. a.pc \in {"rcot", "bits"}
        BY <1>5
    <2> QED BY <1>6, <1>11, <1>13, <2>1, Names, StreamDone
<1>15. Advances(t, "ALICE", a, rec, 1, <<>>)
    <2>1. Written(t, "ALICE", a.pc, a.at) = 0 /\ WasRead(t, "ALICE", a.pc, a.at) = 0
        BY <1>5, <1>7 DEF Written, WasRead
    <2>2. rec.pc # "idle"
        BY <1>14
    <2> QED BY <1>7, <1>14, <2>1, <2>2, Names, Empty DEF Advances
<1> QED BY <1>2, <1>5, <1>8, <1>14, <1>15, Names, Stays

(*------------------------- the actions: the end -------------------------*)
LastPlaces == {"tidy", "return", "key", "rot", "ot"}

LEMMA LastFacts ==
    ASSUME NEW p \in Party, NEW a, NEW t, AtWork(p, a, t), a.pc \in LastPlaces
    PROVE  /\ CallOK(t, a.cnt) /\ t.nr = a.cnt /\ t.conf = conf /\ Chosen(t) /\ Record(a)
           /\ a.call = t.call /\ a.epoch = t.to.epoch /\ a.pos = t.to.pos
           /\ a.gid = t.from.gid + (IF a.pc = "ot" THEN a.at * Batch ELSE 0)
           /\ a.data = (IF a.pc = "ot" /\ p = "BOB" THEN TextsBefore(t, a.at) ELSE RowsOf(t, p))
           /\ a.pc \in {"rot", "ot"} => a.start = t.nr
           /\ p = "BOB" => a.r = t.chose.r
           /\ p = "ALICE" /\ ~Ferret(t) => a.key = KeysIn(t.conf, t.to.epoch, BaseN)
           /\ p = "ALICE" => a.delta = Sec(t) /\ (~Ferret(t) => a.s = Sec(t))
           /\ a.pc = "tidy" => t.call.kind = "gen"
           /\ a.pc = "return" => t.call.kind \in {"cot", "setup"}
           /\ a.pc = "key" => t.call.kind \in HashKinds
           /\ a.pc = "rot" => t.call.kind = "rot"
           /\ a.pc = "ot" => t.call.kind \in LoopKinds /\ a.at <= Batches(t.call.len)
           /\ a.at \in Nat
<1>1. InCall(t, p, a) /\ CallOK(t, a.cnt) /\ t.conf = conf /\ Chosen(t) /\ t.nr = a.cnt /\ Record(a)
      /\ a.at \in Nat
    BY DEF AtWork, CallOK
<1>2. PosAt(t, a.pc, a.at) = t.to.pos
    BY DEF PosAt, Early, LastPlaces
<1>3. DataAt(t, p, a.pc, a.at) = (IF a.pc = "ot" /\ p = "BOB" THEN TextsBefore(t, a.at) ELSE RowsOf(t, p))
    BY DEF DataAt, Early, LastPlaces
<1>4. /\ a.pc = "tidy" => t.call.kind = "gen"
      /\ a.pc = "return" => t.call.kind \in {"cot", "setup"}
      /\ a.pc = "key" => t.call.kind \in HashKinds
      /\ a.pc = "rot" => t.call.kind = "rot"
      /\ a.pc = "ot" => t.call.kind \in LoopKinds /\ a.at <= Batches(t.call.len)
    BY <1>1 DEF InCall, StageOK
<1>5. p = "ALICE" /\ ~Ferret(t) => a.key = KeysIn(t.conf, t.to.epoch, BaseN)
    BY <1>1 DEF InCall, KeyAt, LastPlaces
<1>9. p = "ALICE" => a.delta = Sec(t) /\ (~Ferret(t) => a.s = Sec(t))
    BY <1>1 DEF InCall, LastPlaces
<1>6. a.gid = t.from.gid + (IF a.pc = "ot" THEN a.at * Batch ELSE 0)
    BY <1>1 DEF InCall
<1>7. /\ a.call = t.call /\ a.epoch = t.to.epoch /\ a.pos = t.to.pos
      /\ (p = "BOB" => a.r = t.chose.r) /\ (a.pc \in {"rot", "ot"} => a.start = t.nr)
    BY <1>1, <1>2 DEF InCall
<1>8. a.data = DataAt(t, p, a.pc, a.at)
    BY <1>1 DEF InCall
<1> QED BY <1>1, <1>3, <1>4, <1>5, <1>6, <1>7, <1>8, <1>9

\* What has been written and read there
LEMMA LastCounts ==
    ASSUME NEW t, NEW n, CallOK(t, n), NEW p \in Party, NEW pc \in LastPlaces, NEW at \in Nat
    PROVE  LET w == BaseSent(t, "ALICE") + (CASE pc = "rot" -> 1 [] pc = "ot" -> 1 + at [] OTHER -> 0)
           IN  /\ Written(t, p, pc, at) = (IF p = "ALICE" THEN w ELSE Count(t, "BOB"))
               /\ WasRead(t, p, pc, at) = (IF p = "ALICE" THEN Count(t, "BOB") ELSE w)
               /\ BaseSent(t, "ALICE") \in Nat /\ Count(t, "BOB") \in Nat /\ Count(t, "ALICE") \in Nat
<1>1. BaseSent(t, "ALICE") \in Nat /\ Count(t, "BOB") \in Nat /\ Count(t, "ALICE") \in Nat
    BY CountsOf, Names
<1>2. CASE p = "ALICE"
    BY <1>1, <1>2 DEF Written, WasRead, LastPlaces
<1>3. CASE p = "BOB"
    BY <1>1, <1>3 DEF Written, WasRead, LastPlaces
<1> QED BY <1>1, <1>2, <1>3 DEF Party

\* x is the object as it returns, with the result out.
Finished(x, out) == Goto([x EXCEPT !.out = Append(@, out), !.deltas = Append(@, x.delta)], "idle")

LEMMA Finishing ==
    ASSUME NEW p \in Party, NEW a, NEW t, AtWork(p, a, t), a.pc \in LastPlaces,
           NEW x, Record(x), x.cnt = a.cnt, x.out = a.out,
           x.deltas = a.deltas, x.s = a.s, x.delta = a.delta, x.local = a.local, x.epoch = a.epoch,
           x.pos = a.pos, x.key = a.key, x.gid = t.to.gid,
           NEW out, out = OutOf(t, p)
    PROVE  Returns(t, p, a, Finished(x, out)) /\ Finished(x, out).pc = "idle"
<1>1. /\ a.epoch = t.to.epoch /\ a.pos = t.to.pos
      /\ (p = "ALICE" /\ ~Ferret(t) => a.key = KeysIn(t.conf, t.to.epoch, BaseN))
      /\ (p = "ALICE" => a.delta = Sec(t) /\ (~Ferret(t) => a.s = Sec(t)))
    BY LastFacts
<1>2. PICK y : y = Finished(x, out)
    OBVIOUS
<1>3. PICK o : o = Append(x.out, out)
    OBVIOUS
<1>4. PICK d : d = Append(x.deltas, x.delta)
    OBVIOUS
<1>5. PICK z : z = [x EXCEPT !.out = o, !.deltas = d]
    OBVIOUS
<1>6. y = [z EXCEPT !.pc = "idle", !.at = 0]
    BY <1>2, <1>3, <1>4, <1>5 DEF Finished, Goto
<1>7. /\ Record(z) /\ z.cnt = a.cnt /\ z.out = o /\ z.local = a.local /\ z.epoch = a.epoch
      /\ z.pos = a.pos /\ z.key = a.key /\ z.gid = t.to.gid
      /\ z.deltas = d /\ z.s = a.s /\ z.delta = a.delta
    BY <1>5 DEF Record, Fields
<1>8. /\ Record(y) /\ y.pc = "idle" /\ y.at = 0 /\ y.cnt = a.cnt /\ y.out = o /\ y.local = a.local
      /\ y.epoch = a.epoch /\ y.pos = a.pos /\ y.key = a.key /\ y.gid = t.to.gid
      /\ y.deltas = d /\ y.s = a.s /\ y.delta = a.delta
    BY <1>6, <1>7 DEF Record, Fields
<1>9. a.pc # "idle" /\ o = Append(a.out, OutOf(t, p)) /\ d = Append(a.deltas, a.delta)
    BY <1>3, <1>4 DEF LastPlaces
<1>10. Returns(t, p, a, y)
    BY <1>1, <1>8, <1>9 DEF Returns
<1> QED BY <1>2, <1>8, <1>10

LEMMA PlainReturn ==
    ASSUME NEW cs, NEW h, Inv(cs, h), NEW p \in Party, NEW a, a = me[p], a.pc \in {"tidy", "return"},
           NEW t, t = h[a.cnt], NEW out, out = OutOf(t, p), Finish(p, a, out), Passes(p, 0, <<>>)
    PROVE  Inv(cs, h)'
<1>1. a.pc # "idle" /\ a.pc \in LastPlaces
    BY DEF LastPlaces
<1>2. AtWork(p, a, t)
    BY <1>1, WorkFacts
<1>3. /\ CallOK(t, a.cnt) /\ Record(a) /\ t.call.kind \notin HashKinds /\ a.at \in Nat
      /\ a.gid = t.from.gid + 0
    BY <1>1, <1>2, LastFacts DEF HashKinds
<1>4. a.gid = t.to.gid
    <2>1. t.to.gid = t.from.gid + 0
        BY <1>3, PlacesOf DEF KeysOfCall
    <2> QED BY <1>3, <2>1
<1>5. PICK b : b = Finished(a, out)
    OBVIOUS
<1>6. Become(p, b)
    BY <1>5 DEF Finish, Finished
<1>7. Returns(t, p, a, b) /\ b.pc = "idle"
    BY <1>1, <1>2, <1>3, <1>4, <1>5, Finishing
<1>8. Advances(t, p, a, b, 0, <<>>)
    <2>1. Count(t, "ALICE") = BaseSent(t, "ALICE")
        BY <1>3, KindsOf
    <2>2. /\ Written(t, p, a.pc, a.at) = Count(t, p) /\ WasRead(t, p, a.pc, a.at) = Count(t, Peer(p))
          /\ Count(t, p) \in Nat /\ Count(t, Peer(p)) \in Nat
        <3>1. CASE p = "ALICE"
            BY <1>1, <1>3, <2>1, <3>1, LastCounts, Names
        <3>2. CASE p = "BOB"
            BY <1>1, <1>3, <2>1, <3>2, LastCounts, Names
        <3> QED BY <3>1, <3>2 DEF Party
    <2> QED BY <1>7, <2>2, Empty DEF Advances
<1> QED BY <1>6, <1>7, <1>8, Ends

LEMMA ReturnCotStep ==
    ASSUME NEW cs, NEW h, Inv(cs, h), NEW p \in Party, ReturnCot(p)
    PROVE  Inv(cs, h)'
<1>1. PICK a : a = me[p]
    OBVIOUS
<1>2. PICK t : t = h[a.cnt]
    OBVIOUS
<1>3. a.pc = "return" /\ Finish(p, a, a.data) /\ Silent /\ a.pc \in {"tidy", "return"}
    BY <1>1 DEF ReturnCot
<1>4. AtWork(p, a, t)
    BY <1>1, <1>2, <1>3, WorkFacts
<1>5. a.data = RowsOf(t, p) /\ t.call.kind \in {"cot", "setup"}
    BY <1>3, <1>4, LastFacts DEF LastPlaces
<1>6. a.data = OutOf(t, p)
    BY <1>5 DEF OutOf, AlicesOut, BobsOut, Party
<1>7. Passes(p, 0, <<>>)
    BY <1>3, <1>4, SilentPasses DEF AtWork
<1> QED BY <1>1, <1>2, <1>3, <1>6, <1>7, PlainReturn

LEMMA BobTidyStep ==
    ASSUME NEW cs, NEW h, Inv(cs, h), BobTidy
    PROVE  Inv(cs, h)'
<1>1. PICK a : a = B
    OBVIOUS
<1>2. PICK t : t = h[a.cnt]
    OBVIOUS
<1>3. PICK out : out = [i \in DOMAIN a.data |-> LeastBit(a.data[i], a.r[i])]
    OBVIOUS
<1>4. /\ a = me["BOB"] /\ a.pc = "tidy" /\ Finish("BOB", a, out) /\ Silent
      /\ a.pc \in {"tidy", "return"} /\ a.pc \in LastPlaces /\ a.pc # "ot"
    BY <1>1, <1>3 DEF BobTidy, B, LastPlaces
<1>5. AtWork("BOB", a, t)
    BY <1>2, <1>4, Names, WorkFacts
<1>6. a.data = RowsOf(t, "BOB") /\ a.r = t.chose.r /\ t.call.kind = "gen"
    BY <1>4, <1>5, Names, LastFacts
<1>7. out = OutOf(t, "BOB")
    <2>1. out = [i \in Index(t) |-> LeastBit(RowOf(t, "BOB", i), t.chose.r[i])]
        BY <1>3, <1>6 DEF RowsOf
    <2> QED BY <1>6, <2>1 DEF OutOf, BobsOut
<1>8. Passes("BOB", 0, <<>>)
    BY <1>4, <1>5, Names, SilentPasses DEF AtWork
<1> QED BY <1>2, <1>4, <1>7, <1>8, Names, PlainReturn

LEMMA AliceTidyStep ==
    ASSUME NEW cs, NEW h, Inv(cs, h), AliceTidy
    PROVE  Inv(cs, h)'
<1>1. PICK a : a = A
    OBVIOUS
<1>2. PICK t : t = h[a.cnt]
    OBVIOUS
<1>3. PICK out : out = [i \in DOMAIN a.data |-> LeastBit(a.data[i], FALSE)]
    OBVIOUS
<1>4. /\ a = me["ALICE"] /\ a.pc = "tidy" /\ Finish("ALICE", a, out) /\ Send("ALICE", <<>>)
      /\ a.pc \in {"tidy", "return"} /\ a.pc \in LastPlaces /\ a.pc # "ot"
    BY <1>1, <1>3 DEF AliceTidy, A, LastPlaces
<1>5. AtWork("ALICE", a, t)
    BY <1>2, <1>4, Names, WorkFacts
<1>6. a.data = RowsOf(t, "ALICE") /\ t.call.kind = "gen"
    BY <1>4, <1>5, Names, LastFacts
<1>7. out = OutOf(t, "ALICE")
    <2>1. out = [i \in Index(t) |-> LeastBit(RowOf(t, "ALICE", i), FALSE)]
        BY <1>3, <1>6 DEF RowsOf
    <2> QED BY <1>6, <2>1 DEF OutOf, AlicesOut
<1>8. Passes("ALICE", 0, <<>>)
    BY <1>4, <1>5, Names, Empty, SendPasses DEF AtWork
<1> QED BY <1>2, <1>4, <1>7, <1>8, Names, PlainReturn

\* Where a call that uses a hash begins with it
Keyed(a, k) == Goto([a EXCEPT !.start = k], Stage(a.call.kind))

LEMMA TextsStart ==
    ASSUME NEW t, NEW n, CallOK(t, n)
    PROVE  TextsBefore(t, 0) = RowsOf(t, "BOB")
<1>1. t.call.len \in Nat
    BY PlacesOf, CallFacts
<1>2. ASSUME NEW i \in Index(t)
      PROVE  ~(i \div Batch < 0)
    <2>1. i \in Nat
        BY <1>1 DEF Index
    <2>2. Batch \in Nat \ {0}
        BY CotAssumption
    <2>3. i \div Batch \in Nat
        BY <2>1, <2>2, Divided
    <2> QED BY <2>3
<1> QED BY <1>2 DEF TextsBefore, RowsOf

LEMMA KeyDone ==
    ASSUME NEW p \in Party, NEW a, NEW t, AtWork(p, a, t), a.pc = "key",
           NEW b, b = Keyed(a, t.nr)
    PROVE  Keeps(t, p, a, b) /\ b.pc \in {"rot", "ot"} /\ b.at = 0
<1>1. a.pc \in LastPlaces
    BY DEF LastPlaces
<1>2. /\ CallOK(t, a.cnt) /\ Record(a) /\ a.call = t.call /\ a.epoch = t.to.epoch /\ a.pos = t.to.pos
      /\ a.gid = t.from.gid + 0 /\ a.data = RowsOf(t, p) /\ t.call.kind \in HashKinds
      /\ (p = "BOB" => a.r = t.chose.r)
      /\ (p = "ALICE" /\ ~Ferret(t) => a.key = KeysIn(t.conf, t.to.epoch, BaseN))
    BY <1>1, LastFacts
<1>0. p = "ALICE" => a.delta = Sec(t) /\ (~Ferret(t) => a.s = Sec(t))
    BY <1>1, LastFacts
<1>3. PICK y : y = [a EXCEPT !.start = t.nr]
    OBVIOUS
<1>4. /\ Record(y) /\ y.cnt = a.cnt /\ y.out = a.out /\ y.local = a.local /\ y.call = t.call
      /\ y.deltas = a.deltas /\ y.s = a.s /\ y.delta = a.delta
      /\ y.epoch = a.epoch /\ y.pos = a.pos /\ y.gid = a.gid /\ y.data = a.data /\ y.r = a.r
      /\ y.key = a.key /\ y.start = t.nr
    BY <1>2, <1>3 DEF Record, Fields
<1>5. PICK l : l = Stage(t.call.kind)
    OBVIOUS
<1>6. b = [y EXCEPT !.pc = l, !.at = 0]
    BY <1>2, <1>3, <1>5 DEF Keyed, Goto
<1>7. /\ Record(b) /\ b.pc = l /\ b.at = 0 /\ b.cnt = a.cnt /\ b.out = a.out /\ b.local = a.local
      /\ b.deltas = a.deltas /\ b.s = a.s /\ b.delta = a.delta
      /\ b.call = t.call /\ b.epoch = a.epoch /\ b.pos = a.pos /\ b.gid = a.gid /\ b.data = a.data
      /\ b.r = a.r /\ b.key = a.key /\ b.start = t.nr
    BY <1>4, <1>6 DEF Record, Fields
<1>8. \/ l = "rot" /\ t.call.kind = "rot"
      \/ l = "ot" /\ t.call.kind \in LoopKinds
    BY <1>2, <1>5 DEF Stage, HashKinds, LoopKinds
<1>9. t.call.len \in Nat /\ t.from.gid \in Nat
    BY <1>2, PlacesOf, CallFacts DEF Places
<1>10. StageOK(t, p, l, 0)
    <2>1. 0 <= Batches(t.call.len)
        BY <1>9, BatchFacts
    <2> QED BY <1>8, <2>1 DEF StageOK
<1>11. DataAt(t, p, l, 0) = RowsOf(t, p)
    BY <1>2, <1>8, TextsStart DEF DataAt, Early
<1>12. PosAt(t, l, 0) = t.to.pos
    BY <1>8 DEF PosAt, Early
<1>13. KeyAt(t, p, l, 0) = IF p = "BOB" THEN PointsIn(t, 0) ELSE KeysIn(t.conf, t.to.epoch, BaseN)
    BY <1>8 DEF KeyAt
<1>14. InCall(t, p, b)
    <2>1. l \notin {"check", "sum", "points"}
        BY <1>8
    <2>2. b.gid = t.from.gid + (IF l = "ot" THEN 0 * Batch ELSE 0)
        BY <1>2, <1>7, <1>9, CotAssumption
    <2>3. p # "BOB" => p = "ALICE"
        BY DEF Party
    <2> QED BY <1>0, <1>2, <1>7, <1>10, <1>11, <1>12, <1>13, <2>1, <2>2, <2>3 DEF InCall
<1>15. a.pc # "idle" /\ b.pc # "idle" /\ b.at \in Nat
    BY <1>7, <1>8
<1>16. \A k \in Slot : b.local[k].plus \in Vector
    BY <1>7 DEF AtWork
<1> QED BY <1>7, <1>8, <1>14, <1>15, <1>16 DEF Keeps


LEMMA AliceSendKeyStep ==
    ASSUME NEW cs, NEW h, Inv(cs, h), AliceSendKey
    PROVE  Inv(cs, h)'
<1>1. PICK a : a = A
    OBVIOUS
<1>2. PICK t : t = h[a.cnt]
    OBVIOUS
<1>3. PICK ms : ms = <<a.cnt>>
    OBVIOUS
<1>4. PICK b : b = Keyed(a, a.cnt)
    OBVIOUS
<1>5. a = me["ALICE"] /\ a.pc = "key" /\ Send("ALICE", ms) /\ Become("ALICE", b)
    BY <1>1, <1>3, <1>4 DEF AliceSendKey, A, Keyed
<1>6. AtWork("ALICE", a, t)
    BY <1>2, <1>5, Names, WorkFacts
<1>7. CallOK(t, a.cnt) /\ t.nr = a.cnt
    BY <1>6 DEF AtWork, CallOK
<1>8. IsSeq(ms) /\ Len(ms) = 1 /\ ms[1] = t.nr
    BY <1>3, <1>7, Single
<1>9. Passes("ALICE", 0, ms)
    BY <1>5, <1>6, <1>8, Names, SendPasses DEF AtWork
<1>10. Keeps(t, "ALICE", a, b) /\ b.pc \in {"rot", "ot"} /\ b.at = 0
    BY <1>4, <1>5, <1>6, <1>7, Names, KeyDone
<1>11. Advances(t, "ALICE", a, b, 0, ms)
    <2>1. BaseSent(t, "ALICE") \in Nat /\ Count(t, "BOB") \in Nat
        BY <1>7, CountsOf, Names
    <2>2. /\ Written(t, "ALICE", a.pc, a.at) = BaseSent(t, "ALICE")
          /\ Written(t, "ALICE", b.pc, b.at) = BaseSent(t, "ALICE") + 1
          /\ WasRead(t, "ALICE", a.pc, a.at) = Count(t, "BOB")
          /\ WasRead(t, "ALICE", b.pc, b.at) = Count(t, "BOB")
        BY <1>5, <1>10, <2>1 DEF Written, WasRead
    <2>3. MessageOf(t, "ALICE", BaseSent(t, "ALICE") + 1 - 1) = t.nr
        <3>1. PICK o : o = BaseSent(t, "ALICE") + 1 - 1
            OBVIOUS
        <3>2. o - BaseSent(t, "ALICE") - 1 = -1 /\ ~(-1 < -1)
            BY <2>1, <3>1
        <3>3. MessageOf(t, "ALICE", o) = t.nr
            BY <3>2 DEF MessageOf, AlicesMessage
        <3> QED BY <3>1, <3>3
    <2> QED BY <1>8, <1>10, <2>1, <2>2, <2>3 DEF Advances
<1> QED BY <1>2, <1>5, <1>9, <1>10, <1>11, Names, Stays

LEMMA BobRecvKeyStep ==
    ASSUME NEW cs, NEW h, Inv(cs, h), BobRecvKey
    PROVE  Inv(cs, h)'
<1>1. PICK a : a = B
    OBVIOUS
<1>2. PICK t : t = h[a.cnt]
    OBVIOUS
<1>3. PICK m : m = Incoming("BOB")
    OBVIOUS
<1>4. PICK b : b = Keyed(a, m)
    OBVIOUS
<1>5. a = me["BOB"] /\ a.pc = "key" /\ CanRead("BOB") /\ Read("BOB") /\ Become("BOB", b)
    BY <1>1, <1>3, <1>4 DEF BobRecvKey, B, Keyed
<1>6. AtWork("BOB", a, t)
    BY <1>2, <1>5, Names, WorkFacts
<1>7. CallOK(t, a.cnt) /\ t.nr = a.cnt
    BY <1>6 DEF AtWork, CallOK
<1>8. Passes("BOB", 1, <<>>)
    BY <1>5, <1>6, Names, ReadPasses DEF AtWork
<1>9. BaseSent(t, "ALICE") \in Nat /\ Count(t, "BOB") \in Nat /\ Count(t, "ALICE") \in Nat
    BY <1>7, CountsOf, Names
<1>10. m = t.nr
    <2>1. WasRead(t, "BOB", a.pc, a.at) = BaseSent(t, "ALICE")
        BY <1>5 DEF WasRead
    <2>2. t.call.kind \in HashKinds /\ t.call \in Calls
        BY <1>5, <1>6, <1>7, Names, LastFacts, PlacesOf DEF LastPlaces
    <2>3. Batches(t.call.len) \in Nat
        BY <2>2, CallFacts, BatchFacts
    <2>4. BaseSent(t, "ALICE") < Count(t, "ALICE")
        BY <1>7, <1>9, <2>2, <2>3, KindsOf DEF HashKinds
    <2>5. m = MessageOf(t, "ALICE", BaseSent(t, "ALICE"))
        BY <1>2, <1>3, <1>5, <2>1, <2>4, Names, Reads
    <2>6. BaseSent(t, "ALICE") - BaseSent(t, "ALICE") - 1 = -1 /\ ~(-1 < -1)
        BY <1>9
    <2> QED BY <2>5, <2>6 DEF MessageOf, AlicesMessage
<1>11. Keeps(t, "BOB", a, b) /\ b.pc \in {"rot", "ot"} /\ b.at = 0
    BY <1>4, <1>5, <1>6, <1>10, Names, KeyDone
<1>12. Advances(t, "BOB", a, b, 1, <<>>)
    <2>1. /\ WasRead(t, "BOB", a.pc, a.at) = BaseSent(t, "ALICE")
          /\ WasRead(t, "BOB", b.pc, b.at) = BaseSent(t, "ALICE") + 1
          /\ Written(t, "BOB", a.pc, a.at) = Count(t, "BOB")
          /\ Written(t, "BOB", b.pc, b.at) = Count(t, "BOB")
        BY <1>5, <1>9, <1>11 DEF Written, WasRead
    <2> QED BY <1>9, <1>11, <2>1, Empty DEF Advances
<1> QED BY <1>2, <1>5, <1>8, <1>11, <1>12, Names, Stays

LEMMA HashIs ==
    ASSUME NEW t, NEW n, CallOK(t, n), t.conf = conf, NEW j \in Nat, NEW a, a.start = t.nr,
           a.gid = t.from.gid + j * Batch, NEW x, NEW i
    PROVE  Hash(a, x, i) = HashOf(t, j, x, i)
BY DEF Hash, HashOf

\* All random OTs of a call, and the keys they use up
LEMMA RotDone ==
    ASSUME NEW cs, NEW h, Inv(cs, h), NEW p \in Party, NEW a, a = me[p], a.pc = "rot",
           NEW t, t = h[a.cnt], NEW out, out = OutOf(t, p), Finish(p, AllKeys(a), out), Silent
    PROVE  Inv(cs, h)'
<1>1. a.pc # "idle" /\ a.pc \in LastPlaces /\ a.pc # "ot"
    BY DEF LastPlaces
<1>2. AtWork(p, a, t)
    BY <1>1, WorkFacts
<1>3. /\ CallOK(t, a.cnt) /\ Record(a) /\ t.call.kind = "rot" /\ a.at \in Nat
      /\ a.gid = t.from.gid + 0 /\ a.call = t.call
    BY <1>1, <1>2, LastFacts
<1>4. PICK x : x = AllKeys(a)
    OBVIOUS
<1>5. PICK k : k = a.gid + Batch * Batches(t.call.len)
    OBVIOUS
<1>6. x = [a EXCEPT !.gid = k]
    BY <1>3, <1>4, <1>5 DEF AllKeys
<1>7. /\ Record(x) /\ x.cnt = a.cnt /\ x.out = a.out /\ x.local = a.local /\ x.epoch = a.epoch
      /\ x.deltas = a.deltas /\ x.s = a.s /\ x.delta = a.delta
      /\ x.pos = a.pos /\ x.key = a.key /\ x.gid = k
    BY <1>3, <1>6 DEF Record, Fields
<1>8. k = t.to.gid
    <2>1. t.to.gid = t.from.gid + Batch * Batches(t.call.len) /\ t.from.gid \in Nat
        BY <1>3, PlacesOf DEF KeysOfCall, HashKinds, Places
    <2> QED BY <1>3, <1>5, <2>1
<1>9. PICK b : b = Finished(x, out)
    OBVIOUS
<1>10. Become(p, b)
    BY <1>4, <1>9 DEF Finish, Finished
<1>11. Returns(t, p, a, b) /\ b.pc = "idle"
    BY <1>1, <1>2, <1>7, <1>8, <1>9, Finishing
<1>12. Advances(t, p, a, b, 0, <<>>)
    <2>1. Count(t, "ALICE") = BaseSent(t, "ALICE") + 1
        BY <1>3, KindsOf
    <2>2. /\ Written(t, p, a.pc, a.at) = Count(t, p) /\ WasRead(t, p, a.pc, a.at) = Count(t, Peer(p))
          /\ Count(t, p) \in Nat /\ Count(t, Peer(p)) \in Nat
        <3>1. CASE p = "ALICE"
            BY <1>1, <1>3, <2>1, <3>1, LastCounts, Names
        <3>2. CASE p = "BOB"
            BY <1>1, <1>3, <2>1, <3>2, LastCounts, Names
        <3> QED BY <3>1, <3>2 DEF Party
    <2> QED BY <1>11, <2>2, Empty DEF Advances
<1>13. Passes(p, 0, <<>>)
    BY <1>2, SilentPasses DEF AtWork
<1> QED BY <1>10, <1>11, <1>12, <1>13, Ends

LEMMA AliceRotStep ==
    ASSUME NEW cs, NEW h, Inv(cs, h), AliceRot
    PROVE  Inv(cs, h)'
<1>1. PICK a : a = A
    OBVIOUS
<1>2. PICK t : t = h[a.cnt]
    OBVIOUS
<1>3. PICK out : out = [i \in DOMAIN a.data |->
                          <<Hash(a, a.data[i], i), Hash(a, XorDelta(a.data[i]), i)>>]
    OBVIOUS
<1>4. /\ a = me["ALICE"] /\ a.pc = "rot" /\ Finish("ALICE", AllKeys(a), out) /\ Silent
      /\ a.pc \in LastPlaces /\ a.pc # "ot"
    BY <1>1, <1>3 DEF AliceRot, A, LastPlaces
<1>5. AtWork("ALICE", a, t)
    BY <1>2, <1>4, Names, WorkFacts
<1>6. /\ CallOK(t, a.cnt) /\ t.conf = conf /\ a.data = RowsOf(t, "ALICE") /\ a.start = t.nr
      /\ a.gid = t.from.gid + 0 /\ t.call.kind = "rot" /\ a.delta = Sec(t)
    BY <1>4, <1>5, Names, LastFacts
<1>7. a.gid = t.from.gid + 0 * Batch
    BY <1>6, CotAssumption
<1>8. ASSUME NEW i \in Index(t)
      PROVE  /\ a.data[i] = RowOf(t, "ALICE", i)
             /\ Hash(a, a.data[i], i) = HashOf(t, 0, RowOf(t, "ALICE", i), i)
             /\ Hash(a, XorDelta(a.data[i]), i) = HashOf(t, 0, Plus(t, RowOf(t, "ALICE", i)), i)
    <2>1. PICK x : x = RowOf(t, "ALICE", i)
        OBVIOUS
    <2>2. a.data[i] = x
        BY <1>6, <2>1 DEF RowsOf
    <2>3. \A y : Hash(a, y, i) = HashOf(t, 0, y, i)
        BY <1>6, <1>7, HashIs
    <2>4. XorDelta(x) = Plus(t, x)
        BY <1>1, <1>6, PlusIs
    <2> QED BY <2>1, <2>2, <2>3, <2>4
<1>9. out = OutOf(t, "ALICE")
    <2>1. DOMAIN a.data = Index(t)
        BY <1>6 DEF RowsOf
    <2> QED BY <1>3, <1>6, <1>8, <2>1 DEF OutOf, AlicesOut
<1> QED BY <1>2, <1>4, <1>9, Names, RotDone

LEMMA BobRotStep ==
    ASSUME NEW cs, NEW h, Inv(cs, h), BobRot
    PROVE  Inv(cs, h)'
<1>1. PICK a : a = B
    OBVIOUS
<1>2. PICK t : t = h[a.cnt]
    OBVIOUS
<1>3. PICK out : out = [i \in DOMAIN a.data |-> Hash(a, a.data[i], i)]
    OBVIOUS
<1>4. /\ a = me["BOB"] /\ a.pc = "rot" /\ Finish("BOB", AllKeys(a), out) /\ Silent
      /\ a.pc \in LastPlaces /\ a.pc # "ot"
    BY <1>1, <1>3 DEF BobRot, B, LastPlaces
<1>5. AtWork("BOB", a, t)
    BY <1>2, <1>4, Names, WorkFacts
<1>6. /\ CallOK(t, a.cnt) /\ t.conf = conf /\ a.data = RowsOf(t, "BOB") /\ a.start = t.nr
      /\ a.gid = t.from.gid + 0 /\ t.call.kind = "rot"
    BY <1>4, <1>5, Names, LastFacts
<1>7. a.gid = t.from.gid + 0 * Batch
    BY <1>6, CotAssumption
<1>8. ASSUME NEW i \in Index(t)
      PROVE  Hash(a, a.data[i], i) = HashOf(t, 0, RowOf(t, "BOB", i), i)
    <2>1. PICK x : x = RowOf(t, "BOB", i)
        OBVIOUS
    <2>2. a.data[i] = x
        BY <1>6, <2>1 DEF RowsOf
    <2>3. \A y : Hash(a, y, i) = HashOf(t, 0, y, i)
        BY <1>6, <1>7, HashIs
    <2> QED BY <2>1, <2>2, <2>3
<1>9. out = OutOf(t, "BOB")
    <2>1. DOMAIN a.data = Index(t)
        BY <1>6 DEF RowsOf
    <2> QED BY <1>3, <1>6, <1>8, <2>1 DEF OutOf, BobsOut
<1> QED BY <1>2, <1>4, <1>9, Names, RotDone

\* All batches are done.
LEMMA AllTexts ==
    ASSUME NEW t, NEW n, CallOK(t, n)
    PROVE  TextsBefore(t, Batches(t.call.len)) = [i \in Index(t) |-> TextOf(t, i, t.chose.r[i])]
<1>1. t.call.len \in Nat
    BY PlacesOf, CallFacts
<1>2. ASSUME NEW i \in Index(t)
      PROVE  i \div Batch < Batches(t.call.len)
    <2>1. i \in 0..(t.call.len - 1)
        BY DEF Index
    <2>2. i \div Batch \in 0..(Batches(t.call.len) - 1) /\ Batches(t.call.len) \in Nat
        BY <1>1, <2>1, BatchFacts
    <2> QED BY <2>2
<1> QED BY <1>2 DEF TextsBefore

\* A call that sends batches returns; the keys of all batches have been used up.
LEMMA LoopDone ==
    ASSUME NEW p \in Party, NEW a, NEW t, AtWork(p, a, t), a.pc = "ot", a.at = Batches(a.call.len),
           NEW out, out = OutOf(t, p), NEW b, b = Finished(a, out)
    PROVE  Returns(t, p, a, b) /\ b.pc = "idle"
<1>1. a.pc \in LastPlaces
    BY DEF LastPlaces
<1>2. /\ CallOK(t, a.cnt) /\ Record(a) /\ a.call = t.call /\ a.gid = t.from.gid + a.at * Batch
      /\ t.call.kind \in LoopKinds
    BY <1>1, LastFacts
<1>3. a.gid = t.to.gid
    <2>1. t.to.gid = t.from.gid + Batch * Batches(t.call.len)
        BY <1>2, PlacesOf DEF KeysOfCall, HashKinds, LoopKinds
    <2>2. Batches(t.call.len) \in Nat
        BY <1>2, PlacesOf, CallFacts, BatchFacts
    <2>3. Batches(t.call.len) * Batch = Batch * Batches(t.call.len)
        BY <2>2, CotAssumption
    <2> QED BY <1>2, <2>1, <2>3
<1> QED BY <1>1, <1>2, <1>3, Finishing

LEMMA ReturnOtStep ==
    ASSUME NEW cs, NEW h, Inv(cs, h), NEW p \in Party, ReturnOt(p)
    PROVE  Inv(cs, h)'
<1>1. PICK a : a = me[p]
    OBVIOUS
<1>2. PICK t : t = h[a.cnt]
    OBVIOUS
<1>3. /\ a.pc = "ot" /\ a.at = Batches(a.call.len) /\ a.call.kind = "ot" /\ Finish(p, a, a.data)
      /\ Silent /\ a.pc # "idle" /\ a.pc \in LastPlaces
    BY <1>1 DEF ReturnOt, LastPlaces
<1>4. AtWork(p, a, t)
    BY <1>1, <1>2, <1>3, WorkFacts
<1>5. /\ CallOK(t, a.cnt) /\ a.call = t.call /\ a.at \in Nat
      /\ a.data = (IF p = "BOB" THEN TextsBefore(t, a.at) ELSE RowsOf(t, p))
    BY <1>3, <1>4, LastFacts
<1>6. a.data = OutOf(t, p)
    BY <1>3, <1>5, Names DEF OutOf, AlicesOut, BobsOut, Party
<1>7. PICK out : out = a.data
    OBVIOUS
<1>8. PICK b : b = Finished(a, out)
    OBVIOUS
<1>9. Become(p, b)
    BY <1>3, <1>7, <1>8 DEF Finish, Finished
<1>10. Returns(t, p, a, b) /\ b.pc = "idle"
    BY <1>3, <1>4, <1>6, <1>7, <1>8, LoopDone
<1>11. Advances(t, p, a, b, 0, <<>>)
    <2>1. Count(t, "ALICE") = BaseSent(t, "ALICE") + 1 + a.at
        BY <1>3, <1>5, KindsOf
    <2>2. /\ Written(t, p, a.pc, a.at) = Count(t, p) /\ WasRead(t, p, a.pc, a.at) = Count(t, Peer(p))
          /\ Count(t, p) \in Nat /\ Count(t, Peer(p)) \in Nat
        <3>1. CASE p = "ALICE"
            BY <1>3, <1>5, <2>1, <3>1, LastCounts, Names
        <3>2. CASE p = "BOB"
            BY <1>3, <1>5, <2>1, <3>2, LastCounts, Names
        <3> QED BY <3>1, <3>2 DEF Party
    <2> QED BY <1>10, <2>2, Empty DEF Advances
<1>12. Passes(p, 0, <<>>)
    BY <1>3, <1>4, SilentPasses DEF AtWork
<1> QED BY <1>1, <1>2, <1>9, <1>10, <1>11, <1>12, Ends

\* One batch further
LEMMA BatchDone ==
    ASSUME NEW p \in Party, NEW a, NEW t, AtWork(p, a, t), a.pc = "ot", a.at < Batches(a.call.len),
           NEW b, Record(b), b.pc = "ot", b.at = a.at + 1, b.cnt = a.cnt, b.out = a.out,
           b.deltas = a.deltas, b.s = a.s, b.delta = a.delta,
           b.local = a.local, b.call = a.call, b.epoch = a.epoch, b.pos = a.pos, b.key = a.key,
           b.r = a.r, b.start = a.start, b.gid = a.gid + Batch,
           b.data = (IF p = "BOB" THEN TextsBefore(t, a.at + 1) ELSE a.data)
    PROVE  Keeps(t, p, a, b)
<1>1. a.pc \in LastPlaces
    BY DEF LastPlaces
<1>2. /\ CallOK(t, a.cnt) /\ a.call = t.call /\ a.epoch = t.to.epoch /\ a.pos = t.to.pos
      /\ a.gid = t.from.gid + a.at * Batch /\ t.call.kind \in LoopKinds /\ a.start = t.nr
      /\ a.data = (IF p = "BOB" THEN TextsBefore(t, a.at) ELSE RowsOf(t, p))
      /\ (p = "BOB" => a.r = t.chose.r)
      /\ (p = "ALICE" /\ ~Ferret(t) => a.key = KeysIn(t.conf, t.to.epoch, BaseN))
      /\ a.at \in Nat
    BY <1>1, LastFacts
<1>0. p = "ALICE" => a.delta = Sec(t) /\ (~Ferret(t) => a.s = Sec(t))
    BY <1>1, LastFacts
<1>3. Batches(t.call.len) \in Nat /\ t.from.gid \in Nat
    BY <1>2, PlacesOf, CallFacts, BatchFacts DEF Places
<1>4. b.gid = t.from.gid + b.at * Batch
    <2>1. (a.at + 1) * Batch = a.at * Batch + Batch /\ a.at * Batch \in Int
        BY <1>2, CotAssumption, Distribute
    <2> QED BY <1>2, <1>3, <2>1, CotAssumption
<1>5. StageOK(t, p, b.pc, b.at)
    <2>1. b.at <= Batches(t.call.len)
        BY <1>2, <1>3
    <2> QED BY <1>2, <2>1 DEF StageOK
<1>6. b.data = DataAt(t, p, b.pc, b.at)
    BY <1>2 DEF DataAt, Early
<1>7. b.pos = PosAt(t, b.pc, b.at)
    BY <1>2 DEF PosAt, Early
<1>8. p = "ALICE" => KeyAt(t, p, b.pc, b.at) = KeysIn(t.conf, t.to.epoch, BaseN)
    BY DEF KeyAt
<1>9. InCall(t, p, b)
    <2>1. p # "BOB" => p = "ALICE"
        BY DEF Party
    <2> QED BY <1>0, <1>2, <1>4, <1>5, <1>6, <1>7, <1>8, <2>1 DEF InCall
<1>10. a.pc # "idle" /\ b.pc # "idle" /\ b.at \in Nat
    BY <1>2
<1>11. \A k \in Slot : b.local[k].plus \in Vector
    BY DEF AtWork
<1> QED BY <1>9, <1>10, <1>11 DEF Keeps

\* What ALICE writes for item i of a batch
LEMMA PadsAre ==
    ASSUME NEW a, a = A, NEW t, NEW n, CallOK(t, n), t.conf = conf, a.start = t.nr, a.at \in Nat,
           a.gid = t.from.gid + a.at * Batch, a.call = t.call, a.cnt = t.nr,
           a.delta = Sec(t), NEW i, NEW x, NEW side
    PROVE  /\ Pad(i, x, side) = PadOf(t, a.at, i, x, side)
           /\ XorDelta(x) = Plus(t, x)
           /\ Message(a, i, side) = TextOf(t, i, side)
<1>1. /\ Hash(a, x, i % Batch) = HashOf(t, a.at, x, i % Batch)
      /\ XorDelta(x) = Plus(t, x)
    BY PlusIs DEF Hash, HashOf
<1>2. Message(a, i, side) = TextOf(t, i, side)
    BY DEF Message, TextOf
<1> QED BY <1>1, <1>2 DEF Pad, PadOf

LEMMA AliceBatchStep ==
    ASSUME NEW cs, NEW h, Inv(cs, h), AliceBatch
    PROVE  Inv(cs, h)'
<1>1. PICK a : a = A
    OBVIOUS
<1>2. PICK t : t = h[a.cnt]
    OBVIOUS
<1>3. PICK m : m = [i \in InBatch(a) |-> <<Pad(i, a.data[i], FALSE), Pad(i, XorDelta(a.data[i]), TRUE)>>]
    OBVIOUS
<1>4. PICK ms : ms = <<m>>
    OBVIOUS
<1> DEFINE rec == [Loop(a) EXCEPT !.gid = @ + KeysUsed(a.call.len, a.at)]
<1>5. /\ a = me["ALICE"] /\ a.pc = "ot" /\ a.at < Batches(a.call.len) /\ Write("ALICE", ms)
      /\ Become("ALICE", rec) /\ a.pc \in LastPlaces /\ a.pc # "idle"
    BY <1>1, <1>3, <1>4 DEF AliceBatch, A, LastPlaces
<1>6. AtWork("ALICE", a, t)
    BY <1>2, <1>5, Names, WorkFacts
<1>7. /\ CallOK(t, a.cnt) /\ t.conf = conf /\ a.data = RowsOf(t, "ALICE") /\ a.start = t.nr
      /\ a.gid = t.from.gid + a.at * Batch /\ a.call = t.call /\ a.at \in Nat /\ Record(a)
      /\ a.cnt = t.nr /\ t.call.kind \in LoopKinds /\ a.delta = Sec(t)
    BY <1>5, <1>6, Names, LastFacts
<1>8. /\ Record(rec) /\ rec.pc = "ot" /\ rec.at = a.at + 1 /\ rec.cnt = a.cnt /\ rec.out = a.out
      /\ rec.deltas = a.deltas /\ rec.s = a.s /\ rec.delta = a.delta
      /\ rec.local = a.local /\ rec.call = a.call /\ rec.epoch = a.epoch /\ rec.pos = a.pos
      /\ rec.key = a.key /\ rec.r = a.r /\ rec.start = a.start /\ rec.gid = a.gid + Batch
      /\ rec.data = a.data
    BY <1>5, <1>7 DEF Record, Fields, Loop, KeysUsed
<1> HIDE DEF rec
<1>9. Keeps(t, "ALICE", a, rec)
    BY <1>5, <1>6, <1>8, Names, BatchDone
<1>10. IsSeq(ms) /\ Len(ms) = 1 /\ ms[1] = m
    BY <1>4, Single
<1>11. Passes("ALICE", 0, ms)
    BY <1>5, <1>6, <1>10, Names, WritePasses DEF AtWork
<1>12. m = BatchMessage(t, a.at)
    <2>1. InBatch(a) = BatchOf(t, a.at)
        BY <1>7 DEF InBatch, BatchOf, Index
    <2>2. ASSUME NEW i \in BatchOf(t, a.at)
          PROVE  /\ Pad(i, a.data[i], FALSE) = PadOf(t, a.at, i, RowOf(t, "ALICE", i), FALSE)
                 /\ Pad(i, XorDelta(a.data[i]), TRUE)
                       = PadOf(t, a.at, i, Plus(t, RowOf(t, "ALICE", i)), TRUE)
        <3>1. PICK x : x = RowOf(t, "ALICE", i)
            OBVIOUS
        <3>2. a.data[i] = x
            BY <1>7, <3>1 DEF RowsOf, BatchOf
        <3>3. \A y, side : Pad(i, y, side) = PadOf(t, a.at, i, y, side) /\ XorDelta(y) = Plus(t, y)
            BY <1>1, <1>7, PadsAre
        <3> QED BY <3>1, <3>2, <3>3
    <2> QED BY <1>3, <2>1, <2>2 DEF BatchMessage
<1>13. Batches(t.call.len) \in Nat /\ BaseSent(t, "ALICE") \in Nat /\ Count(t, "BOB") \in Nat
    BY <1>7, PlacesOf, CallFacts, BatchFacts, CountsOf, Names
<1>14. Advances(t, "ALICE", a, rec, 0, ms)
    <2>1. /\ Written(t, "ALICE", a.pc, a.at) = BaseSent(t, "ALICE") + 1 + a.at
          /\ Written(t, "ALICE", rec.pc, rec.at) = BaseSent(t, "ALICE") + 1 + (a.at + 1)
          /\ WasRead(t, "ALICE", a.pc, a.at) = Count(t, "BOB")
          /\ WasRead(t, "ALICE", rec.pc, rec.at) = Count(t, "BOB")
        BY <1>5, <1>8, <1>13 DEF Written, WasRead
    <2>2. MessageOf(t, "ALICE", BaseSent(t, "ALICE") + 1 + a.at + 1 - 1) = m
        <3>1. PICK o : o = BaseSent(t, "ALICE") + 1 + a.at + 1 - 1
            OBVIOUS
        <3>2. o - BaseSent(t, "ALICE") - 1 = a.at /\ ~(a.at < -1) /\ a.at # -1 /\ a.at < Batches(t.call.len)
            BY <1>5, <1>7, <1>13, <3>1
        <3>3. MessageOf(t, "ALICE", o) = BatchMessage(t, a.at)
            BY <3>2 DEF MessageOf, AlicesMessage
        <3> QED BY <1>12, <3>1, <3>3
    <2> QED BY <1>7, <1>8, <1>10, <1>13, <2>1, <2>2 DEF Advances
<1> QED BY <1>2, <1>5, <1>9, <1>11, <1>14, Names, Stays

\* BOB's row is ALICE's, with Delta added where his bit is 1.
LEMMA RowsDiffer ==
    ASSUME NEW t, NEW n, CallOK(t, n), Chosen(t), t.conf = conf, NEW i \in Index(t)
    PROVE  RowOf(t, "BOB", i) = IF t.chose.r[i] THEN Plus(t, RowOf(t, "ALICE", i))
                                ELSE RowOf(t, "ALICE", i)
<1>1. t.chose.r[i] \in BOOLEAN /\ t.chose.x[i] \in BOOLEAN
    BY DEF Chosen
<1>3. PICK r : r = t.chose.r[i]
    OBVIOUS
<1>4. PICK k : k = First(t) + i
    OBVIOUS
<1>5. CASE Ferret(t)
    <2>1. PICK x : x = t.chose.x[i]
        OBVIOUS
    <2>2. PICK v : v = (r # x)
        OBVIOUS
    <2>3. v \in BOOLEAN
        BY <2>2
    <2>4. RowOf(t, "BOB", i) = StreamRow(t, k, x)
        BY <1>4, <1>5, <2>1 DEF RowOf
    <2>5. RowOf(t, "ALICE", i) = StreamRow(t, k, v)
        BY <1>3, <1>4, <1>5, <2>1, <2>2 DEF RowOf
    <2>6. Plus(t, StreamRow(t, k, v)) = StreamRow(t, k, ~v)
        BY <1>5, <2>3, StreamOther
    <2>7. r => x = ~v
        BY <1>1, <1>3, <2>1, <2>2
    <2>8. ~r => x = v
        BY <1>1, <1>3, <2>1, <2>2
    <2>9. CASE r
        <3>1. StreamRow(t, k, ~v) = StreamRow(t, k, x)
            BY <2>7, <2>9
        <3> QED BY <1>3, <2>4, <2>5, <2>6, <2>9, <3>1
    <2>10. CASE ~r
        BY <1>3, <2>4, <2>5, <2>8, <2>10
    <2> QED BY <2>9, <2>10
<1>6. CASE ~Ferret(t)
    <2>1. RowOf(t, "ALICE", i) = RowIn(t, k, r)
        <3>1. (r # FALSE) = r
            BY <1>1, <1>3
        <3> QED BY <1>3, <1>4, <1>6, <3>1 DEF RowOf
    <2>2. RowOf(t, "BOB", i) = RowIn(t, k, FALSE)
        BY <1>4, <1>6 DEF RowOf
    <2>3. r \in BOOLEAN
        BY <1>1, <1>3
    <2>4. Plus(t, RowIn(t, k, TRUE)) = RowIn(t, k, FALSE)
        <3>1. Plus(t, RowIn(t, k, TRUE)) = RowIn(t, k, ~TRUE)
            BY RowOther
        <3> QED BY <3>1
    <2>5. CASE r = TRUE
        BY <1>3, <2>1, <2>2, <2>4, <2>5
    <2>6. CASE r = FALSE
        BY <1>3, <2>1, <2>2, <2>6
    <2> QED BY <2>3, <2>5, <2>6
<1> QED BY <1>5, <1>6

\* The text that BOB opens: the hash of his row is the pad of the side that he chose.
LEMMA Opened ==
    ASSUME NEW t, NEW n, CallOK(t, n), Chosen(t), t.conf = conf, NEW j, NEW i \in BatchOf(t, j)
    PROVE  LET c == BatchMessage(t, j)[i][IF t.chose.r[i] THEN 2 ELSE 1]
           IN  /\ c.pad = HashOf(t, j, RowOf(t, "BOB", i), i % Batch)
               /\ c.text = TextOf(t, i, t.chose.r[i])
<1>1. i \in Index(t)
    BY DEF BatchOf
<1>2. PICK r : r = t.chose.r[i]
    OBVIOUS
<1>3. r \in BOOLEAN
    BY <1>1, <1>2 DEF Chosen
<1>4. PICK x : x = RowOf(t, "ALICE", i)
    OBVIOUS
<1>5. PICK y : y = Plus(t, x)
    OBVIOUS
<1>6. RowOf(t, "BOB", i) = IF r THEN y ELSE x
    BY <1>1, <1>2, <1>4, <1>5, RowsDiffer
<1>7. BatchMessage(t, j)[i] = <<PadOf(t, j, i, x, FALSE), PadOf(t, j, i, y, TRUE)>>
    BY <1>4, <1>5 DEF BatchMessage
<1>8. PICK c : c = BatchMessage(t, j)[i][IF r THEN 2 ELSE 1]
    OBVIOUS
<1>9. PICK z : z = RowOf(t, "BOB", i)
    OBVIOUS
<1>10. c = PadOf(t, j, i, z, r)
    <2>1. CASE r
        <3>1. c = PadOf(t, j, i, y, TRUE) /\ z = y /\ r = TRUE
            BY <1>3, <1>6, <1>7, <1>8, <1>9, <2>1
        <3> QED BY <3>1
    <2>2. CASE ~r
        <3>1. c = PadOf(t, j, i, x, FALSE) /\ z = x /\ r = FALSE
            BY <1>3, <1>6, <1>7, <1>8, <1>9, <2>2
        <3> QED BY <3>1
    <2> QED BY <2>1, <2>2
<1>11. c.pad = HashOf(t, j, z, i % Batch) /\ c.text = TextOf(t, i, r)
    BY <1>10 DEF PadOf
<1> QED BY <1>2, <1>8, <1>9, <1>11

\* What BOB opens of a batch
Openings(a, res) ==
    [i \in DOMAIN a.data |->
        IF i \in DOMAIN res
        THEN IF res[i][IF a.r[i] THEN 2 ELSE 1].pad = Hash(a, a.data[i], i % Batch)
             THEN res[i][IF a.r[i] THEN 2 ELSE 1].text ELSE Junk
        ELSE a.data[i]]

LEMMA OpenedBatch ==
    ASSUME NEW t, NEW n, CallOK(t, n), Chosen(t), t.conf = conf, NEW a, a.at \in Nat, a.start = t.nr,
           a.gid = t.from.gid + a.at * Batch, a.r = t.chose.r, a.data = TextsBefore(t, a.at),
           NEW m, m = BatchMessage(t, a.at)
    PROVE  Openings(a, m) = TextsBefore(t, a.at + 1)
<1>1. t.call.len \in Nat
    BY PlacesOf, CallFacts
<1>2. DOMAIN a.data = Index(t) /\ DOMAIN m = BatchOf(t, a.at)
    BY DEF TextsBefore, BatchMessage
<1>3. ASSUME NEW i \in Index(t), i \in BatchOf(t, a.at)
      PROVE  Openings(a, m)[i] = TextsBefore(t, a.at + 1)[i]
    <2>1. PICK c : c = m[i][IF a.r[i] THEN 2 ELSE 1]
        OBVIOUS
    <2>2. PICK z : z = RowOf(t, "BOB", i)
        OBVIOUS
    <2>3. PICK k : k = i % Batch
        OBVIOUS
    <2>4. c.pad = HashOf(t, a.at, z, k) /\ c.text = TextOf(t, i, t.chose.r[i])
        BY <1>3, <2>1, <2>2, <2>3, Opened
    <2>5. i \div Batch = a.at /\ ~(a.at < a.at) /\ a.at < a.at + 1
        BY <1>3 DEF BatchOf
    <2>6. a.data[i] = z
        BY <2>2, <2>5 DEF TextsBefore
    <2>7. Hash(a, z, k) = HashOf(t, a.at, z, k)
        BY DEF Hash, HashOf
    <2>8. Openings(a, m)[i] = c.text
        BY <1>2, <1>3, <2>1, <2>3, <2>4, <2>6, <2>7 DEF Openings
    <2>9. TextsBefore(t, a.at + 1)[i] = TextOf(t, i, t.chose.r[i])
        BY <2>5 DEF TextsBefore
    <2> QED BY <2>4, <2>8, <2>9
<1>4. ASSUME NEW i \in Index(t), i \notin BatchOf(t, a.at)
      PROVE  Openings(a, m)[i] = TextsBefore(t, a.at + 1)[i]
    <2>1. PICK d : d = i \div Batch
        OBVIOUS
    <2>2. i \in Nat
        BY <1>1 DEF Index
    <2>3. d \in Nat
        BY <2>1, <2>2, CotAssumption, Divided
    <2>4. d # a.at
        BY <1>4, <2>1 DEF BatchOf
    <2>5. d < a.at + 1 <=> d < a.at
        BY <2>3, <2>4
    <2>6. Openings(a, m)[i] = a.data[i]
        BY <1>2, <1>4 DEF Openings
    <2> QED BY <2>1, <2>5, <2>6 DEF TextsBefore
<1>5. DOMAIN Openings(a, m) = Index(t) /\ DOMAIN TextsBefore(t, a.at + 1) = Index(t)
    BY <1>2 DEF Openings, TextsBefore
<1>6. \A i \in Index(t) : Openings(a, m)[i] = TextsBefore(t, a.at + 1)[i]
    BY <1>3, <1>4
<1>7. Openings(a, m) = [i \in Index(t) |-> Openings(a, m)[i]]
    BY <1>2 DEF Openings
<1>8. TextsBefore(t, a.at + 1) = [i \in Index(t) |-> TextsBefore(t, a.at + 1)[i]]
    BY DEF TextsBefore
<1> QED BY <1>6, <1>7, <1>8

LEMMA BobBatchStep ==
    ASSUME NEW cs, NEW h, Inv(cs, h), BobBatch
    PROVE  Inv(cs, h)'
<1>1. PICK a : a = B
    OBVIOUS
<1>2. PICK t : t = h[a.cnt]
    OBVIOUS
<1>3. PICK m : m = Incoming("BOB")
    OBVIOUS
<1>4. PICK d : d = Openings(a, m)
    OBVIOUS
<1> DEFINE rec == [Loop(a) EXCEPT !.data = d, !.gid = @ + Batch]
<1>5. /\ a = me["BOB"] /\ a.pc = "ot" /\ a.at < Batches(a.call.len) /\ CanRead("BOB") /\ Read("BOB")
      /\ a.pc \in LastPlaces /\ a.pc # "idle"
    BY <1>1 DEF BobBatch, B, LastPlaces
<1>6. AtWork("BOB", a, t)
    BY <1>2, <1>5, Names, WorkFacts
<1>7. /\ CallOK(t, a.cnt) /\ Chosen(t) /\ t.conf = conf /\ a.data = TextsBefore(t, a.at)
      /\ a.start = t.nr /\ a.gid = t.from.gid + a.at * Batch /\ a.call = t.call /\ a.at \in Nat
      /\ Record(a) /\ a.r = t.chose.r /\ t.call.kind \in LoopKinds
    BY <1>5, <1>6, Names, LastFacts
<1>8. Become("BOB", rec)
    <2>1. Loop(a).data = a.data
        BY <1>7 DEF Loop, Record, Fields
    <2>2. Become("BOB", [Loop(a) EXCEPT !.data = Openings(a, m), !.gid = @ + Batch])
        BY <1>1, <1>3, <2>1 DEF BobBatch, Openings
    <2> QED BY <1>4, <2>2
<1>9. Batches(t.call.len) \in Nat /\ \A q \in Party : BaseSent(t, q) \in Nat /\ Count(t, q) \in Nat
    BY <1>7, PlacesOf, CallFacts, BatchFacts, CountsOf
<1>10. m = BatchMessage(t, a.at)
    <2>1. PICK w : w = BaseSent(t, "ALICE") + 1 + a.at
        OBVIOUS
    <2>2. WasRead(t, "BOB", a.pc, a.at) = w
        BY <1>5, <2>1 DEF WasRead
    <2>3. w < Count(t, "ALICE")
        <3>1. Count(t, "ALICE") >= BaseSent(t, "ALICE") + 1 + Batches(t.call.len)
            BY <1>7, <1>9, Names, KindsOf DEF LoopKinds
        <3> QED BY <1>5, <1>7, <1>9, <2>1, <3>1, Names
    <2>4. m = MessageOf(t, "ALICE", w)
        BY <1>2, <1>3, <1>5, <2>2, <2>3, Names, Reads
    <2>5. w - BaseSent(t, "ALICE") - 1 = a.at /\ ~(a.at < -1) /\ a.at # -1 /\ a.at < Batches(t.call.len)
        BY <1>5, <1>7, <1>9, <2>1, Names
    <2>6. MessageOf(t, "ALICE", w) = BatchMessage(t, a.at)
        BY <2>5 DEF MessageOf, AlicesMessage
    <2> QED BY <2>4, <2>6
<1>11. d = TextsBefore(t, a.at + 1)
    BY <1>4, <1>7, <1>10, OpenedBatch
<1>12. /\ Record(rec) /\ rec.pc = "ot" /\ rec.at = a.at + 1 /\ rec.cnt = a.cnt /\ rec.out = a.out
       /\ rec.deltas = a.deltas /\ rec.s = a.s /\ rec.delta = a.delta
       /\ rec.local = a.local /\ rec.call = a.call /\ rec.epoch = a.epoch /\ rec.pos = a.pos
       /\ rec.key = a.key /\ rec.r = a.r /\ rec.start = a.start /\ rec.gid = a.gid + Batch
       /\ rec.data = d
    BY <1>5, <1>7 DEF Record, Fields, Loop
<1> HIDE DEF rec
<1>13. Keeps(t, "BOB", a, rec)
    BY <1>5, <1>6, <1>11, <1>12, Names, BatchDone
<1>14. Passes("BOB", 1, <<>>)
    BY <1>5, <1>6, Names, ReadPasses DEF AtWork
<1>15. Advances(t, "BOB", a, rec, 1, <<>>)
    <2>1. /\ WasRead(t, "BOB", a.pc, a.at) = BaseSent(t, "ALICE") + 1 + a.at
          /\ WasRead(t, "BOB", rec.pc, rec.at) = BaseSent(t, "ALICE") + 1 + (a.at + 1)
          /\ Written(t, "BOB", a.pc, a.at) = Count(t, "BOB")
          /\ Written(t, "BOB", rec.pc, rec.at) = Count(t, "BOB")
        BY <1>5, <1>9, <1>12 DEF Written, WasRead
    <2> QED BY <1>7, <1>9, <1>12, <2>1, Names, Empty DEF Advances
<1> QED BY <1>2, <1>5, <1>8, <1>13, <1>14, <1>15, Names, Stays

LEMMA ItemsMessage ==
    ASSUME NEW t, NEW n, CallOK(t, n)
    PROVE  AlicesMessage(t, BaseSent(t, "ALICE") + 1 + Batches(t.call.len)) = ItemsOf(t)
<1>1. Batches(t.call.len) \in Nat /\ BaseSent(t, "ALICE") \in Nat
    BY PlacesOf, CallFacts, BatchFacts, CountsOf, Names
<1>2. PICK o : o = BaseSent(t, "ALICE") + 1 + Batches(t.call.len)
    OBVIOUS
<1>3. PICK j : j = o - BaseSent(t, "ALICE") - 1
    OBVIOUS
<1>4. ~(j < -1) /\ j # -1 /\ ~(j < Batches(t.call.len))
    BY <1>1, <1>2, <1>3
<1> QED BY <1>2, <1>3, <1>4 DEF AlicesMessage

\* After its batches, a one-of-n call has one message left.
LEMMA ItemFacts ==
    ASSUME NEW p \in Party, NEW a, NEW t, AtWork(p, a, t), a.pc = "ot", a.at = Batches(a.call.len),
           a.call.kind = "not"
    PROVE  /\ CallOK(t, a.cnt) /\ Chosen(t) /\ a.call = t.call /\ a.cnt = t.nr /\ a.at \in Nat
           /\ p = "BOB" => a.data = [i \in Index(t) |-> TextOf(t, i, t.chose.r[i])]
           /\ p = "ALICE" => a.data = RowsOf(t, p)
           /\ \A q \in Party : BaseSent(t, q) \in Nat /\ Count(t, q) \in Nat
           /\ Count(t, "ALICE") = BaseSent(t, "ALICE") + 2 + a.at
           /\ Written(t, p, a.pc, a.at) = (IF p = "ALICE" THEN BaseSent(t, "ALICE") + 1 + a.at
                                           ELSE Count(t, "BOB"))
           /\ WasRead(t, p, a.pc, a.at) = (IF p = "ALICE" THEN Count(t, "BOB")
                                           ELSE BaseSent(t, "ALICE") + 1 + a.at)
<1>1. a.pc \in LastPlaces
    BY DEF LastPlaces
<1>2. /\ CallOK(t, a.cnt) /\ Chosen(t) /\ a.call = t.call /\ a.cnt = t.nr /\ a.at \in Nat
      /\ a.data = (IF p = "BOB" THEN TextsBefore(t, a.at) ELSE RowsOf(t, p))
    BY <1>1, LastFacts
<1>3. TextsBefore(t, a.at) = [i \in Index(t) |-> TextOf(t, i, t.chose.r[i])]
    BY <1>2, AllTexts
<1>4. \A q \in Party : BaseSent(t, q) \in Nat /\ Count(t, q) \in Nat
    BY <1>2, CountsOf
<1>5. Count(t, "ALICE") = BaseSent(t, "ALICE") + 2 + a.at
    BY <1>2, KindsOf
<1>6. /\ Written(t, p, a.pc, a.at) = (IF p = "ALICE" THEN BaseSent(t, "ALICE") + 1 + a.at
                                      ELSE Count(t, "BOB"))
      /\ WasRead(t, p, a.pc, a.at) = (IF p = "ALICE" THEN Count(t, "BOB")
                                      ELSE BaseSent(t, "ALICE") + 1 + a.at)
    <2>1. CASE p = "ALICE"
        BY <1>4, <2>1, Names DEF Written, WasRead
    <2>2. CASE p = "BOB"
        BY <1>4, <2>2, Names DEF Written, WasRead
    <2> QED BY <2>1, <2>2 DEF Party
<1> QED BY <1>2, <1>3, <1>4, <1>5, <1>6

LEMMA AliceItemsStep ==
    ASSUME NEW cs, NEW h, Inv(cs, h), AliceItems
    PROVE  Inv(cs, h)'
<1>1. PICK a : a = A
    OBVIOUS
<1>2. PICK t : t = h[a.cnt]
    OBVIOUS
<1>3. PICK m : m = [i \in 0..(a.call.items - 1) |-> [key |-> ItemKey(i), item |-> i]]
    OBVIOUS
<1>4. PICK ms : ms = <<m>>
    OBVIOUS
<1>5. /\ a = me["ALICE"] /\ a.pc = "ot" /\ a.at = Batches(a.call.len) /\ a.call.kind = "not"
      /\ Write("ALICE", ms) /\ Finish("ALICE", a, m) /\ a.pc # "idle"
    BY <1>1, <1>3, <1>4 DEF AliceItems, A
<1>6. AtWork("ALICE", a, t)
    BY <1>2, <1>5, Names, WorkFacts
<1>7. /\ CallOK(t, a.cnt) /\ a.call = t.call /\ a.cnt = t.nr /\ a.at \in Nat
      /\ a.data = RowsOf(t, "ALICE")
      /\ BaseSent(t, "ALICE") \in Nat /\ Count(t, "BOB") \in Nat
      /\ Count(t, "ALICE") = BaseSent(t, "ALICE") + 2 + a.at
      /\ Written(t, "ALICE", a.pc, a.at) = BaseSent(t, "ALICE") + 1 + a.at
      /\ WasRead(t, "ALICE", a.pc, a.at) = Count(t, "BOB")
      /\ AlicesMessage(t, BaseSent(t, "ALICE") + 1 + a.at) = ItemsOf(t)
    <2>1. a.pc = "ot" /\ a.at = Batches(a.call.len) /\ a.call.kind = "not" /\ AtWork("ALICE", a, t)
        BY <1>5, <1>6
    <2>2. CallOK(t, a.cnt) /\ a.call = t.call /\ a.cnt = t.nr /\ a.at \in Nat
        BY <2>1, Names, ItemFacts
    <2>3. a.data = RowsOf(t, "ALICE")
        BY <2>1, Names, ItemFacts
    <2>4. /\ BaseSent(t, "ALICE") \in Nat /\ Count(t, "BOB") \in Nat
          /\ Count(t, "ALICE") = BaseSent(t, "ALICE") + 2 + a.at
        BY <2>1, Names, ItemFacts
    <2>5. /\ Written(t, "ALICE", a.pc, a.at) = BaseSent(t, "ALICE") + 1 + a.at
          /\ WasRead(t, "ALICE", a.pc, a.at) = Count(t, "BOB")
        BY <2>1, <2>2, <2>4 DEF Written, WasRead
    <2>6. AlicesMessage(t, BaseSent(t, "ALICE") + 1 + a.at) = ItemsOf(t)
        BY <2>1, <2>2, ItemsMessage
    <2> QED BY <2>2, <2>3, <2>4, <2>5, <2>6
<1>8. m = ItemsOf(t)
    <2>1. DOMAIN A.data = Index(t)
        BY <1>1, <1>7 DEF RowsOf
    <2>2. \A j, side : Message(A, j, side) = TextOf(t, j, side)
        BY <1>1, <1>7 DEF Message, TextOf
    <2>3. \A i : ItemKey(i) = {TextOf(t, j, BitOf(i, j)) : j \in Index(t)}
        BY <2>1, <2>2 DEF ItemKey
    <2> QED BY <1>3, <1>7, <2>3 DEF ItemsOf
<1>9. m = OutOf(t, "ALICE")
    BY <1>5, <1>7, <1>8 DEF OutOf, AlicesOut
<1>10. PICK b : b = Finished(a, m)
    OBVIOUS
<1>11. Become("ALICE", b)
    BY <1>5, <1>10 DEF Finish, Finished
<1>12. Returns(t, "ALICE", a, b) /\ b.pc = "idle"
    BY <1>5, <1>6, <1>9, <1>10, Names, LoopDone
<1>13. IsSeq(ms) /\ Len(ms) = 1 /\ ms[1] = m
    BY <1>4, Single
<1>14. Passes("ALICE", 0, ms)
    BY <1>5, <1>6, <1>13, Names, WritePasses DEF AtWork
<1>15. Advances(t, "ALICE", a, b, 0, ms)
    <2>1. BaseSent(t, "ALICE") + 1 + a.at + 1 - 1 = BaseSent(t, "ALICE") + 1 + a.at
        BY <1>7
    <2>2. MessageOf(t, "ALICE", BaseSent(t, "ALICE") + 1 + a.at) = m
        BY <1>7, <1>8 DEF MessageOf
    <2> QED BY <1>7, <1>12, <1>13, <2>1, <2>2, Names DEF Advances
<1> QED BY <1>2, <1>5, <1>11, <1>12, <1>14, <1>15, Names, Ends

LEMMA BobItemStep ==
    ASSUME NEW cs, NEW h, Inv(cs, h), BobItem
    PROVE  Inv(cs, h)'
<1>1. PICK a : a = B
    OBVIOUS
<1>2. PICK t : t = h[a.cnt]
    OBVIOUS
<1>3. PICK sealed : sealed = Incoming("BOB")[a.call.item]
    OBVIOUS
<1>4. PICK out : out = IF sealed.key = {a.data[j] : j \in DOMAIN a.data} THEN sealed.item ELSE -1
    OBVIOUS
<1>5. /\ a = me["BOB"] /\ a.pc = "ot" /\ a.at = Batches(a.call.len) /\ a.call.kind = "not"
      /\ CanRead("BOB") /\ Read("BOB") /\ Finish("BOB", a, out) /\ a.pc # "idle"
    BY <1>1, <1>3, <1>4 DEF BobItem, B
<1>6. AtWork("BOB", a, t)
    BY <1>2, <1>5, Names, WorkFacts
<1>7. /\ CallOK(t, a.cnt) /\ Chosen(t) /\ a.call = t.call /\ a.at \in Nat
      /\ a.data = [i \in Index(t) |-> TextOf(t, i, t.chose.r[i])]
      /\ BaseSent(t, "ALICE") \in Nat /\ Count(t, "BOB") \in Nat
      /\ Count(t, "ALICE") = BaseSent(t, "ALICE") + 2 + a.at
      /\ Written(t, "BOB", a.pc, a.at) = Count(t, "BOB")
      /\ WasRead(t, "BOB", a.pc, a.at) = BaseSent(t, "ALICE") + 1 + a.at
    BY <1>5, <1>6, Names, ItemFacts
<1>8. Incoming("BOB") = ItemsOf(t)
    <2>1. PICK w : w = BaseSent(t, "ALICE") + 1 + a.at
        OBVIOUS
    <2>2. w = WasRead(t, "BOB", a.pc, a.at) /\ w < Count(t, "ALICE")
        BY <1>7, <2>1
    <2>3. Incoming("BOB") = MessageOf(t, "ALICE", w)
        BY <1>2, <1>5, <2>2, Names, Reads
    <2>4. AlicesMessage(t, w) = ItemsOf(t)
        BY <1>5, <1>7, <2>1, ItemsMessage
    <2> QED BY <2>3, <2>4 DEF MessageOf
<1>9. out = OutOf(t, "BOB")
    <2>1. PICK i : i = t.call.item
        OBVIOUS
    <2>2. i \in 0..(t.call.items - 1) /\ \A j \in DOMAIN t.call.r : t.call.r[j] = BitOf(i, j)
        BY <1>5, <1>7, <2>1, PlacesOf, CallFacts
    <2>3. t.chose.r = t.call.r /\ DOMAIN t.call.r = Index(t)
        <3>1. ~Own(t)
            BY <1>5, <1>7 DEF Own
        <3> QED BY <3>1, <1>7, PlacesOf, CallFacts DEF Chosen, Index
    <2>4. \A j \in Index(t) : a.data[j] = TextOf(t, j, BitOf(i, j))
        BY <1>7, <2>2, <2>3
    <2>5. DOMAIN a.data = Index(t)
        BY <1>7
    <2>6. {a.data[j] : j \in DOMAIN a.data} = {TextOf(t, j, BitOf(i, j)) : j \in Index(t)}
        BY <2>4, <2>5
    <2>7. sealed.key = {TextOf(t, j, BitOf(i, j)) : j \in Index(t)} /\ sealed.item = i
        <3>1. sealed = ItemsOf(t)[i]
            BY <1>3, <1>7, <1>8, <2>1
        <3> QED BY <2>2, <3>1 DEF ItemsOf
    <2>8. out = i
        BY <1>4, <2>6, <2>7
    <2> QED BY <1>5, <1>7, <2>1, <2>8 DEF OutOf, BobsOut
<1>10. PICK b : b = Finished(a, out)
    OBVIOUS
<1>11. Become("BOB", b)
    BY <1>5, <1>10 DEF Finish, Finished
<1>12. Returns(t, "BOB", a, b) /\ b.pc = "idle"
    BY <1>5, <1>6, <1>9, <1>10, Names, LoopDone
<1>13. Passes("BOB", 1, <<>>)
    BY <1>5, <1>6, Names, ReadPasses DEF AtWork
<1>14. Advances(t, "BOB", a, b, 1, <<>>)
    BY <1>7, <1>12, Names, Empty DEF Advances
<1> QED BY <1>2, <1>5, <1>11, <1>12, <1>13, <1>14, Names, Ends

(*------------------- the actions between and around calls ---------------*)
LEMMA FlushStep ==
    ASSUME NEW cs, NEW h, Inv(cs, h), NEW p \in Party, Flush(p)
    PROVE  Inv(cs, h)'
<1>1. Send(p, <<>>) /\ conf' = conf /\ me' = me
    BY DEF Flush
<1>2. /\ ChannelOK /\ Record(me[p]) /\ PartyOK(conf, h, p, me[p]) /\ me = [q \in Party |-> me[q]]
      /\ HistoryOK(conf, cs, h)
      /\ Stretch(h, p, me[p].cnt, Outgoing(p), ReadOf(h, Peer(p), me[Peer(p)]), SentOf(h, p, me[p]))
    BY PartsOf
<1>3. Passes(p, 0, <<>>)
    BY <1>1, <1>2, Empty, SendPasses
<1>4. Outgoing(p) \o <<>> = Outgoing(p)
    BY <1>2, OutgoingIsSeq, Empty, JoinedThree
<1>5. ReadOf(h, p, me[p]) = ReadOf(h, p, me[p]) + 0
    BY <1>2, SentFacts
<1>6. PICK a : a = me[p]
    OBVIOUS
<1>7. me'[p] = a /\ me' = [me EXCEPT ![p] = me'[p]]
    BY <1>1, <1>2, <1>6
<1>8. /\ Record(me'[p]) /\ PartyOK(conf, h, p, me'[p])
      /\ ReadOf(h, p, me'[p]) = ReadOf(h, p, me[p]) + 0
      /\ Stretch(h, p, me'[p].cnt, Outgoing(p) \o <<>>, ReadOf(h, Peer(p), me[Peer(p)]),
                 SentOf(h, p, me'[p]))
    BY <1>2, <1>4, <1>5, <1>6, <1>7
<1> QED BY <1>1, <1>3, <1>7, <1>8, PartyStep

\* A party between calls is at the place where the next call begins.
LEMMA IdlePlace ==
    ASSUME NEW cs, NEW h, Inv(cs, h), NEW p \in Party, NEW a, a = me[p], a.pc = "idle"
    PROVE  /\ a.cnt \in 0..Len(h) /\ Len(h) \in Nat /\ IsSeq(a.out) /\ Len(a.out) = a.cnt
           /\ a.epoch = PlaceOf(h, a.cnt).epoch /\ a.pos = PlaceOf(h, a.cnt).pos
           /\ a.gid = PlaceOf(h, a.cnt).gid /\ PlaceOf(h, a.cnt) \in Places
           /\ SentOf(h, p, a) = SentAt(PlaceOf(h, a.cnt), p)
           /\ ReadOf(h, p, a) = SentAt(PlaceOf(h, a.cnt), Peer(p))
           /\ \A k \in Slot : a.local[k].plus \in Vector
           /\ (p = "ALICE" /\ conf.provider # "ferret" /\ a.epoch > 0 =>
                  a.key = KeysIn(conf, a.epoch, BaseN))
           /\ p = "ALICE" => SecretOK(conf, a)
<1>1. HistoryOK(conf, cs, h) /\ PartyOK(conf, h, p, a)
    BY PartsOf
<1>2. Len(h) \in Nat
    BY <1>1, HistoryFacts
<1>3. a.cnt \in 0..Len(h) /\ PlaceOf(h, a.cnt) \in Places
    BY <1>1, PlaceFacts DEF PartyOK
<1>4. Len(a.out) = a.cnt
    BY <1>1, <1>2, <1>3 DEF PartyOK
<1> QED BY <1>1, <1>2, <1>3, <1>4 DEF PartyOK, Between, SentOf, ReadOf

\* p enters the call n, with b.
Turns(p, b) == me' = [me EXCEPT ![p] = b]

LEMMA Enters ==
    ASSUME NEW cs, NEW h, Inv(cs, h), NEW p \in Party, NEW a, a = me[p], a.pc = "idle",
           NEW n, n = a.cnt + 1, n \in 1..Len(h), NEW t, t = h[n], NEW b, Record(b),
           b.cnt = n, b.out = a.out,
           b.deltas = a.deltas, b.local = a.local, b.at = 0, b.pc # "idle", InCall(t, p, b),
           Written(t, p, b.pc, 0) = 0, WasRead(t, p, b.pc, 0) = 0,
           conf' = conf, Turns(p, b), Silent
    PROVE  Inv(cs, h)'
<1>1. /\ ChannelOK /\ Record(a) /\ PartyOK(conf, h, p, a) /\ me = [q \in Party |-> me[q]]
      /\ HistoryOK(conf, cs, h)
      /\ Stretch(h, p, a.cnt, Outgoing(p), ReadOf(h, Peer(p), me[Peer(p)]), SentOf(h, p, a))
    BY PartsOf
<1>2. /\ a.cnt \in 0..Len(h) /\ Len(h) \in Nat /\ IsSeq(a.out) /\ Len(a.out) = a.cnt
      /\ SentOf(h, p, a) = SentAt(PlaceOf(h, a.cnt), p)
      /\ ReadOf(h, p, a) = SentAt(PlaceOf(h, a.cnt), Peer(p))
      /\ \A k \in Slot : a.local[k].plus \in Vector
    BY IdlePlace
<1>3. t.from = PlaceOf(h, a.cnt) /\ CallOK(t, n)
    <2>1. t.from = PlaceOf(h, n - 1) /\ n - 1 = a.cnt /\ CallOK(t, n)
        BY <1>1, <1>2, HistoryFacts
    <2> QED BY <2>1
<1>4. Passes(p, 0, <<>>)
    BY <1>1, SilentPasses
<1>5. Outgoing(p) \o <<>> = Outgoing(p)
    BY <1>1, OutgoingIsSeq, Empty, JoinedThree
<1>6. me'[p] = b /\ me' = [me EXCEPT ![p] = me'[p]]
    BY <1>1 DEF Turns
<1>7. \A q \in Party : SentAt(t.from, q) \in Nat
    BY <1>3, CountsOf
<1>8. SentOf(h, p, b) = SentOf(h, p, a) /\ ReadOf(h, p, b) = ReadOf(h, p, a) + 0
    <2>1. SentOf(h, p, b) = SentAt(t.from, p) + 0 /\ ReadOf(h, p, b) = SentAt(t.from, Peer(p)) + 0
        BY DEF SentOf, ReadOf
    <2> QED BY <1>2, <1>3, <1>7, <2>1, Peers
<1>9. PartyOK(conf, h, p, b)
    <2>1. b.cnt \in 0..Len(h) /\ b.cnt > 0 /\ b.at \in Nat /\ Len(b.out) = b.cnt - 1
        BY <1>2
    <2>2. p = "ALICE" => DeltasOK(h, b)
        BY <1>1 DEF PartyOK, DeltasOK
    <2> QED BY <1>1, <1>2, <2>1, <2>2 DEF PartyOK
<1>10. Stretch(h, p, b.cnt, Outgoing(p) \o <<>>, ReadOf(h, Peer(p), me[Peer(p)]), SentOf(h, p, b))
    <2>1. PICK s : s = Outgoing(p)
        OBVIOUS
    <2>2. PICK first : first = ReadOf(h, Peer(p), me[Peer(p)])
        OBVIOUS
    <2>3. PICK last : last = SentOf(h, p, a)
        OBVIOUS
    <2>4. Stretch(h, p, a.cnt, s, first, last)
        BY <1>1, <2>1, <2>2, <2>3
    <2>5. last = SentAt(t.from, p) /\ last \in Nat
        BY <1>2, <1>3, <1>7, <2>3
    <2>6. ASSUME NEW m \in 1..n, NEW o \in 0..(Count(h[m], p) - 1),
                 first <= SentAt(h[m].from, p) + o, SentAt(h[m].from, p) + o < last
          PROVE  s[(SentAt(h[m].from, p) + o) - first + 1] = MessageOf(h[m], p, o)
        <3>1. CASE m = n
            <4>1. SentAt(h[m].from, p) = last
                BY <2>5, <3>1
            <4>2. o \in Nat
                BY <1>3, <3>1, CountsOf
            <4> QED BY <2>5, <2>6, <4>1, <4>2
        <3>2. CASE m # n
            <4> DEFINE k == SentAt(h[m].from, p) + o
            <4>1. m \in 1..a.cnt
                BY <1>2, <3>2
            <4>2. first <= k /\ k < last
                BY <2>6
            <4>3. s[k - first + 1] = MessageOf(h[m], p, o)
                BY <2>4, <4>1, <4>2 DEF Stretch
            <4> QED BY <4>3
        <3> QED BY <3>1, <3>2
    <2>7. IsSeq(s) /\ first <= last /\ Len(s) = last - first
        BY <2>4 DEF Stretch
    <2>8. Stretch(h, p, n, s, first, last)
        BY <2>6, <2>7 DEF Stretch
    <2> QED BY <1>5, <1>8, <2>1, <2>2, <2>3, <2>8
<1>11. /\ Record(me'[p]) /\ PartyOK(conf, h, p, me'[p])
       /\ ReadOf(h, p, me'[p]) = ReadOf(h, p, me[p]) + 0
       /\ Stretch(h, p, me'[p].cnt, Outgoing(p) \o <<>>, ReadOf(h, Peer(p), me[Peer(p)]),
                  SentOf(h, p, me'[p]))
    BY <1>6, <1>8, <1>9, <1>10
<1> QED BY <1>4, <1>6, <1>11, PartyStep

\* The object a at the head of the call c, with the choice bits r
Headed(a, c, r) == [a EXCEPT !.cnt = @ + 1, !.call = c, !.r = r,
                             !.data = [i \in 0..(c.len - 1) |-> Junk]]
Entered(p, x, c) ==
    IF conf.provider = "ferret" THEN Goto(x, "rcot")
    ELSE IF c.kind = "setup" /\ c.given THEN Goto(SetUp(p, x, TRUE), "return")
    ELSE IF c.kind = "setup" \/ x.epoch = 0 THEN Goto(SetUp(p, x, FALSE), "base")
    ELSE Goto(x, "pre")

\* No rows have been made yet.
LEMMA NoRows ==
    ASSUME NEW t, NEW n, CallOK(t, n), NEW p \in Party
    PROVE  /\ RowsBefore(t, p, 0) = [i \in Index(t) |-> Junk]
           /\ t.call.kind = "setup" => RowsOf(t, p) = [i \in Index(t) |-> Junk]
<1>1. t.call.len \in Nat /\ (t.call.kind = "setup" => t.call.len = 0)
    BY PlacesOf, CallFacts
<1>2. ASSUME NEW i \in Index(t)
      PROVE  ~(i \div BlockSize < 0) /\ t.call.kind # "setup"
    <2>1. i \in Nat /\ t.call.len # 0
        BY <1>1 DEF Index
    <2>2. i \div BlockSize \in Nat
        BY <2>1, IknpAssumption, Divided
    <2> QED BY <1>1, <2>1, <2>2
<1> QED BY <1>2 DEF RowsBefore, RowsOf

\* Where a call begins
LEMMA HeadFacts ==
    ASSUME NEW t, NEW n, CallOK(t, n), t.conf = conf, NEW e, e = t.from.epoch
    PROVE  LET c == t.call
               ferret == conf.provider = "ferret"
               given == ~ferret /\ c.kind = "setup" /\ c.given
               base == ~ferret /\ ~given /\ (c.kind = "setup" \/ e = 0)
               pre == ~ferret /\ ~given /\ ~base
           IN  /\ Ferret(t) = ferret /\ e \in Nat
               /\ ferret => t.to.epoch = e /\ First(t) = t.from.pos
               /\ given => /\ t.to.epoch = e + 1 /\ t.to.pos = 0 /\ Count(t, "BOB") = 0
                           /\ BaseSent(t, "ALICE") = 0
               /\ base => t.to.epoch = e + 1 /\ Based(t)
               /\ pre => /\ t.to.epoch = e /\ e > 0 /\ First(t) = t.from.pos /\ c.kind # "setup"
                         /\ BaseSent(t, "ALICE") = 0 /\ BaseSent(t, "BOB") = 0 /\ RoundsOf(t) > 0
                         /\ First(t) + Moved(c.len, 0) = t.from.pos
<1> DEFINE c == t.call
           ferret == conf.provider = "ferret"
           given == ~ferret /\ c.kind = "setup" /\ c.given
           base == ~ferret /\ ~given /\ (c.kind = "setup" \/ e = 0)
           pre == ~ferret /\ ~given /\ ~base
<1>1. /\ t.from \in Places /\ c \in Calls /\ ConfOK(t.conf) /\ First(t) \in Nat
      /\ t.to.epoch = e + (IF Renews(t.conf, c, e) THEN 1 ELSE 0)
      /\ t.to.pos = First(t) + RowsDrawn(t.conf, c)
    BY PlacesOf
<1>2. e \in Nat /\ t.from.pos \in Nat /\ c.len \in Nat /\ (c.len = 0 <=> c.kind = "setup")
    BY <1>1, CallFacts DEF Places
<1>3. /\ Renews(t.conf, c, e) <=> (given \/ base)
      /\ Based(t) <=> base
    BY DEF Renews, Based, HasBase
<1>4. BaseSent(t, "ALICE") = (IF base THEN BaseN ELSE 0) /\ BaseSent(t, "BOB") = (IF base THEN 1 + BaseN ELSE 0)
    BY <1>3, KindsOf
<1>5. First(t) = (IF given \/ base THEN 0 ELSE t.from.pos)
    BY <1>3 DEF First
<1>6. Ferret(t) = ferret
    BY DEF Ferret
<1>7. given => t.to.pos = 0 /\ Count(t, "BOB") = 0
    <2>1. given => RowsDrawn(t.conf, c) = 0
        BY DEF RowsDrawn
    <2>2. c.kind = "setup" => Count(t, "BOB") = BaseSent(t, "BOB")
        BY KindsOf
    <2> QED BY <1>1, <1>4, <1>5, <2>1, <2>2
<1>8. pre => RoundsOf(t) > 0
    <2>1. pre => c.len > 0
        BY <1>2
    <2>2. t.conf.malicious \in BOOLEAN
        BY <1>1 DEF ConfOK
    <2> QED BY <1>2, <2>1, <2>2, RoundsFacts DEF RoundsOf
<1>9. Moved(c.len, 0) = 0
    BY <1>2, MovedFacts
<1>10. ~(given \/ base) => t.to.epoch = e
    BY <1>1, <1>2, <1>3
<1>11. given \/ base => t.to.epoch = e + 1
    BY <1>1, <1>2, <1>3
<1> QED BY <1>2, <1>3, <1>4, <1>5, <1>6, <1>7, <1>8, <1>9, <1>10, <1>11

\* The object at the head of a call
LEMMA HeadedIs ==
    ASSUME NEW a, Record(a), NEW c, NEW r, NEW x, x = Headed(a, c, r)
    PROVE  /\ Record(x) /\ x.cnt = a.cnt + 1 /\ x.call = c /\ x.r = r /\ x.out = a.out
           /\ x.deltas = a.deltas /\ x.s = a.s /\ x.delta = a.delta
           /\ x.local = a.local /\ x.epoch = a.epoch /\ x.pos = a.pos /\ x.gid = a.gid
           /\ x.key = a.key /\ x.data = [i \in 0..(c.len - 1) |-> Junk]
<1>1. PICK m : m = a.cnt + 1
    OBVIOUS
<1>2. PICK d : d = [i \in 0..(c.len - 1) |-> Junk]
    OBVIOUS
<1>3. x = [a EXCEPT !.cnt = m, !.call = c, !.r = r, !.data = d]
    BY <1>1, <1>2 DEF Headed
<1> QED BY <1>1, <1>2, <1>3 DEF Record, Fields

\* b is the object of p in its call t, where nothing has been written or read yet.
AtHead(t, p, a, b) ==
    /\ Record(b) /\ b.cnt = a.cnt + 1 /\ b.out = a.out /\ b.local = a.local /\ b.at = 0
    /\ b.deltas = a.deltas
    /\ b.pc # "idle" /\ InCall(t, p, b) /\ Written(t, p, b.pc, 0) = 0 /\ WasRead(t, p, b.pc, 0) = 0

LEMMA EnteredIs ==
    ASSUME NEW t, NEW n, CallOK(t, n), t.conf = conf, NEW p \in Party, NEW a, Record(a),
           a.epoch = t.from.epoch, a.pos = t.from.pos, a.gid = t.from.gid,
           (p = "ALICE" /\ ~Ferret(t) /\ a.epoch > 0) => a.key = KeysIn(conf, a.epoch, BaseN),
           p = "ALICE" => SecretOK(conf, a), NEW r, p = "BOB" => r = t.chose.r,
           NEW b, b = Entered(p, Headed(a, t.call, r), t.call)
    PROVE  AtHead(t, p, a, b)
<1> DEFINE c == t.call
           e == t.from.epoch
           ferret == conf.provider = "ferret"
           given == ~ferret /\ c.kind = "setup" /\ c.given
           base == ~ferret /\ ~given /\ (c.kind = "setup" \/ e = 0)
           pre == ~ferret /\ ~given /\ ~base
<1>1. PICK x : x = Headed(a, c, r)
    OBVIOUS
<1>2. PICK d : d = [i \in Index(t) |-> Junk]
    OBVIOUS
<1>3. /\ Record(x) /\ x.cnt = a.cnt + 1 /\ x.call = c /\ x.r = r /\ x.out = a.out
      /\ x.deltas = a.deltas /\ x.s = a.s /\ x.delta = a.delta
      /\ x.local = a.local /\ x.epoch = e /\ x.pos = t.from.pos /\ x.gid = t.from.gid
      /\ x.key = a.key /\ x.data = d
    BY <1>1, <1>2, HeadedIs DEF Index
<1>4. /\ Ferret(t) = ferret /\ e \in Nat
      /\ ferret => t.to.epoch = e /\ First(t) = t.from.pos
      /\ given => /\ t.to.epoch = e + 1 /\ t.to.pos = 0 /\ Count(t, "BOB") = 0
                  /\ BaseSent(t, "ALICE") = 0
      /\ base => t.to.epoch = e + 1 /\ Based(t)
      /\ pre => /\ t.to.epoch = e /\ e > 0 /\ First(t) = t.from.pos /\ c.kind # "setup"
                /\ BaseSent(t, "ALICE") = 0 /\ BaseSent(t, "BOB") = 0 /\ RoundsOf(t) > 0
                /\ First(t) + Moved(c.len, 0) = t.from.pos
    BY HeadFacts
<1>5. /\ RowsBefore(t, p, 0) = d /\ (c.kind = "setup" => RowsOf(t, p) = d)
    BY <1>2, NoRows
<1>6. t.from.gid \in Nat /\ t.from.gid + 0 = t.from.gid
    BY PlacesOf DEF Places
<1>7. p = "ALICE" \/ p = "BOB"
    BY DEF Party
<1>8. b = Entered(p, x, c)
    BY <1>1
<1>9. p = "ALICE" /\ ferret => x.delta = Sec(t)
    BY <1>3, <1>4 DEF SecretOK, Sec, SecretAt
<1>10. p = "ALICE" /\ pre => x.s = Sec(t) /\ x.delta = Sec(t)
    BY <1>3, <1>4 DEF SecretOK, Sec
<1>11. given \/ base => Sec(t) = conf.s[e + 1]
    BY <1>4 DEF Sec, SecretAt
<1> HIDE DEF c, e
<1>12. CASE ferret
    <2>1. b = [x EXCEPT !.pc = "rcot", !.at = 0]
        BY <1>8, <1>12 DEF Entered, Goto
    <2>2. /\ Record(b) /\ b.pc = "rcot" /\ b.at = 0 /\ b.cnt = a.cnt + 1 /\ b.call = c /\ b.r = r
          /\ b.out = a.out /\ b.local = a.local /\ b.epoch = e /\ b.pos = t.from.pos
          /\ b.deltas = a.deltas /\ b.delta = x.delta
          /\ b.gid = t.from.gid /\ b.data = d
        BY <1>3, <2>1 DEF Record, Fields
    <2>3. InCall(t, p, b)
        <3>1. StageOK(t, p, "rcot", 0)
            BY <1>4, <1>12 DEF StageOK
        <3>2. PosAt(t, "rcot", 0) = t.from.pos /\ DataAt(t, p, "rcot", 0) = d
            BY <1>2 DEF PosAt, DataAt, Early
        <3> QED BY <1>4, <1>6, <1>7, <1>12, <1>9, <2>2, <3>1, <3>2 DEF InCall, c
    <2>4. Written(t, p, "rcot", 0) = 0 /\ WasRead(t, p, "rcot", 0) = 0
        <3>1. BaseSent(t, "ALICE") = 0
            BY <1>4, <1>12, KindsOf, Names
        <3> QED BY <1>7, <3>1 DEF Written, WasRead
    <2> QED BY <2>2, <2>3, <2>4 DEF AtHead
<1>13. CASE given
    <2>1. PICK k : k = KeysOf(e + 1, conf.s[e + 1])
        OBVIOUS
    <2>2. PICK s : s = IF p = "ALICE" THEN conf.s[e + 1] ELSE x.s
        OBVIOUS
    <2>3. PICK x1 : x1 = [x EXCEPT !.epoch = e + 1, !.s = s]
        OBVIOUS
    <2>4. x1.epoch = e + 1 /\ x1.s = s /\ Record(x1)
        BY <1>3, <2>3 DEF Record, Fields
    <2>5. PICK x2 : x2 = [x1 EXCEPT !.pos = 0, !.key = k]
        OBVIOUS
    <2>6. x2.s = s
        BY <2>4, <2>5 DEF Record, Fields
    <2>13. /\ Record(x1) /\ x1.cnt = a.cnt + 1 /\ x1.call = c /\ x1.r = r /\ x1.out = a.out
           /\ x1.local = a.local /\ x1.epoch = e + 1 /\ x1.deltas = a.deltas /\ x1.s = s
           /\ x1.gid = t.from.gid /\ x1.data = d
        BY <1>3, <2>3 DEF Record, Fields
    <2>14. PICK x3 : x3 = [x2 EXCEPT !.delta = s]
        OBVIOUS
    <2>15. /\ Record(x3) /\ x3.cnt = a.cnt + 1 /\ x3.call = c /\ x3.r = r /\ x3.out = a.out
           /\ x3.local = a.local /\ x3.epoch = e + 1 /\ x3.deltas = a.deltas /\ x3.s = s
           /\ x3.gid = t.from.gid /\ x3.data = d /\ x3.pos = 0 /\ x3.key = k /\ x3.delta = s
        BY <2>13, <2>5, <2>14 DEF Record, Fields
    <2>7. SetUp(p, x, TRUE) = [x2 EXCEPT !.delta = s]
        BY <1>3, <2>1, <2>2, <2>3, <2>4, <2>5, <2>6 DEF SetUp, NewDelta
    <2>8. b = [[x2 EXCEPT !.delta = s] EXCEPT !.pc = "return", !.at = 0]
        BY <1>8, <1>13, <2>7 DEF Entered, Goto
    <2>9. /\ Record(b) /\ b.pc = "return" /\ b.at = 0 /\ b.cnt = a.cnt + 1 /\ b.call = c /\ b.r = r
          /\ b.out = a.out /\ b.local = a.local /\ b.epoch = e + 1 /\ b.pos = 0
          /\ b.deltas = a.deltas /\ b.s = s /\ b.delta = s
          /\ b.gid = t.from.gid /\ b.data = d /\ b.key = k
        <3>1. b = [x3 EXCEPT !.pc = "return", !.at = 0]
            BY <2>8, <2>14
        <3> QED BY <2>15, <3>1 DEF Record, Fields
    <2>10. k = KeysIn(t.conf, t.to.epoch, BaseN)
        BY <1>4, <1>13, <1>11, <2>1, KeysAre
    <2>11. InCall(t, p, b)
        <3>1. StageOK(t, p, "return", 0)
            BY <1>13 DEF StageOK, c
        <3>2. PosAt(t, "return", 0) = t.to.pos /\ DataAt(t, p, "return", 0) = d
            BY <1>5, <1>13 DEF PosAt, DataAt, Early
        <3>3. p = "ALICE" => KeyAt(t, p, "return", 0) = k
            BY <2>10 DEF KeyAt
        <3>4. p = "ALICE" => b.s = Sec(t) /\ b.delta = Sec(t)
            BY <1>13, <1>11, <2>9, <2>2
        <3> QED BY <1>4, <1>6, <1>7, <1>13, <2>9, <3>1, <3>2, <3>3, <3>4 DEF InCall, c
    <2>12. Written(t, p, "return", 0) = 0 /\ WasRead(t, p, "return", 0) = 0
        BY <1>4, <1>7, <1>13 DEF Written, WasRead
    <2> QED BY <2>9, <2>11, <2>12 DEF AtHead
<1>14. CASE base
    <2>1. PICK s : s = IF p = "ALICE" THEN conf.s[e + 1] ELSE x.s
        OBVIOUS
    <2>2. b = [[x EXCEPT !.epoch = e + 1, !.s = s] EXCEPT !.pc = "base", !.at = 0]
        BY <1>3, <1>8, <1>14, <2>1 DEF Entered, Goto, SetUp
    <2>3. /\ Record(b) /\ b.pc = "base" /\ b.at = 0 /\ b.cnt = a.cnt + 1 /\ b.call = c /\ b.r = r
          /\ b.out = a.out /\ b.local = a.local /\ b.epoch = e + 1 /\ b.pos = t.from.pos
          /\ b.deltas = a.deltas /\ b.s = s
          /\ b.gid = t.from.gid /\ b.data = d
        BY <1>3, <2>2 DEF Record, Fields
    <2>4. InCall(t, p, b)
        <3>1. StageOK(t, p, "base", 0)
            BY <1>4, <1>14 DEF StageOK
        <3>2. PosAt(t, "base", 0) = t.from.pos /\ DataAt(t, p, "base", 0) = d
            BY <1>2 DEF PosAt, DataAt, Early
        <3>3. p = "ALICE" => b.s = Sec(t)
            BY <1>14, <1>11, <2>1, <2>3
        <3> QED BY <1>4, <1>6, <1>7, <1>14, <2>3, <3>1, <3>2, <3>3 DEF InCall, c
    <2>5. Written(t, p, "base", 0) = 0 /\ WasRead(t, p, "base", 0) = 0
        BY <1>7 DEF Written, WasRead
    <2> QED BY <2>3, <2>4, <2>5 DEF AtHead
<1>15. CASE pre
    <2>1. b = [x EXCEPT !.pc = "pre", !.at = 0]
        BY <1>3, <1>8, <1>15 DEF Entered, Goto
    <2>2. /\ Record(b) /\ b.pc = "pre" /\ b.at = 0 /\ b.cnt = a.cnt + 1 /\ b.call = c /\ b.r = r
          /\ b.out = a.out /\ b.local = a.local /\ b.epoch = e /\ b.pos = t.from.pos
          /\ b.deltas = a.deltas /\ b.s = x.s /\ b.delta = x.delta
          /\ b.gid = t.from.gid /\ b.data = d /\ b.key = a.key
        BY <1>3, <2>1 DEF Record, Fields
    <2>3. p = "ALICE" => a.key = KeysIn(conf, e, BaseN)
        BY <1>4, <1>15 DEF e
    <2>4. InCall(t, p, b)
        <3>1. StageOK(t, p, "pre", 0)
            BY <1>4, <1>15 DEF StageOK, c
        <3>2. PosAt(t, "pre", 0) = t.from.pos /\ DataAt(t, p, "pre", 0) = d
            BY <1>4, <1>5, <1>15 DEF PosAt, DataAt, Early, c
        <3>3. p = "ALICE" => KeyAt(t, p, "pre", 0) = a.key
            BY <1>4, <1>15, <2>3 DEF KeyAt
        <3> QED BY <1>4, <1>6, <1>7, <1>15, <1>10, <2>2, <3>1, <3>2, <3>3 DEF InCall, c
    <2>5. Written(t, p, "pre", 0) = 0 /\ WasRead(t, p, "pre", 0) = 0
        BY <1>4, <1>7, <1>15 DEF Written, WasRead
    <2> QED BY <2>2, <2>4, <2>5 DEF AtHead
<1> QED BY <1>12, <1>13, <1>14, <1>15

Choices(t, r) == r \in [Index(t) -> BOOLEAN]
Redrawn(cs, h, n, r, g) == Inv(cs, g) /\ Len(g) = Len(h) /\ g[n].chose.r = r /\ Alike(h[n], g[n])

(* BOB draws the choice bits of cot_gen when he enters the call; ALICE, who may have
   entered it before, has not read anything that depends on them. *)
LEMMA BobDraws ==
    ASSUME NEW cs, NEW h, Inv(cs, h), NEW b, b = me["BOB"], b.pc = "idle",
           NEW n \in 1..Len(h), n - 1 = b.cnt, Own(h[n]), NEW r, Choices(h[n], r)
    PROVE  \E g : Redrawn(cs, h, n, r, g)
<1>1. PICK t : t = h[n]
    OBVIOUS
<1>2. /\ b.cnt \in 0..Len(h) /\ Len(h) \in Nat
      /\ SentOf(h, "BOB", b) = SentAt(PlaceOf(h, b.cnt), "BOB")
    BY Names, IdlePlace
<1>3. HistoryOK(conf, cs, h) /\ IsSeq(h)
    BY Names, PartsOf, HistoryFacts
<1>4. n \in 1..Len(h) /\ n - 1 = b.cnt
    BY <1>2
<1>5. CallOK(t, n) /\ Chosen(t) /\ t.from = PlaceOf(h, b.cnt) /\ t.conf = conf
    BY <1>1, <1>3, <1>4, HistoryFacts
<1>6. /\ t.call.kind = "gen" /\ t.conf.provider = "base" /\ ~Ferret(t) /\ t.from.epoch # 0
      /\ t.call.len \in Nat
    <2>1. t.call.kind = "gen" /\ t.conf.provider = "base"
        BY <1>1, <1>5, KindsOf DEF Own
    <2>2. t.from.epoch # 0
        BY <1>5, <2>1 DEF CallOK, Offers
    <2> QED BY <1>5, <2>1, <2>2, PlacesOf, CallFacts DEF Ferret
<1>7. ~Based(t) /\ BaseSent(t, "ALICE") = 0 /\ BaseSent(t, "BOB") = 0
    <2>1. ~Based(t)
        BY <1>6 DEF Based, HasBase, Renews
    <2> QED BY <1>5, <2>1, KindsOf
<1>8. RoundsOf(t) \in Nat /\ RoundsOf(t) > 0 /\ Count(t, "BOB") \in Nat /\ Count(t, "BOB") > 0
    <2>1. RoundsOf(t) \in Nat
        BY <1>5, Names, CountsOf
    <2>2. RoundsOf(t) > 0
        <3>1. conf.provider # "ferret" /\ t.call.kind # "setup" /\ t.from.epoch # 0
            BY <1>5, <1>6
        <3> QED BY <1>5, <3>1, HeadFacts
    <2>3. Count(t, "BOB") = BaseSent(t, "BOB") + (RoundsOf(t) + (IF t.conf.malicious THEN 2 ELSE 0))
        BY <1>5, <1>6, KindsOf
    <2> QED BY <1>7, <2>1, <2>2, <2>3
<1>9. \/ me["ALICE"].cnt < n
      \/ /\ me["ALICE"].cnt = n /\ me["ALICE"].pc # "idle"
         /\ WasRead(t, "ALICE", me["ALICE"].pc, me["ALICE"].at) <= 0
    <2>1. SentOf(h, "BOB", me["BOB"]) = SentAt(h[n].from, "BOB") + 0 /\ 0 < Count(h[n], "BOB")
        <3>1. SentAt(t.from, "BOB") \in Nat
            BY <1>5, CountsOf, Names
        <3> QED BY <1>1, <1>2, <1>5, <1>8, <3>1
    <2> QED BY <1>1, <1>4, <2>1, Names, NotAhead
<1>10. PICK c : c = [r |-> r, localR |-> t.chose.localR, x |-> t.chose.x]
    OBVIOUS
<1>11. PICK u : u = Choosing(t, c)
    OBVIOUS
<1>12. Alike(t, u) /\ u.chose.r = r /\ u.chose.localR = t.chose.localR /\ u.chose.x = t.chose.x
    BY <1>10, <1>11 DEF Choosing, Alike
<1>13. Chosen(u)
    <2>1. Own(u) /\ Index(u) = Index(t)
        BY <1>1, <1>12 DEF Own, Index, Alike
    <2> QED BY <1>1, <1>5, <1>12, <2>1 DEF Chosen, Choices
<1>14. ASSUME NEW p \in Party
       PROVE  \/ me[p].cnt < n
              \/ /\ me[p].cnt = n /\ me[p].pc # "idle" /\ InCall(u, p, me[p])
                 /\ \A o \in 0..(Written(h[n], p, me[p].pc, me[p].at) - 1) :
                       MessageOf(u, p, o) = MessageOf(h[n], p, o)
    <2>1. CASE p = "BOB"
        BY <1>2, <2>1
    <2>2. CASE p = "ALICE" /\ me["ALICE"].cnt = n /\ me["ALICE"].pc # "idle"
        <3>1. PICK a : a = me["ALICE"]
            OBVIOUS
        <3>2. InCall(t, "ALICE", a) /\ a.at \in Nat
            BY <1>1, <2>2, <3>1, Names, WithinCall
        <3>3. WasRead(t, "ALICE", a.pc, a.at) <= 0
            BY <1>9, <2>2, <3>1
        <3>4. StageOK(t, "ALICE", a.pc, a.at)
            BY <3>2 DEF InCall
        <3>5. a.pc = "pre" /\ a.at = 0
            BY <1>6, <1>7, <1>8, <3>2, <3>3, <3>4 DEF StageOK, WasRead, Ferret
        <3>6. InCall(u, "ALICE", a)
            <4>1. StageOK(u, "ALICE", a.pc, a.at)
                BY <1>12, <3>4, Names, AlikeFacts
            <4>2. PosAt(u, a.pc, a.at) = PosAt(t, a.pc, a.at)
                BY <1>12 DEF PosAt, Alike, First
            <4>3. DataAt(u, "ALICE", a.pc, a.at) = DataAt(t, "ALICE", a.pc, a.at)
                <5>1. CallOK(u, n) /\ Index(u) = Index(t)
                    BY <1>5, <1>12, AlikeFacts DEF Index, Alike
                <5>2. RowsBefore(u, "ALICE", 0) = RowsBefore(t, "ALICE", 0)
                    BY <1>5, <5>1, Names, NoRows
                <5> QED BY <3>5, <5>2 DEF DataAt, Early
            <4>4. KeyAt(u, "ALICE", a.pc, a.at) = KeyAt(t, "ALICE", a.pc, a.at)
                BY <1>12 DEF KeyAt, Alike
            <4>5. Ferret(u) = Ferret(t)
                BY <1>12 DEF Alike, Ferret
            <4> QED BY <1>12, <3>2, <3>5, <4>1, <4>2, <4>3, <4>4, <4>5 DEF InCall, Alike, Sec
        <3>7. Written(t, "ALICE", a.pc, a.at) = 0
            BY <1>7, <3>5 DEF Written
        <3> QED BY <1>1, <2>2, <3>1, <3>6, <3>7
    <2>3. CASE p = "ALICE" /\ me["ALICE"].cnt < n
        BY <2>3
    <2> QED BY <1>9, <2>1, <2>2, <2>3 DEF Party
<1>15. PICK g : g = [h EXCEPT ![n] = u]
    OBVIOUS
<1>16. Inv(cs, g)
    <2>1. PICK d : u = Choosing(h[n], d)
        BY <1>1, <1>11
    <2>2. n \in 1..Len(h)
        OBVIOUS
    <2>3. \A p \in Party :
              \/ me[p].cnt < n
              \/ /\ me[p].cnt = n /\ me[p].pc # "idle" /\ InCall(u, p, me[p])
                 /\ \A o \in 0..(Written(h[n], p, me[p].pc, me[p].at) - 1) :
                       MessageOf(u, p, o) = MessageOf(h[n], p, o)
        BY <1>14
    <2> QED BY <1>13, <1>15, <2>1, <2>2, <2>3, Rechosen
<1>17. Len(g) = Len(h) /\ g[n] = u
    BY <1>3, <1>4, <1>15 DEF IsSeq
<1>18. Redrawn(cs, h, n, r, g)
    BY <1>1, <1>12, <1>16, <1>17 DEF Redrawn
<1> QED BY <1>18

LEMMA BeginHas ==
    ASSUME NEW p \in Party, Begin(p)
    PROVE  \E c \in Calls : \E r \in [0..(c.len - 1) -> BOOLEAN] :
              /\ NextCall(p, c)
              /\ ~(c.kind = "gen" /\ (conf.malicious \/ ~c.given)) => r = c.r
              /\ me[p].pc = "idle" /\ Silent /\ conf' = conf
              /\ me' = [me EXCEPT ![p] = Entered(p, Headed(me[p], c, r), c)]
<1>1. PICK c \in Calls, ones \in Drawn :
         LET own == c.kind = "gen" /\ (conf.malicious \/ ~c.given)
             rec == [me[p] EXCEPT !.cnt = @ + 1, !.call = c,
                                  !.r = IF own THEN Bits(c.len, ones) ELSE c.r,
                                  !.data = [i \in 0..(c.len - 1) |-> Junk]]
         IN  /\ NextCall(p, c)
             /\ me' = [me EXCEPT ![p] =
                  IF conf.provider = "ferret" THEN Goto(rec, "rcot")
                  ELSE IF c.kind = "setup" /\ c.given THEN Goto(SetUp(p, rec, TRUE), "return")
                  ELSE IF c.kind = "setup" \/ rec.epoch = 0 THEN Goto(SetUp(p, rec, FALSE), "base")
                  ELSE Goto(rec, "pre")]
    BY DEF Begin
<1> DEFINE own == c.kind = "gen" /\ (conf.malicious \/ ~c.given)
           r == IF own THEN Bits(c.len, ones) ELSE c.r
<1>2. r \in [0..(c.len - 1) -> BOOLEAN]
    <2>1. Bits(c.len, ones) \in [0..(c.len - 1) -> BOOLEAN]
        BY DEF Bits
    <2>2. c.r \in [0..(c.len - 1) -> BOOLEAN]
        BY CallFacts
    <2> QED BY <2>1, <2>2
<1>3. ~own => r = c.r
    OBVIOUS
<1>4. NextCall(p, c)
    BY <1>1
<1>5. me' = [me EXCEPT ![p] = Entered(p, Headed(me[p], c, r), c)]
    BY <1>1 DEF Entered, Headed
<1>6. me[p].pc = "idle" /\ Silent /\ conf' = conf
    BY DEF Begin
<1>7. PICK q : q = r
    OBVIOUS
<1>8. q \in [0..(c.len - 1) -> BOOLEAN] /\ (~own => q = c.r)
      /\ me' = [me EXCEPT ![p] = Entered(p, Headed(me[p], c, q), c)]
    BY <1>2, <1>3, <1>5, <1>7
<1> QED BY <1>4, <1>6, <1>8

\* p enters the call after those it has made, which the history already knows.
LEMMA EntersKnown ==
    ASSUME NEW cs, NEW h, Inv(cs, h), NEW p \in Party, NEW a, a = me[p], a.pc = "idle",
           NEW n \in 1..Len(h), n - 1 = a.cnt, NEW r, p = "BOB" => r = h[n].chose.r, Silent, conf' = conf,
           Turns(p, Entered(p, Headed(a, h[n].call, r), h[n].call))
    PROVE  Inv(cs, h)'
<1>1. PICK t : t = h[n]
    OBVIOUS
<1>2. /\ a.cnt \in 0..Len(h) /\ Len(h) \in Nat
      /\ a.epoch = PlaceOf(h, a.cnt).epoch /\ a.pos = PlaceOf(h, a.cnt).pos
      /\ a.gid = PlaceOf(h, a.cnt).gid
      /\ (p = "ALICE" /\ conf.provider # "ferret" /\ a.epoch > 0 =>
             a.key = KeysIn(conf, a.epoch, BaseN))
      /\ p = "ALICE" => SecretOK(conf, a)
    BY IdlePlace
<1>3. HistoryOK(conf, cs, h) /\ Record(a)
    BY PartsOf
<1>4. CallOK(t, n) /\ t.from = PlaceOf(h, a.cnt) /\ t.conf = conf
    BY <1>1, <1>3, HistoryFacts
<1>5. PICK b : b = Entered(p, Headed(a, t.call, r), t.call)
    OBVIOUS
<1>6. AtHead(t, p, a, b)
    <2>1. a.epoch = t.from.epoch /\ a.pos = t.from.pos /\ a.gid = t.from.gid
        BY <1>2, <1>4
    <2>2. (p = "ALICE" /\ ~Ferret(t) /\ a.epoch > 0) => a.key = KeysIn(conf, a.epoch, BaseN)
        BY <1>2, <1>4 DEF Ferret
    <2>3. p = "BOB" => r = t.chose.r
        BY <1>1
    <2> QED BY <1>2, <1>3, <1>4, <1>5, <2>1, <2>2, <2>3, EnteredIs
<1>7. n = a.cnt + 1
    BY <1>2
<1>8. Turns(p, b)
    BY <1>1, <1>5
<1>9. /\ Record(b) /\ b.cnt = n /\ b.out = a.out /\ b.local = a.local /\ b.at = 0
      /\ b.deltas = a.deltas
      /\ b.pc # "idle" /\ InCall(t, p, b) /\ Written(t, p, b.pc, 0) = 0 /\ WasRead(t, p, b.pc, 0) = 0
    BY <1>6, <1>7 DEF AtHead
<1> QED BY <1>1, <1>7, <1>8, <1>9, Enters

\* The next call of p is c, after which the calls are ds; r are choice bits for it.
Follows(p, a, cs, c, ds) ==
    IF a.cnt < Len(cs) THEN c = cs[a.cnt + 1] /\ ds = cs
    ELSE ds = Append(cs, c) /\ Offered(c, a.epoch) /\ Len(cs) <= MaxCalls
Heads(c, r) == /\ r \in [0..(c.len - 1) -> BOOLEAN]
               /\ ~(c.kind = "gen" /\ (conf.malicious \/ ~c.given)) => r = c.r

Known(ds, n, p, c, r, g) == /\ Inv(ds, g) /\ n \in 1..Len(g) /\ g[n].call = c
                            /\ p = "BOB" => r = g[n].chose.r

\* There is a history in which the next call of p is c, with the choices r.
LEMMA NextIsKnown ==
    ASSUME NEW cs, NEW h, Inv(cs, h), NEW p \in Party, NEW a, a = me[p], a.pc = "idle",
           NEW n, n - 1 = a.cnt, NEW c \in Calls, NEW r, Heads(c, r),
           NEW ds, Follows(p, a, cs, c, ds), n \in Nat
    PROVE  \E g : Known(ds, n, p, c, r, g)
<1>1. /\ a.cnt \in 0..Len(h) /\ Len(h) \in Nat /\ a.epoch = PlaceOf(h, a.cnt).epoch
    BY IdlePlace
<1>2. n = a.cnt + 1 /\ n - 1 = a.cnt /\ n \in Nat
    BY <1>1
<1>3. HistoryOK(conf, cs, h) /\ IsSeq(h) /\ Len(h) = Len(cs) /\ cs \in Seq(Calls)
    BY PartsOf, HistoryFacts
<1>4. r \in [0..(c.len - 1) -> BOOLEAN] /\ (~(c.kind = "gen" /\ (conf.malicious \/ ~c.given)) => r = c.r)
    BY DEF Heads
<1>6. CASE a.cnt < Len(cs)
    <2>1. c = cs[n] /\ ds = cs
        BY <1>2, <1>6 DEF Follows
    <2>2. n \in 1..Len(h)
        BY <1>1, <1>2, <1>3, <1>6
    <2>3. /\ CallOK(h[n], n) /\ h[n].call = c /\ h[n].conf = conf /\ Chosen(h[n])
        BY <1>3, <2>1, <2>2, HistoryFacts
    <2>4. Choices(h[n], r)
        BY <1>4, <2>3 DEF Index, Choices
    <2>5. CASE p = "BOB" /\ Own(h[n])
        <3>1. \E g : Redrawn(cs, h, n, r, g)
            <4>1. a = me["BOB"] /\ a.pc = "idle"
                BY <2>5
            <4>2. n \in 1..Len(h) /\ n - 1 = a.cnt
                BY <1>2, <2>2
            <4>3. Own(h[n]) /\ Choices(h[n], r)
                BY <2>4, <2>5
            <4> QED BY <4>1, <4>2, <4>3, BobDraws
        <3>2. PICK g : Inv(cs, g) /\ Len(g) = Len(h) /\ g[n].chose.r = r /\ Alike(h[n], g[n])
            BY <3>1 DEF Redrawn
        <3>3. n \in 1..Len(g) /\ g[n].call = c
            BY <2>2, <2>3, <3>2 DEF Alike
        <3> QED BY <2>1, <3>2, <3>3 DEF Known
    <2>6. CASE ~(p = "BOB" /\ Own(h[n]))
        <3>1. p = "BOB" => r = h[n].chose.r
            <4>1. ~Own(h[n]) => r = c.r /\ h[n].chose.r = c.r
                BY <1>4, <2>3 DEF Own, Chosen
            <4> QED BY <2>6, <4>1
        <3> QED BY <2>1, <2>2, <2>3, <3>1 DEF Known
    <2> QED BY <2>5, <2>6
<1>7. CASE ~(a.cnt < Len(cs))
    <2>1. ds = Append(cs, c) /\ Offered(c, a.epoch) /\ Len(h) <= MaxCalls
        BY <1>3, <1>7 DEF Follows
    <2>2. a.cnt = Len(h) /\ n = Len(h) + 1
        BY <1>1, <1>2, <1>3, <1>7
    <2>3. Offers(conf, c, PlaceOf(h, Len(h)).epoch)
        <3>1. Offers(conf, c, a.epoch)
            BY <2>1 DEF Offered, Offers
        <3> QED BY <1>1, <2>2, <3>1
    <2>4. PICK x : x = [r |-> r, localR |-> [k \in CheckIndex |-> FALSE],
                        x |-> [i \in 0..(c.len - 1) |-> FALSE]]
        OBVIOUS
    <2>5. PICK t : t = [conf |-> conf, nr |-> Len(h) + 1, call |-> c, from |-> PlaceOf(h, Len(h)),
                        to |-> After(conf, c, PlaceOf(h, Len(h))), chose |-> x]
        OBVIOUS
    <2>6. t.call = c /\ t.chose = x /\ t.conf = conf
        BY <2>5
    <2>7. /\ t.chose.r = r /\ t.chose.localR = [k \in CheckIndex |-> FALSE]
          /\ t.chose.x = [i \in 0..(c.len - 1) |-> FALSE]
        BY <2>4, <2>6
    <2>8. Chosen(t)
        <3>1. Own(t) <=> (c.kind = "gen" /\ (conf.malicious \/ ~c.given))
            BY <2>6 DEF Own
        <3>2. Index(t) = 0..(c.len - 1)
            BY <2>6 DEF Index
        <3>3. t.chose.localR \in [CheckIndex -> BOOLEAN] /\ t.chose.x \in [Index(t) -> BOOLEAN]
            BY <2>7, <3>2
        <3>4. t.chose.r \in [Index(t) -> BOOLEAN] /\ (~Own(t) => t.chose.r = t.call.r)
            BY <1>4, <2>6, <2>7, <3>1, <3>2
        <3> QED BY <3>3, <3>4 DEF Chosen
    <2>9. Inv(Append(cs, c), Append(h, t))
        BY <2>1, <2>3, <2>5, <2>8, Extended
    <2>10. PICK g : g = Append(h, t)
        OBVIOUS
    <2>11. Len(g) = Len(h) + 1 /\ g[Len(h) + 1] = t
        BY <1>3, <2>10, Appended
    <2>12. Inv(ds, g) /\ n \in 1..Len(g) /\ g[n] = t
        BY <1>1, <2>1, <2>2, <2>9, <2>10, <2>11
    <2> QED BY <2>6, <2>7, <2>12 DEF Known
<1> QED BY <1>6, <1>7

LEMMA BeginStep ==
    ASSUME NEW h, Inv(calls, h), NEW p \in Party, Begin(p)
    PROVE  \E g : Inv(calls, g)'
<1>0. PICK c \in Calls : \E r \in [0..(c.len - 1) -> BOOLEAN] :
              /\ NextCall(p, c)
              /\ ~(c.kind = "gen" /\ (conf.malicious \/ ~c.given)) => r = c.r
              /\ me[p].pc = "idle" /\ Silent /\ conf' = conf
              /\ me' = [me EXCEPT ![p] = Entered(p, Headed(me[p], c, r), c)]
    BY BeginHas
<1>1. PICK r \in [0..(c.len - 1) -> BOOLEAN] :
              /\ NextCall(p, c)
              /\ ~(c.kind = "gen" /\ (conf.malicious \/ ~c.given)) => r = c.r
              /\ me[p].pc = "idle" /\ Silent /\ conf' = conf
              /\ me' = [me EXCEPT ![p] = Entered(p, Headed(me[p], c, r), c)]
    BY <1>0
<1>2. PICK a : a = me[p]
    OBVIOUS
<1>3. PICK n : n = a.cnt + 1
    OBVIOUS
<1>4. PICK ds : ds = calls'
    OBVIOUS
<1>5. PICK cs : cs = calls
    OBVIOUS
<1>6. Inv(cs, h)
    BY <1>5
<1>7. a.pc = "idle"
    BY <1>1, <1>2
<1>8. n - 1 = a.cnt /\ n \in Nat
    <2>1. a.cnt \in 0..Len(h) /\ Len(h) \in Nat
        BY <1>2, <1>6, <1>7, IdlePlace
    <2> QED BY <1>3, <2>1
<1>9. Follows(p, a, cs, c, ds) /\ Heads(c, r)
    <2>1. Len(cs) \in Nat /\ MaxCalls \in Nat
        BY <1>6, CotAssumption, HistoryFacts DEF Inv
    <2>2. a.cnt < Len(cs) => c = cs[a.cnt + 1] /\ ds = cs
        BY <1>1, <1>2, <1>4, <1>5 DEF NextCall
    <2>3. ~(a.cnt < Len(cs)) =>
             /\ Len(cs) < MaxCalls + (IF conf.provider = "base" THEN 1 ELSE 0)
             /\ Offered(c, a.epoch) /\ ds = Append(cs, c)
        BY <1>1, <1>2, <1>4, <1>5 DEF NextCall
    <2> QED BY <1>1, <2>1, <2>2, <2>3 DEF Follows, Heads
<1>10. PICK g : Known(ds, n, p, c, r, g)
    BY <1>2, <1>6, <1>7, <1>8, <1>9, NextIsKnown
<1>11. Turns(p, Entered(p, Headed(a, g[n].call, r), g[n].call)) /\ Silent /\ conf' = conf
    BY <1>1, <1>2, <1>10 DEF Turns, Known
<1>12. Inv(ds, g)'
    <2>1. Inv(ds, g) /\ n \in 1..Len(g) /\ (p = "BOB" => r = g[n].chose.r)
        BY <1>10 DEF Known
    <2> QED BY <1>2, <1>7, <1>8, <1>11, <2>1, EntersKnown
<1> QED BY <1>4, <1>12

(*------------------------- the inductive invariant ----------------------*)
LEMMA InitInv ==
    ASSUME Init
    PROVE  IndInv
<1>1. PICK cs : cs = <<>>
    OBVIOUS
<1>2. IsSeq(cs) /\ Len(cs) = 0 /\ cs \in Seq(Calls)
    BY <1>1, Empty
<1>3. HistoryOK(conf, cs, cs)
    <2>1. ConfOK(conf)
        <3>1. conf.s \in [0..(MaxCalls + 1) -> Vector]
            BY CotAssumption DEF Init
        <3>2. conf.provider # "iknp" => \A e \in 0..(MaxCalls + 1) : conf.s[e][0]
            BY <3>1 DEF Init
        <3>3. /\ conf.provider \in {"iknp", "base", "ferret"} /\ conf.malicious \in BOOLEAN
              /\ conf.provider = "ferret" => ~conf.malicious
            BY CotAssumption DEF Init
        <3> QED BY <3>1, <3>2, <3>3 DEF ConfOK
    <2>2. Len(cs) <= MaxCalls + 1
        BY <1>2, CotAssumption
    <2> QED BY <1>2, <2>1, <2>2 DEF HistoryOK
<1>4. ChannelOK
    BY Empty DEF Init, ChannelOK, Quiet
<1>5. /\ me = [p \in Party |-> me[p]]
      /\ \A p \in Party : me[p] = Start(p)
    BY DEF Init
<1>6. ASSUME NEW p \in Party
      PROVE  LET a == Start(p)
             IN  /\ Record(a) /\ a.pc = "idle" /\ a.at = 0 /\ a.cnt = 0 /\ a.out = <<>>
                 /\ a.epoch = 0 /\ a.pos = 0 /\ a.gid = 0 /\ a.local = [k \in Slot |-> Junk]
                 /\ a.deltas = <<>>
                 /\ a.delta = IF p = "ALICE" /\ conf.provider = "ferret" THEN conf.s[0] ELSE Zero
    BY DEF Start, Record, Fields
<1>7. ASSUME NEW p \in Party
      PROVE  PartyOK(conf, cs, p, Start(p))
    <2>1. Between(cs, p, Start(p))
        BY <1>6 DEF Between, PlaceOf, Origin
    <2>2. \A k \in Slot : Start(p).local[k].plus \in Vector
        <3>1. Junk.plus \in Vector
            BY DEF Junk, Zero, Vector
        <3>2. ASSUME NEW k \in Slot
              PROVE  Start(p).local[k] = Junk
            BY <1>6
        <3> QED BY <3>1, <3>2
    <2>3. IsSeq(Start(p).out) /\ Len(Start(p).out) = 0
        BY <1>6, Empty
    <2>4. p = "ALICE" => DeltasOK(cs, Start(p)) /\ SecretOK(conf, Start(p))
        <3>1. Start(p).deltas = <<>>
            BY <1>6
        <3>2. DeltasOK(cs, Start(p))
            BY <2>3, <3>1, Empty DEF DeltasOK
        <3> QED BY <1>6, <3>2 DEF SecretOK, SecretAt
    <2> QED BY <1>2, <1>6, <2>1, <2>2, <2>3, <2>4 DEF PartyOK
<1>8. ASSUME NEW p \in Party
      PROVE  Stretch(cs, p, 0, Outgoing(p), 0, 0)
    <2>1. Outgoing(p) = <<>>
        <3>1. net[Peer(p)] = <<>> /\ pend[p] = <<>>
            BY Peers DEF Init, Quiet
        <3>2. <<>> \o <<>> = <<>>
            BY Empty, JoinedThree
        <3> QED BY <3>1, <3>2 DEF Outgoing
    <2> QED BY <2>1, Empty DEF Stretch
<1>9. ASSUME NEW p \in Party
      PROVE  SentOf(cs, p, Start(p)) = 0 /\ ReadOf(cs, p, Start(p)) = 0
    BY <1>6, OriginFacts, Peers DEF SentOf, ReadOf, PlaceOf
<1>10. Inv(cs, cs)
    <2>1. \A p \in Party : Stretch(cs, p, me[p].cnt, Outgoing(p), ReadOf(cs, Peer(p), me[Peer(p)]),
                                   SentOf(cs, p, me[p]))
        <3>1. ASSUME NEW p \in Party
              PROVE  Stretch(cs, p, me[p].cnt, Outgoing(p), ReadOf(cs, Peer(p), me[Peer(p)]),
                             SentOf(cs, p, me[p]))
            <4>1. Peer(p) \in Party
                BY Peers
            <4>2. me[p].cnt = 0 /\ ReadOf(cs, Peer(p), me[Peer(p)]) = 0 /\ SentOf(cs, p, me[p]) = 0
                BY <1>5, <1>6, <1>9, <4>1
            <4> QED BY <1>8, <4>2
        <3> QED BY <3>1
    <2> QED BY <1>3, <1>4, <1>5, <1>6, <1>7, <2>1 DEF Inv
<1>11. calls = cs
    BY <1>1 DEF Init
<1> QED BY <1>10, <1>11 DEF IndInv

LEMMA AliceStep ==
    ASSUME NEW cs, NEW h, Inv(cs, h), Alice
    PROVE  Inv(cs, h)' /\ calls' = calls
<1>1. CASE AliceSendPoints
    BY <1>1, AliceSendPointsStep DEF AliceSendPoints, Become
<1>2. CASE AliceRecvKey
    BY <1>2, AliceRecvKeyStep DEF AliceRecvKey, Become
<1>3. CASE AlicePreBlock
    BY <1>3, AlicePreBlockStep DEF AlicePreBlock, Become
<1>4. CASE AliceCheckSeed
    BY <1>4, AliceCheckSeedStep DEF AliceCheckSeed, Become
<1>5. CASE AliceCheckSum
    BY <1>5, AliceCheckSumStep DEF AliceCheckSum, Become
<1>6. CASE AliceRcot
    BY <1>6, AliceRcotStep DEF AliceRcot, Become
<1>7. CASE AliceOnline
    BY <1>7, AliceOnlineStep DEF AliceOnline, Become
<1>8. CASE AliceTidy
    BY <1>8, AliceTidyStep DEF AliceTidy, Finish, Become
<1>9. CASE AliceSendKey
    BY <1>9, AliceSendKeyStep DEF AliceSendKey, Become
<1>10. CASE AliceRot
    BY <1>10, AliceRotStep DEF AliceRot, Finish, Become
<1>11. CASE AliceBatch
    BY <1>11, AliceBatchStep DEF AliceBatch, Become
<1>12. CASE AliceItems
    BY <1>12, AliceItemsStep DEF AliceItems, Finish, Become
<1>13. CASE ReturnCot("ALICE")
    BY <1>13, Names, ReturnCotStep DEF ReturnCot, Finish, Become
<1>14. CASE ReturnOt("ALICE")
    BY <1>14, Names, ReturnOtStep DEF ReturnOt, Finish, Become
<1>15. CASE Flush("ALICE")
    BY <1>15, Names, FlushStep DEF Flush
<1> QED BY <1>1, <1>2, <1>3, <1>4, <1>5, <1>6, <1>7, <1>8, <1>9, <1>10, <1>11, <1>12, <1>13, <1>14,
           <1>15 DEF Alice

LEMMA BobStep ==
    ASSUME NEW cs, NEW h, Inv(cs, h), Bob
    PROVE  (\E g : Inv(cs, g)') /\ calls' = calls
<1>1. CASE BobSendA
    BY <1>1, BobSendAStep DEF BobSendA, Become
<1>2. CASE BobRecvPoint
    BY <1>2, BobRecvPointStep DEF BobRecvPoint, Become
<1>3. CASE BobSendKeys
    BY <1>3, BobSendKeysStep DEF BobSendKeys, Become
<1>4. CASE \E ones \in Drawn \cup {{}} : BobPreBlock(Bits(CheckRows, ones))
    BY <1>4, BobPreBlockStep DEF BobPreBlock, Become
<1>5. CASE BobCheckSeed
    BY <1>5, BobCheckSeedStep DEF BobCheckSeed, Become
<1>6. CASE BobCheckSum
    BY <1>6, BobCheckSumStep DEF BobCheckSum, Become
<1>7. CASE BobTidy
    BY <1>7, BobTidyStep DEF BobTidy, Finish, Become
<1>8. CASE \E ones \in Drawn : BobOnline(ones)
    BY <1>8, BobOnlineStep DEF BobOnline, Become
<1>9. CASE BobRecvKey
    BY <1>9, BobRecvKeyStep DEF BobRecvKey, Become
<1>10. CASE BobRot
    BY <1>10, BobRotStep DEF BobRot, Finish, Become
<1>11. CASE BobBatch
    BY <1>11, BobBatchStep DEF BobBatch, Become
<1>12. CASE BobItem
    BY <1>12, BobItemStep DEF BobItem, Finish, Become
<1>13. CASE ReturnCot("BOB")
    BY <1>13, Names, ReturnCotStep DEF ReturnCot, Finish, Become
<1>14. CASE ReturnOt("BOB")
    BY <1>14, Names, ReturnOtStep DEF ReturnOt, Finish, Become
<1>15. CASE Flush("BOB")
    BY <1>15, Names, FlushStep DEF Flush
<1> QED BY <1>1, <1>2, <1>3, <1>4, <1>5, <1>6, <1>7, <1>8, <1>9, <1>10, <1>11, <1>12, <1>13, <1>14,
           <1>15 DEF Bob

LEMMA NextInv ==
    ASSUME IndInv, [Next]_vars
    PROVE  IndInv'
<1>1. PICK h : Inv(calls, h)
    BY DEF IndInv
<1>2. PICK cs : cs = calls
    OBVIOUS
<1>3. Inv(cs, h)
    BY <1>1, <1>2
<1>4. CASE Alice
    <2>1. Inv(cs, h)' /\ calls' = cs
        BY <1>2, <1>3, <1>4, AliceStep
    <2> QED BY <2>1 DEF IndInv
<1>5. CASE Bob
    <2>1. (\E g : Inv(cs, g)') /\ calls' = cs
        BY <1>2, <1>3, <1>5, BobStep
    <2> QED BY <2>1 DEF IndInv
<1>6. CASE \E p \in Party : Begin(p)
    <2>1. \E g : Inv(calls, g)'
        BY <1>1, <1>6, BeginStep
    <2> QED BY <2>1 DEF IndInv
<1>7. CASE UNCHANGED vars
    <2>1. Inv(calls, h)'
        BY <1>1, <1>7 DEF Inv, ChannelOK, Outgoing, vars
    <2> QED BY <2>1 DEF IndInv
<1> QED BY <1>4, <1>5, <1>6, <1>7 DEF Next

LEMMA AlwaysInv == Spec => []IndInv
<1>1. Init => IndInv
    BY InitInv
<1>2. IndInv /\ [Next]_vars => IndInv'
    BY NextInv
<1> QED BY <1>1, <1>2, PTL DEF Spec

(*------------------------ what the invariant implies --------------------*)
\* The counters of a party within a call
LEMMA CallCounters ==
    ASSUME NEW cs, NEW h, Inv(cs, h), NEW p \in Party, NEW a, a = me[p], a.pc # "idle"
    PROVE  /\ a.epoch \in Nat /\ a.gid % Batch = 0
           /\ conf.provider # "ferret" => a.pos % Width = 0
           /\ a.pc = "pre" => a.at < Rounds(a.call.len)
           /\ a.pc = "ot" => a.at <= Batches(a.call.len)
<1>1. PICK t : t = h[a.cnt]
    OBVIOUS
<1>2. CallOK(t, a.cnt) /\ InCall(t, p, a) /\ t.conf = conf /\ a.at \in Nat
    BY <1>1, WithinCall
<1>3. /\ t.from \in Places /\ t.to \in Places /\ t.call \in Calls
      /\ t.from.gid % Batch = 0 /\ (~Ferret(t) => t.from.pos % Width = 0 /\ t.to.pos % Width = 0)
      /\ First(t) \in Nat /\ (~Ferret(t) => First(t) % Width = 0)
    BY <1>2, PlacesOf
<1>4. t.from.gid \in Nat /\ t.to.epoch \in Nat /\ t.call.len \in Nat
    BY <1>3, CallFacts DEF Places
<1>5. /\ a.call = t.call /\ StageOK(t, p, a.pc, a.at) /\ a.epoch = t.to.epoch
      /\ a.pos = PosAt(t, a.pc, a.at)
      /\ a.gid = t.from.gid + (IF a.pc = "ot" THEN a.at * Batch ELSE 0)
    BY <1>2 DEF InCall
<1>6. a.gid % Batch = 0
    <2>1. CASE a.pc = "ot"
        <3>1. a.at * Batch \in Nat /\ (a.at * Batch) % Batch = 0 /\ Batch \in Nat \ {0}
            BY <1>2, CotAssumption, MultipleOf
        <3>2. (t.from.gid + a.at * Batch) % Batch = 0
            BY <1>3, <1>4, <3>1, MultipleSum
        <3> QED BY <1>5, <2>1, <3>2
    <2>2. CASE a.pc # "ot"
        BY <1>3, <1>4, <1>5, <2>2
    <2> QED BY <2>1, <2>2
<1>7. ASSUME conf.provider # "ferret"
      PROVE  a.pos % Width = 0
    <2>1. ~Ferret(t)
        BY <1>2, <1>7 DEF Ferret
    <2>2. CASE a.pc = "pre"
        <3>1. Moved(t.call.len, a.at) \in Nat /\ Moved(t.call.len, a.at) % Width = 0
            BY <1>2, <1>4, MovedFacts
        <3>2. (First(t) + Moved(t.call.len, a.at)) % Width = 0
            BY <1>3, <2>1, <3>1, MultipleSum, IknpAssumption
        <3>3. a.pos = First(t) + Moved(t.call.len, a.at)
            BY <1>5, <2>2 DEF PosAt, Early
        <3> QED BY <3>2, <3>3
    <2>3. CASE a.pc # "pre"
        <3>1. a.pos = t.from.pos \/ a.pos = t.to.pos
            BY <1>5, <2>3 DEF PosAt
        <3> QED BY <1>3, <2>1, <3>1
    <2> QED BY <2>2, <2>3
<1>8. a.pc = "pre" => a.at < Rounds(a.call.len)
    <2>1. a.pc = "pre" => a.at < RoundsOf(t)
        BY <1>5 DEF StageOK
    <2>2. RoundsOf(t) = Rounds(a.call.len)
        BY <1>2, <1>5, ConfOps DEF RoundsOf
    <2> QED BY <2>1, <2>2
<1>9. a.pc = "ot" => a.at <= Batches(a.call.len)
    BY <1>5 DEF StageOK
<1> QED BY <1>4, <1>5, <1>6, <1>7, <1>8, <1>9

LEMMA TypeIs ==
    ASSUME IndInv
    PROVE  TypeOK
<1>1. PICK h : Inv(calls, h)
    BY DEF IndInv
<1>2. PICK cs : cs = calls
    OBVIOUS
<1>3. ASSUME NEW p \in Party, NEW a, a = me[p]
      PROVE  /\ a.cnt \in 0..Len(calls) /\ a.epoch \in Nat
             /\ conf.provider # "ferret" => a.pos % Width = 0
             /\ a.gid % Batch = 0
             /\ \A k \in Slot : a.local[k].plus \in Vector
             /\ a.pc = "pre" => a.at < Rounds(a.call.len)
             /\ a.pc = "ot" => a.at <= Batches(a.call.len)
             /\ Len(a.out) = a.cnt - (IF a.pc = "idle" THEN 0 ELSE 1)
    <2>1. HistoryOK(conf, cs, h) /\ PartyOK(conf, h, p, a) /\ Inv(cs, h)
        BY <1>1, <1>2, <1>3, PartsOf
    <2>2. Len(h) = Len(calls)
        BY <1>2, <2>1, HistoryFacts
    <2>3. /\ a.cnt \in 0..Len(h) /\ Len(a.out) = a.cnt - (IF a.pc = "idle" THEN 0 ELSE 1)
          /\ \A k \in Slot : a.local[k].plus \in Vector
        BY <2>1 DEF PartyOK
    <2>4. CASE a.pc = "idle"
        <3>1. PICK at : at = PlaceOf(h, a.cnt)
            OBVIOUS
        <3>2. at \in Places /\ at.gid % Batch = 0 /\ (conf.provider # "ferret" => at.pos % Width = 0)
            BY <2>1, <2>3, <3>1, PlaceFacts
        <3>3. a.epoch = at.epoch /\ a.pos = at.pos /\ a.gid = at.gid
            BY <1>3, <2>1, <2>4, <3>1, IdlePlace
        <3>4. at.epoch \in Nat
            BY <3>2 DEF Places
        <3> QED BY <2>2, <2>3, <2>4, <3>2, <3>3, <3>4
    <2>5. CASE a.pc # "idle"
        BY <1>3, <2>1, <2>2, <2>3, <2>5, CallCounters
    <2> QED BY <2>4, <2>5
<1> QED BY <1>3 DEF TypeOK

LEMMA InStepIs ==
    ASSUME IndInv
    PROVE  InStep
<1>1. PICK h : Inv(calls, h)
    BY DEF IndInv
<1>2. PICK cs : cs = calls
    OBVIOUS
<1>3. Inv(cs, h)
    BY <1>1, <1>2
<1>4. ASSUME A.cnt = B.cnt, A.pc = "idle", B.pc = "idle"
      PROVE  A.pos = B.pos /\ A.gid = B.gid /\ A.epoch = B.epoch
    <2>1. PICK at : at = PlaceOf(h, A.cnt)
        OBVIOUS
    <2>2. A = me["ALICE"] /\ B = me["BOB"]
        BY DEF A, B
    <2>3. A.epoch = at.epoch /\ A.pos = at.pos /\ A.gid = at.gid
        BY <1>3, <1>4, <2>1, <2>2, Names, IdlePlace
    <2>4. B.epoch = at.epoch /\ B.pos = at.pos /\ B.gid = at.gid
        BY <1>3, <1>4, <2>1, <2>2, Names, IdlePlace
    <2> QED BY <2>3, <2>4
<1> QED BY <1>4 DEF InStep

LEMMA NoAlarmIs ==
    ASSUME IndInv
    PROVE  NoFalseAlarm
<1>1. PICK h : Inv(calls, h)
    BY DEF IndInv
<1>2. PICK cs : cs = calls
    OBVIOUS
<1>3. Inv(cs, h) /\ A = me["ALICE"]
    BY <1>1, <1>2 DEF A
<1>4. SUFFICES ASSUME A.pc = "error" PROVE FALSE
    BY DEF NoFalseAlarm
<1>5. InCall(h[A.cnt], "ALICE", A)
    BY <1>3, <1>4, Names, WithinCall
<1> QED BY <1>4, <1>5 DEF InCall, StageOK

(*------------------------- what two calls return ------------------------*)
\* A row is a record, and not the row of no stream.
RowFields == {"row", "plus", "own"}
LEMMA RowIsRecord ==
    ASSUME NEW t, NEW n, CallOK(t, n), Chosen(t), NEW p \in Party, NEW i \in Index(t),
           NEW x, x = RowOf(t, p, i)
    PROVE  x = [f \in RowFields |-> x[f]] /\ x.row # Junk.row /\ x.plus \in Vector
<1>1. PICK k : k = First(t) + i
    OBVIOUS
<1>2. k \in Nat
    <2>1. First(t) \in Nat /\ i \in Nat
        BY PlacesOf, CallFacts DEF Index
    <2> QED BY <1>1, <2>1
<1>3. Junk.row = <<0, -1>>
    BY DEF Junk
<1>4. \E e, o : \E r \in BOOLEAN : x = [row |-> <<e, k>>, plus |-> Times(r, Sec(t)), own |-> o]
    <2>1. PICK r \in BOOLEAN : x = IF Ferret(t) THEN StreamRow(t, k, r) ELSE RowIn(t, k, r)
        <3>1. t.chose.r[i] \in BOOLEAN /\ t.chose.x[i] \in BOOLEAN
            BY DEF Chosen
        <3> QED BY <1>1, <3>1 DEF RowOf
    <2>2. CASE Ferret(t)
        <3>1. x = [row |-> <<0, k>>, plus |-> Times(r, Sec(t)), own |-> FALSE]
            BY <2>1, <2>2 DEF StreamRow
        <3> QED BY <3>1
    <2>3. CASE ~Ferret(t)
        <3>1. x = [row |-> <<t.to.epoch, k>>, plus |-> Times(r, Sec(t)), own |-> TRUE]
            BY <2>1, <2>3 DEF RowIn
        <3> QED BY <3>1
    <2> QED BY <2>2, <2>3
<1>5. PICK e, o : \E r \in BOOLEAN : x = [row |-> <<e, k>>, plus |-> Times(r, Sec(t)), own |-> o]
    BY <1>4
<1>6. PICK v \in Vector : x = [row |-> <<e, k>>, plus |-> v, own |-> o]
    <2>1. PICK r \in BOOLEAN : x = [row |-> <<e, k>>, plus |-> Times(r, Sec(t)), own |-> o]
        BY <1>5
    <2>2. Times(r, Sec(t)) \in Vector
        BY SecFacts, TimesFacts
    <2> QED BY <2>1, <2>2
<1>7. x.row = <<e, k>> /\ x.plus = v /\ x = [f \in RowFields |-> x[f]]
    BY <1>6 DEF RowFields
<1>8. <<e, k>> # <<0, -1>>
    BY <1>2
<1> QED BY <1>3, <1>6, <1>7, <1>8

\* The rows of a COT are correlated by the choices.
LEMMA RowsFit ==
    ASSUME NEW t, NEW n, CallOK(t, n), Chosen(t), t.conf = conf, NEW i \in Index(t)
    PROVE  Correlated(RowOf(t, "ALICE", i), RowOf(t, "BOB", i), t.chose.r[i], Sec(t))
<1>1. PICK x : x = RowOf(t, "ALICE", i)
    OBVIOUS
<1>2. x.row # Junk.row
    BY <1>1, Names, RowIsRecord
<1>3. RowOf(t, "BOB", i) = IF t.chose.r[i] THEN Plus(t, x) ELSE x
    BY <1>1, RowsDiffer
<1> QED BY <1>1, <1>2, <1>3 DEF Correlated, Plus

\* Delta is added and the least bits are then set, or the other way round.
LEMMA LeastBits ==
    ASSUME NEW t, Sec(t) \in Vector, Sec(t)[0] = TRUE, NEW x, x = [f \in RowFields |-> x[f]],
           x.plus \in Vector, NEW y, y = Plus(t, x)
    PROVE  LeastBit(y, TRUE) = Plus(t, LeastBit(x, FALSE))
<1>1. PICK s : s = Sec(t)
    OBVIOUS
<1>2. PICK v : v = x.plus
    OBVIOUS
<1>3. /\ v = [i \in Base |-> v[i]] /\ s = [i \in Base |-> s[i]] /\ s[0] = TRUE
      /\ \A i \in Base : v[i] \in BOOLEAN /\ s[i] \in BOOLEAN
    BY <1>1, <1>2 DEF Vector
<1>4. [Xor(v, s) EXCEPT ![0] = TRUE] = Xor([v EXCEPT ![0] = FALSE], s)
    BY <1>3 DEF Xor
<1>5. PICK w : w = [v EXCEPT ![0] = FALSE]
    OBVIOUS
<1>6. PICK z : z = [Xor(v, s) EXCEPT ![0] = TRUE]
    OBVIOUS
<1>7. Xor(w, s) = z
    BY <1>4, <1>5, <1>6
<1>8. PICK f0 : f0 = FALSE
    OBVIOUS
<1>9. PICK u : u = [x EXCEPT !.own = f0, !.plus = w]
    OBVIOUS
<1>10. LeastBit(x, FALSE) = u
    BY <1>2, <1>5, <1>8, <1>9 DEF LeastBit
<1>11. PICK m : m = Xor(v, s)
    OBVIOUS
<1>12. y = [x EXCEPT !.plus = m]
    BY <1>1, <1>2, <1>11 DEF Plus
<1>13. y.plus = m
    BY <1>12 DEF RowFields
<1>14. PICK l : l = [y EXCEPT !.own = f0, !.plus = z]
    OBVIOUS
<1>15. LeastBit(y, TRUE) = l
    BY <1>6, <1>8, <1>11, <1>13, <1>14 DEF LeastBit
<1>16. u.plus = w
    BY <1>9 DEF RowFields
<1>17. PICK r : r = [u EXCEPT !.plus = z]
    OBVIOUS
<1>18. Plus(t, u) = r
    BY <1>1, <1>7, <1>16, <1>17 DEF Plus
<1>19. l = [f \in RowFields |-> l[f]] /\ r = [f \in RowFields |-> r[f]]
    BY <1>9, <1>12, <1>14, <1>17
<1>20. /\ l.row = x.row /\ l.own = f0 /\ l.plus = z
       /\ r.row = x.row /\ r.own = f0 /\ r.plus = z
    BY <1>9, <1>12, <1>14, <1>17 DEF RowFields
<1>21. \A f \in RowFields : l[f] = r[f]
    BY <1>20 DEF RowFields
<1>22. l = r
    BY <1>19, <1>21
<1> QED BY <1>10, <1>15, <1>18, <1>22

\* A base COT carries its choice bit.
Tidied(t, i, a, b) == /\ a = LeastBit(RowOf(t, "ALICE", i), FALSE)
                      /\ b = LeastBit(RowOf(t, "BOB", i), t.chose.r[i])
LEMMA LeastBitIs ==
    ASSUME NEW x, x = [f \in RowFields |-> x[f]], x.plus \in Vector, NEW r \in BOOLEAN,
           NEW b, b = LeastBit(x, r)
    PROVE  b.own = FALSE /\ b.row = x.row /\ b.plus[0] = r
<1>1. 0 \in Base
    BY IknpAssumption DEF Base
<1>2. PICK v : v = [x.plus EXCEPT ![0] = r]
    OBVIOUS
<1>3. v[0] = r
    BY <1>1, <1>2 DEF Vector
<1>4. b = [x EXCEPT !.own = FALSE, !.plus = v]
    BY <1>2 DEF LeastBit
<1> QED BY <1>3, <1>4 DEF RowFields

LEMMA GenFits ==
    ASSUME NEW t, NEW n, CallOK(t, n), Chosen(t), t.conf = conf, t.call.kind = "gen", NEW i \in Index(t),
           NEW a, NEW b, Tidied(t, i, a, b)
    PROVE  /\ ~a.own /\ ~a.plus[0] /\ ~b.own /\ b.plus[0] = t.chose.r[i]
           /\ Correlated(a, b, b.plus[0], Sec(t))
<1>1. PICK x : x = RowOf(t, "ALICE", i)
    OBVIOUS
<1>2. PICK y : y = RowOf(t, "BOB", i)
    OBVIOUS
<1>3. PICK r : r = t.chose.r[i]
    OBVIOUS
<1>4. r \in BOOLEAN
    BY <1>3 DEF Chosen
<1>5. /\ x = [f \in RowFields |-> x[f]] /\ x.row # Junk.row /\ x.plus \in Vector
      /\ y = [f \in RowFields |-> y[f]] /\ y.plus \in Vector
    BY <1>1, <1>2, Names, RowIsRecord
<1>6. y = IF r THEN Plus(t, x) ELSE x
    BY <1>1, <1>2, <1>3, RowsDiffer
<1>7. Sec(t) \in Vector /\ Sec(t)[0] = TRUE
    <2>1. t.conf.provider = "base"
        BY KindsOf, PlacesOf
    <2> QED BY <2>1, SecFacts
<1>8. a = LeastBit(x, FALSE) /\ b = LeastBit(y, r)
    BY <1>1, <1>2, <1>3 DEF Tidied
<1>9. a.own = FALSE /\ a.plus[0] = FALSE /\ a.row = x.row
    BY <1>5, <1>8, LeastBitIs
<1>10. b.own = FALSE /\ b.plus[0] = r
    BY <1>4, <1>5, <1>8, LeastBitIs
<1>11. CASE r = TRUE
    <2>1. y = Plus(t, x)
        BY <1>6, <1>11
    <2>2. b = Plus(t, a)
        BY <1>5, <1>7, <1>8, <1>11, <2>1, LeastBits
    <2> QED BY <1>3, <1>5, <1>9, <1>10, <1>11, <2>2 DEF Correlated, Plus
<1>12. CASE r = FALSE
    <2>1. b = a
        BY <1>6, <1>8, <1>12
    <2> QED BY <1>3, <1>5, <1>9, <1>10, <1>12, <2>1 DEF Correlated
<1> QED BY <1>4, <1>11, <1>12

\* A random OT gives the hash that was chosen.
LEMMA RotFits ==
    ASSUME NEW t, NEW n, CallOK(t, n), Chosen(t), t.conf = conf, NEW i \in Index(t),
           NEW a, a = <<HashOf(t, 0, RowOf(t, "ALICE", i), i),
                        HashOf(t, 0, Plus(t, RowOf(t, "ALICE", i)), i)>>,
           NEW b, b = HashOf(t, 0, RowOf(t, "BOB", i), i)
    PROVE  b.of.row # Junk.row /\ b = a[IF t.chose.r[i] THEN 2 ELSE 1]
<1>1. PICK x : x = RowOf(t, "ALICE", i)
    OBVIOUS
<1>2. PICK y : y = RowOf(t, "BOB", i)
    OBVIOUS
<1>3. y.row # Junk.row
    BY <1>2, Names, RowIsRecord
<1>4. b.of = y
    BY <1>2 DEF HashOf
<1>5. PICK z : z = Plus(t, x)
    OBVIOUS
<1>6. y = IF t.chose.r[i] THEN z ELSE x
    BY <1>1, <1>2, <1>5, RowsDiffer
<1>7. a = <<HashOf(t, 0, x, i), HashOf(t, 0, z, i)>>
    BY <1>1, <1>5
<1>8. t.chose.r[i] => a[IF t.chose.r[i] THEN 2 ELSE 1] = HashOf(t, 0, z, i)
    BY <1>7
<1>9. ~t.chose.r[i] => a[IF t.chose.r[i] THEN 2 ELSE 1] = HashOf(t, 0, x, i)
    BY <1>7
<1> QED BY <1>2, <1>3, <1>4, <1>6, <1>8, <1>9

LEMMA CallsBelong ==
    ASSUME NEW t, NEW n, CallOK(t, n), Chosen(t), t.conf = conf, NEW c, c = t.call,
           me["ALICE"].out[n] = AlicesOut(t), me["BOB"].out[n] = BobsOut(t), A.deltas[n] = Sec(t)
    PROVE  Belongs(c, n)
<1>1. PICK a : a = AlicesOut(t)
    OBVIOUS
<1>2. PICK b : b = BobsOut(t)
    OBVIOUS
<1>3. c \in Calls /\ c.len \in Nat /\ c.kind \in {"setup", "gen", "cot", "rot", "ot", "not"}
    BY PlacesOf, CallFacts
<1>4. Index(t) = 0..(c.len - 1)
    BY DEF Index
<1>5. ~Own(t) => t.chose.r = c.r
    BY DEF Chosen
<1>6. CASE c.kind = "setup"
    BY <1>6 DEF Belongs
<1>7. CASE c.kind = "not"
    <2>1. b = c.item
        BY <1>2, <1>7 DEF BobsOut
    <2> QED BY <1>2, <1>7, <2>1 DEF Belongs
<1>8. CASE c.kind = "cot"
    <2>1. a = RowsOf(t, "ALICE") /\ b = RowsOf(t, "BOB") /\ t.chose.r = c.r
        BY <1>1, <1>2, <1>5, <1>8 DEF AlicesOut, BobsOut, Own
    <2>2. ASSUME NEW i \in 0..(c.len - 1)
          PROVE  Correlated(a[i], b[i], c.r[i], Sec(t))
        <3>1. a[i] = RowOf(t, "ALICE", i) /\ b[i] = RowOf(t, "BOB", i)
            BY <1>4, <2>1 DEF RowsOf
        <3>2. Correlated(RowOf(t, "ALICE", i), RowOf(t, "BOB", i), t.chose.r[i], Sec(t))
            BY <1>4, RowsFit
        <3> QED BY <2>1, <3>1, <3>2
    <2> QED BY <1>1, <1>2, <1>8, <2>2 DEF Belongs
<1>9. CASE c.kind = "gen"
    <2>1. /\ a = [i \in Index(t) |-> LeastBit(RowOf(t, "ALICE", i), FALSE)]
          /\ b = [i \in Index(t) |-> LeastBit(RowOf(t, "BOB", i), t.chose.r[i])]
        BY <1>1, <1>2, <1>9 DEF AlicesOut, BobsOut
    <2>2. ASSUME NEW i \in 0..(c.len - 1)
          PROVE  /\ ~a[i].own /\ ~a[i].plus[0] /\ ~b[i].own
                 /\ Correlated(a[i], b[i], b[i].plus[0], Sec(t))
                 /\ c.given /\ ~conf.malicious => b[i].plus[0] = c.r[i]
        <3>1. PICK x : x = a[i]
            OBVIOUS
        <3>2. PICK y : y = b[i]
            OBVIOUS
        <3>3. Tidied(t, i, x, y)
            BY <1>4, <2>1, <3>1, <3>2 DEF Tidied
        <3>4. /\ ~x.own /\ ~x.plus[0] /\ ~y.own /\ y.plus[0] = t.chose.r[i]
              /\ Correlated(x, y, y.plus[0], Sec(t))
            BY <1>4, <1>9, <3>3, GenFits
        <3>5. c.given /\ ~conf.malicious => t.chose.r[i] = c.r[i]
            BY <1>5 DEF Own
        <3> QED BY <3>1, <3>2, <3>4, <3>5
    <2> QED BY <1>1, <1>2, <1>9, <2>2 DEF Belongs
<1>10. CASE c.kind = "rot"
    <2>1. /\ a = [i \in Index(t) |-> <<HashOf(t, 0, RowOf(t, "ALICE", i), i),
                                       HashOf(t, 0, Plus(t, RowOf(t, "ALICE", i)), i)>>]
          /\ b = [i \in Index(t) |-> HashOf(t, 0, RowOf(t, "BOB", i), i)]
          /\ t.chose.r = c.r
        BY <1>1, <1>2, <1>5, <1>10 DEF AlicesOut, BobsOut, Own
    <2>2. ASSUME NEW i \in 0..(c.len - 1)
          PROVE  b[i].of.row # Junk.row /\ b[i] = a[i][IF c.r[i] THEN 2 ELSE 1]
        <3>1. PICK x : x = a[i]
            OBVIOUS
        <3>2. PICK y : y = b[i]
            OBVIOUS
        <3>3. /\ x = <<HashOf(t, 0, RowOf(t, "ALICE", i), i),
                       HashOf(t, 0, Plus(t, RowOf(t, "ALICE", i)), i)>>
              /\ y = HashOf(t, 0, RowOf(t, "BOB", i), i)
            BY <1>4, <2>1, <3>1, <3>2
        <3>4. y.of.row # Junk.row /\ y = x[IF t.chose.r[i] THEN 2 ELSE 1]
            BY <1>4, <3>3, RotFits
        <3> QED BY <2>1, <3>1, <3>2, <3>4
    <2> QED BY <1>1, <1>2, <1>10, <2>2 DEF Belongs
<1>11. CASE c.kind = "ot"
    <2>1. b = TextsBefore(t, Batches(c.len)) /\ t.chose.r = c.r
        BY <1>2, <1>5, <1>11 DEF BobsOut, Own
    <2>2. b = [i \in Index(t) |-> TextOf(t, i, t.chose.r[i])]
        BY <2>1, AllTexts
    <2>3. t.nr = n
        BY PlacesOf
    <2>4. ASSUME NEW i \in 0..(c.len - 1)
          PROVE  b[i] = [call |-> n, index |-> i, side |-> c.r[i]]
        <3>1. b[i] = TextOf(t, i, c.r[i])
            BY <1>4, <2>1, <2>2
        <3> QED BY <1>11, <2>3, <3>1 DEF TextOf
    <2> QED BY <1>2, <1>11, <2>4 DEF Belongs
<1> QED BY <1>3, <1>6, <1>7, <1>8, <1>9, <1>10, <1>11

LEMMA OutputsAre ==
    ASSUME IndInv
    PROVE  OutputsMatch
<1>1. PICK h : Inv(calls, h)
    BY DEF IndInv
<1>2. PICK cs : cs = calls
    OBVIOUS
<1>3. HistoryOK(conf, cs, h) /\ \A p \in Party : PartyOK(conf, h, p, me[p])
    BY <1>1, <1>2 DEF Inv
<1>4. ASSUME NEW n \in 1..Len(calls), \A p \in Party : n <= Len(me[p].out)
      PROVE  Belongs(calls[n], n)
    <2>1. PICK t : t = h[n]
        OBVIOUS
    <2>2. /\ CallOK(t, n) /\ Chosen(t) /\ t.conf = conf /\ t.call = calls[n]
        BY <1>2, <1>3, <2>1, HistoryFacts
    <2>3. ASSUME NEW p \in Party
          PROVE  me[p].out[n] = OutOf(t, p)
        <3>1. n \in 1..Len(me[p].out)
            <4>1. IsSeq(me[p].out)
                BY <1>3 DEF PartyOK
            <4>2. Len(me[p].out) \in Nat
                BY <4>1, IsSeqOf
            <4> QED BY <1>4, <4>2
        <3> QED BY <1>3, <2>1, <3>1 DEF PartyOK
    <2>4. me["ALICE"].out[n] = AlicesOut(t) /\ me["BOB"].out[n] = BobsOut(t)
        BY <2>3, Names DEF OutOf
    <2>5. A.deltas[n] = Sec(t)
        <3>1. IsSeq(A.deltas) /\ Len(A.deltas) = Len(A.out) /\ n <= Len(A.out)
              /\ \A m \in 1..Len(A.deltas) : A.deltas[m] = Sec(h[m])
            BY <1>3, <1>4, Names DEF PartyOK, DeltasOK, A
        <3>2. n \in 1..Len(A.deltas)
            <4>1. Len(A.deltas) \in Nat
                BY <3>1, IsSeqOf
            <4> QED BY <3>1, <4>1
        <3> QED BY <2>1, <3>1, <3>2
    <2> QED BY <2>2, <2>4, <2>5, CallsBelong
<1> QED BY <1>4 DEF OutputsMatch

(*------------------------------- theorems -------------------------------*)
(* However the two parties' steps interleave, whatever calls the programs make
   and whatever BOB draws, the loop counters of send_pre, send and recv stay
   within their loops, the PRGs are read in whole transfer units, the hash is
   moved on by whole batches, and each call has left one result (iknp.h:86-189,
   cot.h:19-179). *)
THEOREM TypeCorrect == Spec => []TypeOK
BY AlwaysInv, TypeIs, PTL

(* After the same number of calls the two parties' PRGs stand at the same
   position and their hashes at the same key, for all calls and lengths: that
   of which iknp.h:86-189 and cot.h:19-115 keep no record is true. *)
THEOREM StaysInStep == Spec => []InStep
BY AlwaysInv, InStepIs, PTL

(* send_check never finds the rows of an honest BOB uncorrelated, so the error
   of iknp.h:209-253 is not raised. *)
THEOREM CheckSucceeds == Spec => []NoFalseAlarm
BY AlwaysInv, NoAlarmIs, PTL

(* What the n-th calls of ALICE and BOB returned belongs together, for COTs,
   base COTs, random OTs, OTs and one-of-n OTs in any order, over all three
   providers (cot.h:19-179, base_cot.h:53-103). *)
THEOREM OutputsBelong == Spec => []OutputsMatch
BY AlwaysInv, OutputsAre, PTL
=============================================================================
