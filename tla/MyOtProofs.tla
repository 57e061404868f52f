------------------------------ MODULE MyOtProofs ------------------------------
(***************************************************************************)
(* Proofs about MyOt: in any number of rounds, and with the two programs   *)
(* any number of rounds apart as far as their messages let them, the       *)
(* objects stay in step, no program is refused an OT without a reason, and *)
(* the receiver gets what its bits choose.                                 *)
(***************************************************************************)
EXTENDS MyOt, SequenceTheorems, TLAPS

(*------------------------------- the history ----------------------------*)
IsSeq(s) == \E T : s \in Seq(T)

(* The methods of a round in their order: 1 setS, 2 setup, 3 baseA or baseB, 4 baseE or
   baseData, 5 choose, 6 pre, 7 the OT, 8 not; 9 is the end of the round. *)
Stages == 1..9
Name(p, k) ==
    CASE k = 1 -> "setS" [] k = 2 -> "setup"
      [] k = 3 -> IF p = "S" THEN "baseB" ELSE "baseA"
      [] k = 4 -> IF p = "S" THEN "baseData" ELSE "baseE"
      [] k = 5 -> "choose" [] k = 6 -> "pre"
      [] k = 7 -> IF api = "not" THEN "ot" ELSE api
      [] OTHER -> "not"

\* The methods of a plan, and the one after the method k
InPlan(plan, k) ==
    CASE k = 1 -> "setS" \in plan.new
      [] k \in 2..4 -> "setup" \in plan.new
      [] k = 5 -> "pre" \in plan.new /\ api = "not"
      [] k = 6 -> "pre" \in plan.new
      [] k = 7 -> TRUE
      [] OTHER -> api = "not"
Upon(plan, k) ==
    CASE k = 0 -> IF "setS" \in plan.new THEN 1 ELSE IF "setup" \in plan.new THEN 2
                  ELSE IF "pre" \notin plan.new THEN 7 ELSE IF api = "not" THEN 5 ELSE 6
      [] k = 1 -> IF "setup" \in plan.new THEN 2
                  ELSE IF "pre" \notin plan.new THEN 7 ELSE IF api = "not" THEN 5 ELSE 6
      [] k = 4 -> IF "pre" \notin plan.new THEN 7 ELSE IF api = "not" THEN 5 ELSE 6
      [] k = 7 -> IF api = "not" THEN 8 ELSE 9
      [] OTHER -> k + 1

\* What a party has still to do at k
LastTwo == IF api = "not" THEN <<"ot", "not">> ELSE <<api>>
FromPre(plan) == IF "pre" \notin plan.new THEN LastTwo
                 ELSE IF api = "not" THEN <<"choose">> \o (<<"pre">> \o LastTwo) ELSE <<"pre">> \o LastTwo
SetupStages(p) == IF p = "S" THEN <<"setup", "baseB", "baseData">> ELSE <<"setup", "baseA", "baseE">>
FromSetup(plan, p) == IF "setup" \in plan.new THEN SetupStages(p) \o FromPre(plan) ELSE FromPre(plan)
TodoAt(plan, p, k) ==
    CASE k = 1 -> <<"setS">> \o FromSetup(plan, p)
      [] k = 2 -> SetupStages(p) \o FromPre(plan)
      [] k = 3 -> <<Name(p, 3), Name(p, 4)>> \o FromPre(plan)
      [] k = 4 -> <<Name(p, 4)>> \o FromPre(plan)
      [] k = 5 -> <<"choose">> \o (<<"pre">> \o LastTwo)
      [] k = 6 -> <<"pre">> \o LastTwo
      [] k = 7 -> LastTwo
      [] k = 8 -> <<"not">>
      [] OTHER -> <<>>

(* The place that p is at in round n, which began at a, with the methods before k
   done: the seed of the hash and keys used, the set-ups and what has been read of
   the PRGs, the rounds of the last rows and the last item, the set-up and place in
   the PRGs of these rows; the messages of S that it has sent or taken, and those of R. *)
Renewed(plan, p, k) == "setup" \in plan.new /\ k > (IF p = "S" THEN 4 ELSE 2)
Batched(n) == Lanes * ((n + Lanes - 1) \div Lanes)
Counted(b) == IF b THEN 1 ELSE 0
EpochAt(a, plan, p, k) == IF Renewed(plan, p, k) THEN a.epoch + 1 ELSE a.epoch
FirstAt(a, plan, p, k) == IF Renewed(plan, p, k) THEN 0 ELSE a.pos
ByS(a, plan, p, k) ==
    a.s + Counted("setS" \in plan.new /\ k > 1)
        + Counted("setup" \in plan.new /\ k > (IF p = "S" THEN 3 ELSE 4))
        + Counted(api # "rot" /\ k > 7) + Counted(api = "not" /\ k > 8)
ByR(a, plan, k) ==
    a.r + Counted("setup" \in plan.new /\ k > 3) + Counted("setup" \in plan.new /\ k > 4)
        + Counted("pre" \in plan.new /\ k > 6)
PlaceAt(a, n, plan, p, k) ==
    LET made == "pre" \in plan.new /\ k > 6
    IN  [start |-> IF "setS" \in plan.new /\ k > 1 THEN n ELSE a.start,
         gid |-> IF k > 7 THEN a.gid + Batched(plan.use) ELSE a.gid,
         epoch |-> EpochAt(a, plan, p, k),
         pos |-> IF made THEN FirstAt(a, plan, p, k) + Rounded(plan.len) ELSE FirstAt(a, plan, p, k),
         pre |-> IF made THEN n ELSE a.pre,
         chosen |-> IF "pre" \in plan.new /\ k > 5 THEN n ELSE a.chosen,
         of |-> IF made THEN EpochAt(a, plan, p, k) ELSE a.of,
         first |-> IF made THEN FirstAt(a, plan, p, k) ELSE a.first,
         s |-> ByS(a, plan, p, k), r |-> ByR(a, plan, k)]

Places == [start : Nat, gid : Nat, epoch : Nat, pos : Nat, pre : Nat, chosen : Nat,
           of : Nat, first : Nat, s : Nat, r : Nat]
Origin == [start |-> 0, gid |-> 0, epoch |-> 0, pos |-> 0, pre |-> 0, chosen |-> 0,
           of |-> 0, first |-> 0, s |-> 0, r |-> 0]

(* h[n] is the place at which round n begins, for both. *)
PlaceOK(a, n) ==
    /\ a.pos % Width = 0 /\ a.pre \in 0..(n - 1) /\ a.chosen = a.pre
    /\ a.start = 0 => \A m \in 1..(n - 1) : "setS" \notin plans[m].new
    /\ \A m \in (a.pre + 1)..(n - 1) : "pre" \notin plans[m].new
    /\ a.pre > 0 => "pre" \in plans[a.pre].new /\ a.of > 0
History(h) ==
    /\ plans \in Seq(Plans) /\ h \in Seq(Places) /\ Len(h) = Len(plans) + 1 /\ h[1] = Origin
    /\ \A n \in 1..Len(plans) : h[n + 1] = PlaceAt(h[n], n, plans[n], "S", 9)
    /\ \A n \in 1..Len(h) : PlaceOK(h[n], n)
    /\ \A m, n \in 1..Len(h) : m <= n => h[m].s <= h[n].s /\ h[m].r <= h[n].r
Asked(h) ==
    \A n \in 1..Len(plans) :
        /\ api \in plans[n].apis /\ plans[n].items = plans[1].items
        /\ h[n + 1].pre > 0 => plans[n].use <= plans[h[n + 1].pre].len
        /\ "pre" \in plans[n].new /\ "setup" \notin plans[n].new => h[n].epoch > 0

(*------------------------------- the objects ----------------------------*)
\* st[p] is the method that p is at in its round me[p].cnt, 9 between rounds.
At(h, st, p) == IF st[p] = 9 THEN h[me[p].cnt + 1]
                ELSE PlaceAt(h[me[p].cnt], me[p].cnt, plans[me[p].cnt], p, st[p])

IsObject(rec) ==
    rec = [cnt |-> rec.cnt, todo |-> rec.todo, start |-> rec.start, gid |-> rec.gid,
           epoch |-> rec.epoch, pos |-> rec.pos, rows |-> rec.rows, len |-> rec.len,
           isSet |-> rec.isSet, isSetup |-> rec.isSetup, item |-> rec.item, out |-> rec.out,
           s |-> rec.s, bb |-> rec.bb, A |-> rec.A, k |-> rec.k, a |-> rec.a, r |-> rec.r]

Staged(st, p) ==
    LET rec == me[p]
    IN  /\ rec.cnt \in 0..Len(plans) /\ st[p] \in Stages
        /\ IsSeq(rec.out) /\ Len(rec.out) = rec.cnt - Counted(st[p] <= 7)
        /\ \/ st[p] = 9 /\ rec.todo = <<>>
           \/ /\ st[p] < 9 /\ rec.cnt > 0 /\ InPlan(plans[rec.cnt], st[p])
              /\ \/ rec.todo = TodoAt(plans[rec.cnt], p, st[p])
                 \/ st[p] = 7 /\ rec.todo = <<"error">> /\ ~Prepared(p)

\* The flags, counters and lengths of an object at a place
DataAt(rec, at) ==
    /\ rec.start = at.start /\ rec.gid = at.gid /\ rec.epoch = at.epoch /\ rec.pos = at.pos
    /\ rec.isSet \in BOOLEAN /\ (rec.isSet <=> at.pre > 0)
    /\ rec.isSetup \in BOOLEAN /\ (rec.isSetup <=> api = "not" /\ at.chosen > 0)
    /\ rec.isSetup => rec.item = plans[at.chosen].item
    /\ rec.len = (IF at.pre > 0 THEN plans[at.pre].len ELSE 0)
    /\ DOMAIN rec.rows = 0..(rec.len - 1)

\* The row of R for its index i
Row(e, side, x) == {Drawn(c, PrgKey(e, side), x) : c \in Cols}
RowIn(at, i) == Row(at.of, 0, at.first + i)
Chosen(at, i) == plans[at.pre].r[i]
DataOfR(at) ==
    at.pre > 0 => /\ R.r = plans[at.pre].r
                  /\ \A i \in 0..(R.len - 1) : R.rows[i] = RowIn(at, i)

(* S knows the keys of its s, but while it draws a new one, and its rows are those
   of R, with Delta added where the bit is 1, but until it has made new ones. *)
KeyFor(e, c, s) == PrgKey(e, IF c \in s THEN 1 ELSE 0)
KeysFor(e, s) == [c \in Cols |-> KeyFor(e, c, s)]
Renews(st) == st["S"] \in 3..6 /\ "setup" \in plans[S.cnt].new
DataOfS(st, at) ==
    /\ S.s \subseteq Cols
    /\ at.epoch > 0 /\ st["S"] \notin 3..4 => S.k = KeysFor(at.epoch, S.s)
    /\ at.pre > 0 /\ ~Renews(st) => \A i \in 0..(S.len - 1) :
           S.rows[i] = IF Chosen(at, i) THEN SymDiff(RowIn(at, i), Delta) ELSE RowIn(at, i)
    /\ st["S"] = 4 => S.bb \in [Cols -> ScalarsB]
Objects(h, st) ==
    /\ me = [p \in Party |-> me[p]]
    /\ \A p \in Party : IsObject(me[p]) /\ Staged(st, p) /\ DataAt(me[p], At(h, st, p))
    /\ DataOfR(At(h, st, "R")) /\ DataOfS(st, At(h, st, "S"))

\* What R has in the end of round n, and before recvNOT
TextsOf(h, n) == [i \in 0..(plans[n].use - 1) |->
                     <<IF api = "not" THEN 0 ELSE n, i, Chosen(h[n + 1], i)>>]
Outputs(h, st) ==
    \A n \in 1..Len(R.out) :
        /\ h[n + 1].pre > 0
        /\ api = "ot" \/ (api = "not" /\ n = R.cnt /\ st["R"] = 8) => R.out[n] = TextsOf(h, n)
        /\ api = "not" /\ ~(n = R.cnt /\ st["R"] = 8) => R.out[n] = <<n, plans[h[n + 1].pre].item>>

(*------------------------------ the messages ----------------------------*)
Sent(at, p) == IF p = "S" THEN at.s ELSE at.r
Got(at, p) == IF p = "S" THEN at.r ELSE at.s
Sends(plan, p, k) ==
    InPlan(plan, k) /\ IF p = "S" THEN k \in {1, 3, 8} \/ (k = 7 /\ api # "rot") ELSE k \in {3, 4, 6}
Receives(plan, p, k) ==
    InPlan(plan, k) /\ IF p = "R" THEN k \in {1, 4, 8} \/ (k = 7 /\ api # "rot") ELSE k \in {3, 4, 6}

\* A round of the base OTs: one party waits for the other.
BothAt(st, n, k) == S.cnt = n /\ R.cnt = n /\ st["S"] = k /\ st["R"] = 4
GoodA(st, n, m) == R.cnt = n /\ st["R"] = 4 /\ R.a \in ScalarsA /\ m = MulGen(R.a)
GoodB(st, n, m) ==
    /\ BothAt(st, n, 4) /\ R.a \in ScalarsA /\ S.A = MulGen(R.a)
    /\ m = [c \in Cols |-> Point(S.bb[c], c \in S.s, S.A)]
SealedFor(e, c) == [under |-> <<Mul(S.A, S.bb[c]), c>>, key |-> KeyFor(e, c, S.s)]
GoodE(h, st, n, m) ==
    /\ S.cnt = n /\ st["S"] = 4
    /\ \A c \in Cols : m[c][IF c \in S.s THEN 2 ELSE 1] = SealedFor(h[n].epoch + 1, c)

Both(e, x) == Row(e, 0, x) \cup Row(e, 1, x)
URow(e, x, bit) == SymDiff(Both(e, x), IF bit THEN {One(c) : c \in Cols} ELSE {})
GoodU(h, n, m) ==
    \A i \in 0..(plans[n].len - 1) :
        m[i \div BlockSize][i % BlockSize] = URow(h[n + 1].of, h[n + 1].first + i, plans[n].r[i])
PadFor(h, n, i) ==
    [pad |-> [of |-> RowIn(h[n + 1], i), start |-> h[n + 1].start, gid |-> h[n].gid + i],
     text |-> TextsOf(h, n)[i]]
GoodPads(h, n, m) ==
    /\ h[n + 1].pre > 0
    /\ \A i \in 0..(plans[n].use - 1) : m[i][IF Chosen(h[n + 1], i) THEN 2 ELSE 1] = PadFor(h, n, i)
ItemFor(n, i) == [key |-> {<<0, j, BitOf(i, j)>> : j \in 0..(plans[n].use - 1)}, item |-> <<n, i>>]
GoodItems(n, m) == m = [i \in 0..(plans[n].items - 1) |-> ItemFor(n, i)]

\* m is what p returns in the method k of round n.
Good(h, st, p, n, k, m) ==
    IF p = "S" THEN CASE k = 1 -> m = n [] k = 3 -> GoodB(st, n, m)
                      [] k = 7 -> GoodPads(h, n, m) [] OTHER -> GoodItems(n, m)
               ELSE CASE k = 3 -> GoodA(st, n, m) [] k = 4 -> GoodE(h, st, n, m)
                      [] OTHER -> GoodU(h, n, m)

(* The message of k in round n among all that p has returned; on their way are
   those after what the other has taken. *)
Number(h, p, n, k) == Sent(PlaceAt(h[n], n, plans[n], p, k), p) + 1
Waiting(h, st, p, i) == mail[Peer(p)][i - Got(At(h, st, Peer(p)), Peer(p))]
Mailed(h, st) ==
    /\ mail = [p \in Party |-> mail[p]]
    /\ \A p \in Party :
        /\ IsSeq(mail[p])
        /\ Len(mail[Peer(p)]) = Sent(At(h, st, p), p) - Got(At(h, st, Peer(p)), Peer(p))
        /\ \A n \in 1..Len(plans) : \A k \in 1..8 :
            /\ Sends(plans[n], p, k)
            /\ Number(h, p, n, k) > Got(At(h, st, Peer(p)), Peer(p))
            /\ Number(h, p, n, k) <= Sent(At(h, st, p), p)
            => Good(h, st, p, n, k, Waiting(h, st, p, Number(h, p, n, k)))

AllHold(h, st) ==
    /\ api \in {"rot", "ot", "not"} /\ History(h) /\ Asked(h)
    /\ Objects(h, st) /\ Outputs(h, st) /\ Mailed(h, st)
IndInv == \E h, st : AllHold(h, st)

(*------------------------------- sequences ------------------------------*)
LEMMA IsSeqOf ==
    ASSUME NEW s, IsSeq(s)
    PROVE  Len(s) \in Nat /\ DOMAIN s = 1..Len(s) /\ (s = <<>> <=> Len(s) = 0)
<1>1. PICK T : s \in Seq(T)
    BY DEF IsSeq
<1> QED BY <1>1

LEMMA Joined ==
    ASSUME NEW s, IsSeq(s), NEW t, IsSeq(t)
    PROVE  /\ IsSeq(s \o t) /\ Len(s \o t) = Len(s) + Len(t)
           /\ \A i \in 1..Len(s) : (s \o t)[i] = s[i]
           /\ \A i \in 1..Len(t) : (s \o t)[Len(s) + i] = t[i]
<1>1. PICK U : s \in Seq(U)
    BY DEF IsSeq
<1>2. PICK V : t \in Seq(V)
    BY DEF IsSeq
<1>3. s \in Seq(U \cup V) /\ t \in Seq(U \cup V)
    BY <1>1, <1>2
<1>4. s \o t \in Seq(U \cup V)
    BY <1>3
<1>5. /\ Len(s \o t) = Len(s) + Len(t)
      /\ \A i \in 1..Len(s) : (s \o t)[i] = s[i]
      /\ \A i \in 1..Len(t) : (s \o t)[Len(s) + i] = t[i]
    BY <1>3, ConcatProperties
<1> QED BY <1>4, <1>5 DEF IsSeq

LEMMA JoinedThree ==
    ASSUME NEW s, IsSeq(s), NEW t, IsSeq(t), NEW u, IsSeq(u)
    PROVE  (s \o t) \o u = s \o (t \o u) /\ <<>> \o s = s
<1>1. PICK U : s \in Seq(U)
    BY DEF IsSeq
<1>2. PICK V : t \in Seq(V)
    BY DEF IsSeq
<1>3. PICK W : u \in Seq(W)
    BY DEF IsSeq
<1>4. s \in Seq(U \cup V \cup W) /\ t \in Seq(U \cup V \cup W) /\ u \in Seq(U \cup V \cup W)
    BY <1>1, <1>2, <1>3
<1>5. (s \o t) \o u = s \o (t \o u)
    BY <1>4, ConcatAssociative
<1>6. <<>> \o s = s
    BY <1>1
<1> QED BY <1>5, <1>6

LEMMA TailFacts ==
    ASSUME NEW s, IsSeq(s), s # <<>>
    PROVE  /\ Len(s) \in Nat \ {0} /\ Head(s) = s[1]
           /\ IsSeq(Tail(s)) /\ Len(Tail(s)) = Len(s) - 1
           /\ \A i \in 1..(Len(s) - 1) : Tail(s)[i] = s[i + 1]
<1>1. PICK T : s \in Seq(T)
    BY DEF IsSeq
<1>2. Tail(s) \in Seq(T) /\ Len(s) \in Nat \ {0}
    BY <1>1
<1>3. Head(s) = s[1] /\ Len(Tail(s)) = Len(s) - 1
      /\ \A i \in 1..(Len(s) - 1) : Tail(s)[i] = s[i + 1]
    BY <1>1, <1>2, HeadTailProperties
<1> QED BY <1>2, <1>3 DEF IsSeq

LEMMA Appended ==
    ASSUME NEW s, IsSeq(s), NEW e
    PROVE  /\ IsSeq(Append(s, e)) /\ Len(Append(s, e)) = Len(s) + 1
           /\ \A i \in 1..Len(s) : Append(s, e)[i] = s[i]
           /\ Append(s, e)[Len(s) + 1] = e
<1>1. PICK T : s \in Seq(T)
    BY DEF IsSeq
<1>2. s \in Seq(T \cup {e}) /\ e \in T \cup {e}
    BY <1>1
<1>3. Append(s, e) \in Seq(T \cup {e})
    BY <1>2
<1>4. /\ Len(Append(s, e)) = Len(s) + 1
      /\ \A i \in 1..Len(s) : Append(s, e)[i] = s[i]
      /\ Append(s, e)[Len(s) + 1] = e
    BY <1>2, AppendProperties
<1> QED BY <1>3, <1>4 DEF IsSeq

LEMMA Single ==
    ASSUME NEW m
    PROVE  IsSeq(<<m>>) /\ Len(<<m>>) = 1 /\ <<m>>[1] = m
<1>1. <<m>> \in Seq({m})
    OBVIOUS
<1> QED BY <1>1 DEF IsSeq

LEMMA Empty == IsSeq(<<>>) /\ Len(<<>>) = 0
<1>1. <<>> \in Seq({})
    OBVIOUS
<1> QED BY <1>1 DEF IsSeq

(*----------------------------- rounds and stages ------------------------*)
Kinds == {"rot", "ot", "not"}
News == {"setS", "setup", "pre"}

LEMMA Peers ==
    ASSUME NEW p \in Party
    PROVE  Peer(p) \in Party /\ Peer(p) # p /\ Peer(Peer(p)) = p
           /\ \A q \in Party : q = p \/ q = Peer(p)
BY DEF Party, Peer

LEMMA PlanFacts ==
    ASSUME NEW plan \in Plans
    PROVE  /\ plan.new \subseteq News /\ ("setup" \in plan.new => "pre" \in plan.new)
           /\ plan.len \in Nat /\ plan.use \in Nat /\ plan.items \in Nat
           /\ plan.r \in [0..(plan.len - 1) -> BOOLEAN]
           /\ ("pre" \in plan.new => plan.use <= plan.len)
BY PlanAssumption DEF News

\* A list with its first element, its first two, or its first three before it
LEMMA Prefixed ==
    ASSUME NEW x, NEW s, IsSeq(s)
    PROVE  IsSeq(<<x>> \o s) /\ <<x>> \o s # <<>> /\ Head(<<x>> \o s) = x /\ Tail(<<x>> \o s) = s
<1>1. PICK T : s \in Seq(T)
    BY DEF IsSeq
<1>2. s \in Seq(T \cup {x}) /\ <<x>> \in Seq(T \cup {x})
    BY <1>1
<1>3. <<x>> \o s \in Seq(T \cup {x})
    BY <1>2
<1> QED BY <1>2, <1>3 DEF IsSeq

LEMMA PrefixedTwo ==
    ASSUME NEW x, NEW y, NEW s, IsSeq(s)
    PROVE  <<x, y>> \o s = <<x>> \o (<<y>> \o s) /\ IsSeq(<<x, y>> \o s)
<1> DEFINE l == <<x>>
           r == <<y>>
           u == <<x, y>>
<1>1. /\ l \in Seq({x, y}) /\ r \in Seq({x, y}) /\ u \in Seq({x, y})
      /\ Len(l) = 1 /\ Len(r) = 1 /\ Len(u) = 2
      /\ l[1] = x /\ r[1] = y /\ u[1] = x /\ u[2] = y
    OBVIOUS
<1> HIDE DEF l, r, u
<1>2. l \o r \in Seq({x, y}) /\ IsSeq(l) /\ IsSeq(r)
    BY <1>1 DEF IsSeq
<1>3. Len(l \o r) = 2 /\ (l \o r)[1] = x /\ (l \o r)[2] = y
    <2>1. /\ Len(l \o r) = Len(l) + Len(r)
          /\ \A i \in 1..Len(l) : (l \o r)[i] = l[i]
          /\ \A i \in 1..Len(r) : (l \o r)[Len(l) + i] = r[i]
        BY <1>2, Joined
    <2>2. (l \o r)[1] = l[1] /\ (l \o r)[1 + 1] = r[1]
        BY <1>1, <2>1
    <2> QED BY <1>1, <2>1, <2>2
<1>4. \A i \in 1..Len(u) : (l \o r)[i] = u[i]
    BY <1>1, <1>3
<1>5. l \o r = u
    BY <1>1, <1>2, <1>3, <1>4, SeqEqual
<1>6. PICK T : s \in Seq(T)
    BY DEF IsSeq
<1>7. s \in Seq(T \cup {x, y}) /\ l \in Seq(T \cup {x, y}) /\ r \in Seq(T \cup {x, y})
    BY <1>1, <1>6
<1>8. (l \o r) \o s = l \o (r \o s)
    BY <1>7, ConcatAssociative
<1>9. IsSeq(r \o s)
    BY Prefixed DEF r
<1>10. IsSeq(l \o (r \o s))
    BY <1>9, Prefixed DEF l
<1> QED BY <1>5, <1>8, <1>10 DEF l, r, u

LEMMA PrefixedThree ==
    ASSUME NEW x, NEW y, NEW z, NEW s, IsSeq(s)
    PROVE  <<x, y, z>> \o s = <<x>> \o (<<y, z>> \o s) /\ IsSeq(<<x, y, z>> \o s)
<1> DEFINE l == <<x>>
           r == <<y, z>>
           u == <<x, y, z>>
           V == {x, y, z}
<1>1. /\ l \in Seq(V) /\ r \in Seq(V) /\ u \in Seq(V) /\ Len(l) = 1 /\ Len(r) = 2 /\ Len(u) = 3
      /\ l[1] = x /\ r[1] = y /\ r[2] = z /\ u[1] = x /\ u[2] = y /\ u[3] = z
    OBVIOUS
<1> HIDE DEF l, r, u, V
<1>2. l \o r \in Seq(V) /\ IsSeq(l) /\ IsSeq(r)
    BY <1>1 DEF IsSeq
<1>3. Len(l \o r) = 3 /\ (l \o r)[1] = x /\ (l \o r)[2] = y /\ (l \o r)[3] = z
    <2>1. /\ Len(l \o r) = Len(l) + Len(r)
          /\ \A i \in 1..Len(l) : (l \o r)[i] = l[i]
          /\ \A i \in 1..Len(r) : (l \o r)[Len(l) + i] = r[i]
        BY <1>2, Joined
    <2>2. (l \o r)[1] = l[1] /\ (l \o r)[1 + 1] = r[1] /\ (l \o r)[1 + 2] = r[2]
        BY <1>1, <2>1
    <2> QED BY <1>1, <2>1, <2>2
<1>4. \A i \in 1..Len(u) : (l \o r)[i] = u[i]
    BY <1>1, <1>3
<1>5. l \o r = u
    BY <1>1, <1>2, <1>3, <1>4, SeqEqual
<1>6. PICK T : s \in Seq(T)
    BY DEF IsSeq
<1>7. s \in Seq(T \cup V) /\ l \in Seq(T \cup V) /\ r \in Seq(T \cup V)
    BY <1>1, <1>6
<1>8. (l \o r) \o s = l \o (r \o s)
    BY <1>7, ConcatAssociative
<1>9. IsSeq(r \o s)
    BY PrefixedTwo DEF r
<1>10. IsSeq(l \o (r \o s))
    BY <1>9, Prefixed DEF l
<1> QED BY <1>5, <1>8, <1>10 DEF l, r, u

LEMMA ShortLists ==
    ASSUME NEW x, NEW y
    PROVE  /\ <<x>> # <<>> /\ Head(<<x>>) = x /\ Tail(<<x>>) = <<>>
           /\ <<x, y>> # <<>> /\ Head(<<x, y>>) = x /\ Tail(<<x, y>>) = <<y>>
OBVIOUS

LEMMA ListsOfTodo ==
    ASSUME api \in Kinds, NEW plan \in Plans, NEW p \in Party
    PROVE  /\ IsSeq(LastTwo) /\ IsSeq(<<"pre">> \o LastTwo)
           /\ IsSeq(FromPre(plan)) /\ IsSeq(FromSetup(plan, p))
           /\ SetupStages(p) = <<"setup", Name(p, 3), Name(p, 4)>>
<1>1. IsSeq(LastTwo)
    <2>1. CASE api = "not"
        <3>1. LastTwo = <<"ot">> \o <<"not">>
            BY <2>1 DEF LastTwo
        <3> QED BY <3>1, Single, Prefixed
    <2>2. CASE api # "not"
        <3>1. LastTwo = <<api>>
            BY <2>2 DEF LastTwo
        <3> QED BY <3>1, Single
    <2> QED BY <2>1, <2>2
<1>2. IsSeq(<<"pre">> \o LastTwo) /\ IsSeq(<<"choose">> \o (<<"pre">> \o LastTwo))
    BY <1>1, Prefixed
<1>3. IsSeq(FromPre(plan))
    BY <1>1, <1>2 DEF FromPre
<1>4. SetupStages(p) = <<"setup", Name(p, 3), Name(p, 4)>>
    BY DEF SetupStages, Name
<1>5. IsSeq(FromSetup(plan, p))
    <2> DEFINE s == FromPre(plan)
               x == Name(p, 3)
               y == Name(p, 4)
    <2>1. IsSeq(s)
        BY <1>3
    <2> HIDE DEF s, x, y
    <2>2. IsSeq(<<x, y>> \o s)
        BY <2>1, Prefixed, PrefixedTwo
    <2>3. IsSeq(<<"setup", x, y>> \o s)
        BY <2>1, <2>2, Prefixed, PrefixedThree
    <2> QED BY <1>4, <2>1, <2>3 DEF FromSetup, s, x, y
<1> QED BY <1>1, <1>2, <1>3, <1>4, <1>5

LEMMA HeadOfTodo ==
    ASSUME api \in Kinds, NEW plan \in Plans, NEW p \in Party, NEW k \in 1..8, InPlan(plan, k)
    PROVE  /\ TodoAt(plan, p, k) # <<>> /\ Head(TodoAt(plan, p, k)) = Name(p, k)
           /\ Tail(TodoAt(plan, p, k)) = TodoAt(plan, p, Upon(plan, k))
<1>1. /\ IsSeq(LastTwo) /\ IsSeq(<<"pre">> \o LastTwo)
      /\ IsSeq(FromPre(plan)) /\ IsSeq(FromSetup(plan, p))
    BY ListsOfTodo
<1>2. SetupStages(p) = <<"setup", Name(p, 3), Name(p, 4)>>
    BY ListsOfTodo
<1>3. CASE k = 1
    <2>1. TodoAt(plan, p, 1) = <<"setS">> \o FromSetup(plan, p) /\ Name(p, 1) = "setS"
        BY DEF TodoAt, Name
    <2>2. FromSetup(plan, p) = TodoAt(plan, p, Upon(plan, 1))
        BY DEF FromSetup, FromPre, TodoAt, Upon
    <2> QED BY <1>1, <1>3, <2>1, <2>2, Prefixed
<1>4. CASE k = 2
    <2> DEFINE s == FromPre(plan)
               x == Name(p, 3)
               y == Name(p, 4)
    <2>1. TodoAt(plan, p, 2) = <<"setup", x, y>> \o s /\ Name(p, 2) = "setup"
          /\ Upon(plan, 2) = 3 /\ TodoAt(plan, p, 3) = <<x, y>> \o s
        BY <1>2 DEF TodoAt, Name, Upon
    <2>2. IsSeq(s)
        BY <1>1
    <2> HIDE DEF s, x, y
    <2>3. IsSeq(<<x, y>> \o s)
        BY <2>2, Prefixed, PrefixedTwo
    <2>4. <<"setup", x, y>> \o s = <<"setup">> \o (<<x, y>> \o s)
        BY <2>2, PrefixedThree
    <2>5. TodoAt(plan, p, 2) # <<>> /\ Head(TodoAt(plan, p, 2)) = Name(p, 2)
          /\ Tail(TodoAt(plan, p, 2)) = TodoAt(plan, p, Upon(plan, 2))
        BY <2>1, <2>3, <2>4, Prefixed
    <2> QED BY <1>4, <2>5
<1>5. CASE k = 3
    <2> DEFINE s == FromPre(plan)
               x == Name(p, 3)
               y == Name(p, 4)
    <2>1. TodoAt(plan, p, 3) = <<x, y>> \o s /\ Upon(plan, 3) = 4 /\ TodoAt(plan, p, 4) = <<y>> \o s
        BY DEF TodoAt, Upon
    <2>2. IsSeq(s)
        BY <1>1
    <2>3. Name(p, k) = x
        BY <1>5
    <2> HIDE DEF s, x, y
    <2>4. IsSeq(<<y>> \o s) /\ <<x, y>> \o s = <<x>> \o (<<y>> \o s)
        BY <2>2, Prefixed, PrefixedTwo
    <2>5. TodoAt(plan, p, 3) # <<>> /\ Head(TodoAt(plan, p, 3)) = x
          /\ Tail(TodoAt(plan, p, 3)) = TodoAt(plan, p, Upon(plan, 3))
        BY <2>1, <2>4, Prefixed
    <2> QED BY <1>5, <2>3, <2>5
<1>6. CASE k = 4
    <2>1. TodoAt(plan, p, 4) = <<Name(p, 4)>> \o FromPre(plan)
        BY DEF TodoAt
    <2>2. FromPre(plan) = TodoAt(plan, p, Upon(plan, 4))
        BY DEF FromPre, TodoAt, Upon
    <2>3. TodoAt(plan, p, 4) # <<>> /\ Head(TodoAt(plan, p, 4)) = Name(p, 4)
          /\ Tail(TodoAt(plan, p, 4)) = TodoAt(plan, p, Upon(plan, 4))
        BY <1>1, <2>1, <2>2, Prefixed
    <2> QED BY <1>6, <2>3
<1>7. CASE k = 5
    <2>1. TodoAt(plan, p, 5) = <<"choose">> \o (<<"pre">> \o LastTwo) /\ Name(p, 5) = "choose"
          /\ Upon(plan, 5) = 6 /\ TodoAt(plan, p, 6) = <<"pre">> \o LastTwo
        BY DEF TodoAt, Name, Upon
    <2>2. PICK t : t = <<"pre">> \o LastTwo
        OBVIOUS
    <2>3. <<"choose">> \o t # <<>> /\ Head(<<"choose">> \o t) = "choose" /\ Tail(<<"choose">> \o t) = t
        BY <1>1, <2>2, Prefixed
    <2> QED BY <1>7, <2>1, <2>2, <2>3
<1>8. CASE k = 6
    <2>1. TodoAt(plan, p, 6) = <<"pre">> \o LastTwo /\ Name(p, 6) = "pre"
          /\ Upon(plan, 6) = 7 /\ TodoAt(plan, p, 7) = LastTwo
        BY DEF TodoAt, Name, Upon
    <2>2. PICK t : t = LastTwo
        OBVIOUS
    <2>3. <<"pre">> \o t # <<>> /\ Head(<<"pre">> \o t) = "pre" /\ Tail(<<"pre">> \o t) = t
        BY <1>1, <2>2, Prefixed
    <2> QED BY <1>8, <2>1, <2>2, <2>3
<1>9. CASE k = 7
    <2>1. CASE api = "not"
        <3>1. TodoAt(plan, p, 7) = <<"ot", "not">> /\ Name(p, 7) = "ot" /\ Upon(plan, 7) = 8
              /\ TodoAt(plan, p, 8) = <<"not">>
            BY <2>1 DEF TodoAt, LastTwo, Upon, Name
        <3>2. <<"ot", "not">> # <<>> /\ Head(<<"ot", "not">>) = "ot" /\ Tail(<<"ot", "not">>) = <<"not">>
            OBVIOUS
        <3>3. TodoAt(plan, p, 7) # <<>> /\ Head(TodoAt(plan, p, 7)) = Name(p, 7)
              /\ Tail(TodoAt(plan, p, 7)) = TodoAt(plan, p, Upon(plan, 7))
            BY <3>1, <3>2
        <3> QED BY <1>9, <3>3
    <2>2. CASE api # "not"
        <3>1. TodoAt(plan, p, 7) = <<api>> /\ Name(p, 7) = api /\ Upon(plan, 7) = 9
              /\ TodoAt(plan, p, 9) = <<>>
            BY <2>2 DEF TodoAt, LastTwo, Upon, Name
        <3>2. TodoAt(plan, p, 7) # <<>> /\ Head(TodoAt(plan, p, 7)) = Name(p, 7)
              /\ Tail(TodoAt(plan, p, 7)) = TodoAt(plan, p, Upon(plan, 7))
            BY <3>1, ShortLists
        <3> QED BY <1>9, <3>2
    <2> QED BY <2>1, <2>2
<1>10. CASE k = 8
    <2>1. TodoAt(plan, p, 8) = <<"not">> /\ Upon(plan, 8) = 9 /\ TodoAt(plan, p, 9) = <<>>
          /\ Name(p, 8) = "not"
        BY DEF TodoAt, Upon, Name
    <2>2. TodoAt(plan, p, 8) # <<>> /\ Head(TodoAt(plan, p, 8)) = Name(p, 8)
          /\ Tail(TodoAt(plan, p, 8)) = TodoAt(plan, p, Upon(plan, 8))
        BY <2>1, ShortLists
    <2> QED BY <1>10, <2>2
<1> QED BY <1>3, <1>4, <1>5, <1>6, <1>7, <1>8, <1>9, <1>10

LEMMA UponFacts ==
    ASSUME api \in Kinds, NEW plan \in Plans, NEW k \in 1..8, InPlan(plan, k)
    PROVE  /\ Upon(plan, k) \in Stages /\ Upon(plan, k) > k
           /\ Upon(plan, k) < 9 => InPlan(plan, Upon(plan, k))
           /\ Upon(plan, k) <= 7 <=> k < 7
BY PlanFacts DEF Upon, InPlan, Stages, Kinds

LEMMA FirstStage ==
    ASSUME api \in Kinds, NEW plan \in Plans, NEW p \in Party
    PROVE  /\ Upon(plan, 0) \in 1..7 /\ InPlan(plan, Upon(plan, 0))
           /\ Methods(plan, p) = TodoAt(plan, p, Upon(plan, 0))
<1>1. Upon(plan, 0) \in 1..7 /\ InPlan(plan, Upon(plan, 0))
    BY DEF Upon, InPlan
<1> DEFINE part(x) == IF x \in plan.new \cup {"op"} THEN Stage(x, p) ELSE <<>>
           a == part("setS")
           b == part("setup")
           c == part("pre")
           d == part("op")
<1>2. Methods(plan, p) = a \o b \o c \o d
    BY DEF Methods
<1>3. d = LastTwo
    <2>1. d = Stage("op", p)
        OBVIOUS
    <2> QED BY <2>1 DEF Stage, LastTwo
<1>4. /\ c = IF "pre" \notin plan.new THEN <<>> ELSE IF api = "not" THEN <<"choose", "pre">> ELSE <<"pre">>
      /\ b = IF "setup" \in plan.new THEN SetupStages(p) ELSE <<>>
      /\ a = IF "setS" \in plan.new THEN <<"setS">> ELSE <<>>
    BY DEF Stage, SetupStages
<1>5. IsSeq(a) /\ IsSeq(b) /\ IsSeq(c) /\ IsSeq(d)
    <2>1. IsSeq(a)
        BY <1>4, Single, Empty
    <2>2. IsSeq(b)
        <3>1. <<"setup", Name(p, 3), Name(p, 4)>> \in Seq({"setup", Name(p, 3), Name(p, 4)})
            OBVIOUS
        <3> QED BY <1>4, <3>1, Empty, ListsOfTodo DEF IsSeq
    <2>3. IsSeq(c)
        <3>1. <<"choose", "pre">> \in Seq({"choose", "pre"})
            OBVIOUS
        <3>2. IsSeq(<<"choose", "pre">>)
            BY <3>1 DEF IsSeq
        <3> QED BY <1>4, <3>2, Single, Empty
    <2> QED BY <1>3, <2>1, <2>2, <2>3, ListsOfTodo
<1> HIDE DEF a, b, c, d
<1>6. c \o d = FromPre(plan)
    <2>1. CASE "pre" \notin plan.new
        <3>1. c = <<>> /\ <<>> \o d = d
            BY <1>4, <1>5, <2>1 DEF IsSeq
        <3> QED BY <1>3, <2>1, <3>1 DEF FromPre
    <2>2. CASE "pre" \in plan.new /\ api = "not"
        <3>1. c = <<"choose", "pre">> /\ c \o d = <<"choose">> \o (<<"pre">> \o d)
            BY <1>4, <1>5, <2>2, PrefixedTwo
        <3> QED BY <1>3, <2>2, <3>1 DEF FromPre
    <2>3. CASE "pre" \in plan.new /\ api # "not"
        BY <1>3, <1>4, <2>3 DEF FromPre
    <2> QED BY <2>1, <2>2, <2>3
<1>7. a \o b \o c \o d = a \o (b \o (c \o d)) /\ <<>> \o (c \o d) = c \o d
      /\ <<>> \o (b \o (c \o d)) = b \o (c \o d)
    <2>1. ASSUME NEW x, IsSeq(x)
          PROVE  (x \o c) \o d = x \o (c \o d)
        BY <1>5, <2>1, JoinedThree
    <2>2. ASSUME NEW y, IsSeq(y)
          PROVE  (a \o b) \o y = a \o (b \o y)
        BY <1>5, <2>2, JoinedThree
    <2>3. IsSeq(a \o b)
        BY <1>5, Joined
    <2>4. IsSeq(c \o d)
        BY <1>5, Joined
    <2>5. IsSeq(b \o (c \o d))
        BY <1>5, <2>4, Joined
    <2>6. ASSUME NEW x, IsSeq(x)
          PROVE  <<>> \o x = x
        BY <2>6, JoinedThree
    <2>7. (a \o b) \o c \o d = (a \o b) \o (c \o d)
        BY <2>1, <2>3, Zenon
    <2>8. (a \o b) \o (c \o d) = a \o (b \o (c \o d))
        BY <2>2, <2>4, Zenon
    <2> QED BY <2>4, <2>5, <2>6, <2>7, <2>8, Zenon
<1>8. b \o (c \o d) = FromSetup(plan, p)
    <2>1. CASE "setup" \in plan.new
        BY <1>4, <1>6, <2>1 DEF FromSetup
    <2>2. CASE "setup" \notin plan.new
        BY <1>4, <1>6, <1>7, <2>2 DEF FromSetup
    <2> QED BY <2>1, <2>2
<1>9. a \o FromSetup(plan, p) = TodoAt(plan, p, Upon(plan, 0))
    <2>1. CASE "setS" \in plan.new
        <3>1. a = <<"setS">> /\ Upon(plan, 0) = 1
            BY <1>4, <2>1 DEF Upon
        <3> QED BY <3>1 DEF TodoAt
    <2>2. CASE "setS" \notin plan.new
        <3>1. a \o FromSetup(plan, p) = FromSetup(plan, p)
            BY <1>4, <1>7, <1>8, <2>2
        <3>2. FromSetup(plan, p) = TodoAt(plan, p, Upon(plan, 0))
            BY <2>2 DEF FromSetup, FromPre, TodoAt, Upon
        <3> QED BY <3>1, <3>2
    <2> QED BY <2>1, <2>2
<1> QED BY <1>1, <1>2, <1>7, <1>8, <1>9

\* What p is about to do tells where it is.
LEMMA StageOf ==
    ASSUME api \in Kinds, plans \in Seq(Plans), NEW st, NEW p \in Party, Staged(st, p),
           NEW m, m # "error", Doing(p, m)
    PROVE  /\ st[p] \in 1..8 /\ m = Name(p, st[p]) /\ me[p].cnt \in 1..Len(plans)
           /\ InPlan(plans[me[p].cnt], st[p])
           /\ Tail(me[p].todo) = TodoAt(plans[me[p].cnt], p, Upon(plans[me[p].cnt], st[p]))
<1> DEFINE n == me[p].cnt
           k == st[p]
<1>1. me[p].todo # <<>> /\ Head(me[p].todo) = m
    BY DEF Doing
<1>2. k \in 1..8 /\ n \in 1..Len(plans) /\ InPlan(plans[n], k) /\ me[p].todo = TodoAt(plans[n], p, k)
    BY <1>1 DEF Staged, Stages
<1>3. plans[n] \in Plans
    BY <1>2
<1> QED BY <1>1, <1>2, <1>3, HeadOfTodo

(*------------------------------- arithmetic -----------------------------*)
LEMMA TimesMonotone ==
    ASSUME NEW b \in Nat, NEW x \in Int, NEW y \in Int, x < y
    PROVE  x * b + b <= y * b
<1> DEFINE k == y - x - 1
<1>1. k \in Nat /\ y = x + (k + 1)
    OBVIOUS
<1>2. k * b \in Nat
    BY <1>1
<1>3. y * b = x * b + (k * b + b)
    BY <1>1
<1> QED BY <1>2, <1>3

LEMMA Distribute ==
    ASSUME NEW x \in Int, NEW y \in Int, NEW b \in Int
    PROVE  /\ (x + y) * b = x * b + y * b /\ (x - y) * b = x * b - y * b
           /\ (x + 1) * b = x * b + b /\ x * b \in Int
OBVIOUS

LEMMA Divided ==
    ASSUME NEW b \in Nat \ {0}, NEW i \in Nat
    PROVE  /\ i \div b \in Nat /\ i % b \in 0..(b - 1)
           /\ i = (i \div b) * b + (i % b)
<1>1. /\ i \div b \in Int /\ i % b \in 0..(b - 1)
      /\ i = b * (i \div b) + (i % b)
    OBVIOUS
<1> DEFINE q == i \div b
           r == i % b
<1> HIDE DEF q, r
<1>2. q \in Int /\ r \in 0..(b - 1) /\ i = q * b + r
    BY <1>1 DEF q, r
<1>3. q >= 0
    <2>1. q < 0 => q * b + b <= 0 * b
        BY <1>2, TimesMonotone
    <2>2. 0 * b = 0 /\ q * b \in Int
        BY <1>2
    <2> QED BY <1>2, <2>1, <2>2
<1>4. q \in Nat
    BY <1>2, <1>3
<1> QED BY <1>2, <1>4 DEF q, r

\* Division with remainder is unique.
LEMMA QuotientIs ==
    ASSUME NEW b \in Nat \ {0}, NEW i \in Nat, NEW q \in Int, NEW m \in 0..(b - 1),
           i = q * b + m
    PROVE  i \div b = q /\ i % b = m
<1> DEFINE x == i \div b
           r == i % b
<1>1. x \in Int /\ r \in 0..(b - 1) /\ i = x * b + r
    <2>1. i \div b \in Nat /\ i % b \in 0..(b - 1) /\ i = (i \div b) * b + (i % b)
        BY Divided, Zenon
    <2> QED BY <2>1
<1> HIDE DEF x, r
<1>2. x * b \in Int /\ q * b \in Int
    BY <1>1
<1>3. ~(x < q)
    <2>1. x < q => x * b + b <= q * b
        BY <1>1, TimesMonotone
    <2> QED BY <1>1, <1>2, <2>1
<1>4. ~(q < x)
    <2>1. q < x => q * b + b <= x * b
        BY <1>1, TimesMonotone
    <2> QED BY <1>1, <1>2, <2>1
<1>5. x = q
    BY <1>1, <1>3, <1>4
<1> QED BY <1>1, <1>2, <1>5 DEF x, r

LEMMA MultipleOf ==
    ASSUME NEW b \in Nat \ {0}, NEW k \in Nat
    PROVE  (k * b) % b = 0 /\ (b * k) % b = 0
<1>1. k * b \in Nat /\ k * b = k * b + 0 /\ b * k = k * b /\ 0 \in 0..(b - 1)
    OBVIOUS
<1> QED BY <1>1, QuotientIs

LEMMA MultipleSum ==
    ASSUME NEW b \in Nat \ {0}, NEW x \in Nat, NEW y \in Nat, x % b = 0, y % b = 0
    PROVE  (x + y) % b = 0
<1> DEFINE k == x \div b
           l == y \div b
<1>1. k \in Nat /\ l \in Nat /\ x = k * b + 0 /\ y = l * b + 0
    BY Divided
<1> HIDE DEF k, l
<1>2. x + y = (k + l) * b + 0 /\ k + l \in Int /\ x + y \in Nat /\ 0 \in 0..(b - 1)
    BY <1>1, Distribute
<1> QED BY <1>2, QuotientIs

LEMMA RoundedFacts ==
    ASSUME NEW n \in Nat
    PROVE  /\ Rounded(n) \in Nat /\ Rounded(n) >= n /\ Rounded(n) % Width = 0
<1>1. Width \in Nat \ {0}
    BY MyOtAssumption
<1> DEFINE m == n + Width - 1
           q == m \div Width
           r == m % Width
<1>2. m \in Nat
    BY <1>1
<1> HIDE DEF m
<1>3. q \in Nat /\ r \in 0..(Width - 1) /\ m = q * Width + r
    BY <1>1, <1>2, Divided
<1>4. Rounded(n) = q * Width
    BY DEF Rounded, m
<1> HIDE DEF q, r
<1>5. q * Width \in Nat /\ q * Width = m - r
    BY <1>1, <1>2, <1>3
<1>6. q * Width >= n
    BY <1>1, <1>3, <1>5 DEF m
<1>7. (q * Width) % Width = 0
    BY <1>1, <1>3, MultipleOf
<1> QED BY <1>4, <1>5, <1>6, <1>7

LEMMA BatchedIsNat ==
    ASSUME NEW n \in Nat
    PROVE  Batched(n) \in Nat
<1>1. Lanes \in Nat \ {0}
    BY MyOtAssumption
<1> DEFINE m == n + Lanes - 1
           q == m \div Lanes
<1>2. m \in Nat
    BY <1>1
<1>3. q \in Nat
    BY <1>1, <1>2, Divided
<1> HIDE DEF q
<1>4. Lanes * q \in Nat
    BY <1>1, <1>3
<1> QED BY <1>4 DEF Batched, q

(*--------------------------------- places -------------------------------*)
LEMMA PlaceFields ==
    ASSUME NEW a, NEW n, NEW plan, NEW p, NEW k,
           NEW x, x = PlaceAt(a, n, plan, p, k)
    PROVE  LET made == "pre" \in plan.new /\ k > 6
           IN  /\ x.start = (IF "setS" \in plan.new /\ k > 1 THEN n ELSE a.start)
               /\ x.gid = (IF k > 7 THEN a.gid + Batched(plan.use) ELSE a.gid)
               /\ x.epoch = EpochAt(a, plan, p, k)
               /\ x.pos = (IF made THEN FirstAt(a, plan, p, k) + Rounded(plan.len)
                                   ELSE FirstAt(a, plan, p, k))
               /\ x.pre = (IF made THEN n ELSE a.pre)
               /\ x.chosen = (IF "pre" \in plan.new /\ k > 5 THEN n ELSE a.chosen)
               /\ x.of = (IF made THEN EpochAt(a, plan, p, k) ELSE a.of)
               /\ x.first = (IF made THEN FirstAt(a, plan, p, k) ELSE a.first)
               /\ x.s = ByS(a, plan, p, k) /\ x.r = ByR(a, plan, k)
BY DEF PlaceAt

LEMMA PlaceType ==
    ASSUME NEW a \in Places, NEW n \in Nat, NEW plan \in Plans, NEW p, NEW k
    PROVE  PlaceAt(a, n, plan, p, k) \in Places
<1>1. Batched(plan.use) \in Nat /\ Rounded(plan.len) \in Nat
    BY PlanFacts, BatchedIsNat, RoundedFacts
<1>2. EpochAt(a, plan, p, k) \in Nat /\ FirstAt(a, plan, p, k) \in Nat
    BY DEF Places, EpochAt, FirstAt
<1>3. ByS(a, plan, p, k) \in Nat /\ ByR(a, plan, k) \in Nat
    BY DEF Places, ByS, ByR, Counted
<1>4. FirstAt(a, plan, p, k) + Rounded(plan.len) \in Nat /\ a.gid + Batched(plan.use) \in Nat
    BY <1>1, <1>2 DEF Places
<1> QED BY <1>2, <1>3, <1>4 DEF PlaceAt, Places

\* What a method changes of the place
Moved(x, y, n, plan, p, k) ==
    LET renews == k = (IF p = "S" THEN 4 ELSE 2)
    IN  /\ y.start = (IF k = 1 THEN n ELSE x.start)
        /\ y.gid = (IF k = 7 THEN x.gid + Batched(plan.use) ELSE x.gid)
        /\ y.epoch = (IF renews THEN x.epoch + 1 ELSE x.epoch)
        /\ y.pos = (IF renews THEN 0 ELSE IF k = 6 THEN x.pos + Rounded(plan.len) ELSE x.pos)
        /\ y.pre = (IF k = 6 THEN n ELSE x.pre)
        /\ api = "not" => y.chosen = (IF k = 5 THEN n ELSE x.chosen)
        /\ y.of = (IF k = 6 THEN x.epoch ELSE x.of)
        /\ y.first = (IF k = 6 THEN x.pos ELSE x.first)
        /\ Sent(y, p) = Sent(x, p) + Counted(Sends(plan, p, k))
        /\ Got(y, p) = Got(x, p) + Counted(Receives(plan, p, k))

LEMMA PlaceMoves ==
    ASSUME api \in Kinds, NEW a \in Places, NEW n \in Nat, NEW plan \in Plans, NEW p \in Party,
           NEW k \in 1..8, InPlan(plan, k), NEW x, x = PlaceAt(a, n, plan, p, k),
           NEW y, y = PlaceAt(a, n, plan, p, Upon(plan, k))
    PROVE  Moved(x, y, n, plan, p, k)
<1> DEFINE l == Upon(plan, k)
           made(j) == "pre" \in plan.new /\ j > 6
           renews == k = (IF p = "S" THEN 4 ELSE 2)
<1>1. /\ l \in Stages /\ l > k /\ (l < 9 => InPlan(plan, l)) /\ (l <= 7 <=> k < 7)
    BY UponFacts
<1>2. /\ k = 1 => "setS" \in plan.new
      /\ k \in 2..4 => "setup" \in plan.new
      /\ k \in {5, 6} => "pre" \in plan.new
      /\ k = 5 => api = "not"
      /\ k = 8 => api = "not"
    BY DEF InPlan
<1>3. /\ k = 1 => l \in {2, 5, 6, 7} /\ (l # 2 => "setup" \notin plan.new) /\ (l = 7 => "pre" \notin plan.new)
      /\ k = 2 => l = 3
      /\ k = 3 => l = 4
      /\ k = 4 => l \in {5, 6, 7} /\ (l = 7 => "pre" \notin plan.new)
      /\ k = 5 => l = 6
      /\ k = 6 => l = 7
      /\ k = 7 => l \in {8, 9} /\ (l = 8 <=> api = "not")
      /\ k = 8 => l = 9
      /\ l = 6 => (k = 5 <=> api = "not")
    BY <1>2 DEF Upon
<1>4. a.s \in Nat /\ a.r \in Nat /\ a.epoch \in Nat /\ a.pos \in Nat /\ a.gid \in Nat
    BY DEF Places
<1>5. PlaceAt(a, n, plan, p, k).start = (IF "setS" \in plan.new /\ k > 1 THEN n ELSE a.start)
    BY DEF PlaceAt
<1> HIDE DEF l
<1>6. /\ y.start = (IF k = 1 THEN n ELSE x.start)
      /\ y.gid = (IF k = 7 THEN x.gid + Batched(plan.use) ELSE x.gid)
      /\ y.pre = (IF k = 6 THEN n ELSE x.pre)
    BY <1>1, <1>3, <1>2, PlaceFields DEF l, Stages
<1>7. api = "not" => y.chosen = (IF k = 5 THEN n ELSE x.chosen)
    BY <1>1, <1>3, <1>2, PlaceFields DEF l, Stages
<1>8. EpochAt(a, plan, p, l) = (IF renews THEN EpochAt(a, plan, p, k) + 1 ELSE EpochAt(a, plan, p, k))
      /\ FirstAt(a, plan, p, l) = (IF renews THEN 0 ELSE FirstAt(a, plan, p, k))
    BY <1>1, <1>3, <1>2 DEF EpochAt, FirstAt, Renewed, Stages
<1>9. made(l) <=> (k = 6 \/ made(k))
    BY <1>1, <1>3, <1>2 DEF Stages
<1>10. /\ y.epoch = (IF renews THEN x.epoch + 1 ELSE x.epoch)
       /\ y.pos = (IF renews THEN 0 ELSE IF k = 6 THEN x.pos + Rounded(plan.len) ELSE x.pos)
       /\ y.of = (IF k = 6 THEN x.epoch ELSE x.of)
       /\ y.first = (IF k = 6 THEN x.pos ELSE x.first)
    <2> DEFINE e == EpochAt(a, plan, p, k)
               f == FirstAt(a, plan, p, k)
               e2 == EpochAt(a, plan, p, l)
               f2 == FirstAt(a, plan, p, l)
    <2>1. /\ x.epoch = e /\ x.pos = (IF made(k) THEN f + Rounded(plan.len) ELSE f)
          /\ x.of = (IF made(k) THEN e ELSE a.of) /\ x.first = (IF made(k) THEN f ELSE a.first)
        BY PlaceFields
    <2>2. /\ y.epoch = e2 /\ y.pos = (IF made(l) THEN f2 + Rounded(plan.len) ELSE f2)
          /\ y.of = (IF made(l) THEN e2 ELSE a.of) /\ y.first = (IF made(l) THEN f2 ELSE a.first)
        BY PlaceFields DEF l
    <2>3. made(k) => k > 6 /\ ~renews
        OBVIOUS
    <2> HIDE DEF e, f, e2, f2
    <2>4. k = 6 => ~made(k) /\ ~renews
        OBVIOUS
    <2>5. e2 = (IF renews THEN e + 1 ELSE e) /\ f2 = (IF renews THEN 0 ELSE f)
        BY <1>8 DEF e, f, e2, f2
    <2>6. renews => ~made(l)
        BY <1>9
    <2> HIDE DEF made, renews
    <2> QED BY <1>9, <2>1, <2>2, <2>3, <2>4, <2>5, <2>6 DEF renews
<1>11. /\ Sent(y, p) = Sent(x, p) + Counted(Sends(plan, p, k))
       /\ Got(y, p) = Got(x, p) + Counted(Receives(plan, p, k))
    <2>1. x.s = ByS(a, plan, p, k) /\ x.r = ByR(a, plan, k)
          /\ y.s = ByS(a, plan, p, l) /\ y.r = ByR(a, plan, l)
        BY PlaceFields DEF l
    <2>2. ByS(a, plan, p, l) = ByS(a, plan, p, k)
              + Counted(IF p = "S" THEN Sends(plan, p, k) ELSE Receives(plan, p, k))
        BY <1>1, <1>3, <1>2, <1>4 DEF ByS, Counted, Sends, Receives, InPlan, Stages, Party
    <2>3. ByR(a, plan, l) = ByR(a, plan, k)
              + Counted(IF p = "S" THEN Receives(plan, p, k) ELSE Sends(plan, p, k))
        BY <1>1, <1>3, <1>2, <1>4 DEF ByR, Counted, Sends, Receives, InPlan, Stages, Party
    <2>4. p = "S" \/ p = "R"
        BY DEF Party
    <2> QED BY <2>1, <2>2, <2>3, <2>4 DEF Sent, Got
<1> QED BY <1>6, <1>7, <1>10, <1>11 DEF Moved

LEMMA PlaceBegins ==
    ASSUME NEW a \in Places, NEW n \in Nat, NEW plan \in Plans, NEW p \in Party
    PROVE  LET x == PlaceAt(a, n, plan, p, Upon(plan, 0))
           IN  /\ x.start = a.start /\ x.gid = a.gid /\ x.epoch = a.epoch /\ x.pos = a.pos
               /\ x.pre = a.pre /\ (api = "not" => x.chosen = a.chosen) /\ x.of = a.of
               /\ x.first = a.first /\ x.s = a.s /\ x.r = a.r
<1> DEFINE k == Upon(plan, 0)
           x == PlaceAt(a, n, plan, p, k)
<1>1. /\ k \in {1, 2, 5, 6, 7} /\ (k # 1 => "setS" \notin plan.new)
      /\ (k > 2 => "setup" \notin plan.new) /\ (k = 7 => "pre" \notin plan.new)
      /\ (k = 6 => api # "not")
    BY DEF Upon
<1>2. a.s \in Nat /\ a.r \in Nat
    BY DEF Places
<1> HIDE DEF k
<1>3. EpochAt(a, plan, p, k) = a.epoch /\ FirstAt(a, plan, p, k) = a.pos
    BY <1>1 DEF EpochAt, FirstAt, Renewed
<1>4. ByS(a, plan, p, k) = a.s /\ ByR(a, plan, k) = a.r
    BY <1>1, <1>2 DEF ByS, ByR, Counted
<1> QED BY <1>1, <1>3, <1>4, PlaceFields DEF k

\* A round ends at the same place for both.
LEMMA PlaceEnds ==
    ASSUME NEW a \in Places, NEW n \in Nat, NEW plan \in Plans, NEW p \in Party
    PROVE  PlaceAt(a, n, plan, p, 9) = PlaceAt(a, n, plan, "S", 9)
<1>1. EpochAt(a, plan, p, 9) = EpochAt(a, plan, "S", 9) /\ FirstAt(a, plan, p, 9) = FirstAt(a, plan, "S", 9)
    BY DEF EpochAt, FirstAt, Renewed
<1>2. ByS(a, plan, p, 9) = ByS(a, plan, "S", 9)
    BY DEF ByS, Counted
<1> QED BY <1>1, <1>2 DEF PlaceAt

LEMMA HistoryFacts ==
    ASSUME NEW h, History(h)
    PROVE  /\ Len(plans) \in Nat /\ Len(h) = Len(plans) + 1 /\ h[1] = Origin
           /\ \A n \in 1..Len(plans) : plans[n] \in Plans /\ n \in 1..Len(h) /\ n + 1 \in 1..Len(h)
           /\ \A n \in 1..Len(h) : h[n] \in Places /\ PlaceOK(h[n], n)
           /\ \A n \in 1..Len(plans) : h[n + 1] = PlaceAt(h[n], n, plans[n], "S", 9)
BY DEF History

LEMMA CountedIs == ASSUME NEW b PROVE Counted(b) \in {0, 1} /\ Counted(b) \in Nat
BY DEF Counted

\* What p has sent at k
SentBy(a, plan, p, k) == IF p = "S" THEN ByS(a, plan, "S", k) ELSE ByR(a, plan, k)

\* The messages of a round have numbers between those of its ends, in their order.
LEMMA NumberWithin ==
    ASSUME api \in Kinds, NEW h, History(h), NEW p \in Party, NEW n \in 1..Len(plans), NEW k \in 1..8,
           Sends(plans[n], p, k)
    PROVE  /\ Number(h, p, n, k) \in Nat /\ Sent(h[n], p) \in Nat /\ Sent(h[n + 1], p) \in Nat
           /\ Sent(h[n], p) < Number(h, p, n, k) /\ Number(h, p, n, k) <= Sent(h[n + 1], p)
           /\ \A i \in 1..8 : i < k /\ Sends(plans[n], p, i) => Number(h, p, n, i) < Number(h, p, n, k)
<1> DEFINE a == h[n]
           plan == plans[n]
           z == PlaceAt(a, n, plan, "S", 9)
<1>1. a \in Places /\ h[n + 1] = z
    BY HistoryFacts
<1>2. a.s \in Nat /\ a.r \in Nat
    BY <1>1 DEF Places
<1>3. ASSUME NEW i \in Stages PROVE Sent(PlaceAt(a, n, plan, p, i), p) = SentBy(a, plan, p, i)
    <2>1. p = "S" \/ p = "R"
        BY DEF Party
    <2> QED BY <2>1, PlaceFields DEF Sent, SentBy
<1>4. Sent(z, p) = SentBy(a, plan, p, 9)
    BY PlaceFields DEF Sent, SentBy
<1>5. ASSUME NEW i \in 1..8 PROVE Number(h, p, n, i) = SentBy(a, plan, p, i) + 1
    BY <1>3 DEF Number, Stages
<1>6. Sent(a, p) = (IF p = "S" THEN a.s ELSE a.r)
    BY DEF Sent
<1> HIDE DEF a, z
<1>7. ASSUME NEW i PROVE SentBy(a, plan, p, i) \in Nat
    <2>1. ByS(a, plan, "S", i) \in Nat
        BY <1>2, CountedIs DEF ByS
    <2>2. ByR(a, plan, i) \in Nat
        BY <1>2, CountedIs DEF ByR
    <2> QED BY <2>1, <2>2 DEF SentBy
<1>8. (IF p = "S" THEN a.s ELSE a.r) <= SentBy(a, plan, p, k)
    <2>1. a.s <= ByS(a, plan, "S", k)
        BY <1>2, CountedIs DEF ByS
    <2>2. a.r <= ByR(a, plan, k)
        BY <1>2, CountedIs DEF ByR
    <2> QED BY <2>1, <2>2 DEF SentBy
<1>9. ASSUME NEW i \in 1..9, NEW j \in 1..8, j < i, Sends(plan, p, j)
      PROVE  SentBy(a, plan, p, j) + 1 <= SentBy(a, plan, p, i)
    <2>1. CASE p = "S"
        <3>1. \/ j = 1 /\ "setS" \in plan.new
              \/ j = 3 /\ "setup" \in plan.new
              \/ j = 7 /\ api # "rot"
              \/ j = 8 /\ api = "not"
            BY <1>9, <2>1 DEF Sends, InPlan
        <3> QED BY <1>2, <1>9, <2>1, <3>1 DEF ByS, Counted, SentBy
    <2>2. CASE p # "S"
        <3>1. \/ j \in {3, 4} /\ "setup" \in plan.new
              \/ j = 6 /\ "pre" \in plan.new
            BY <1>9, <2>2 DEF Sends, InPlan
        <3> QED BY <1>2, <1>9, <2>2, <3>1 DEF ByR, Counted, SentBy
    <2> QED BY <2>1, <2>2
<1>10. SentBy(a, plan, p, k) + 1 <= SentBy(a, plan, p, 9)
    BY <1>9
<1>11. \A i \in 1..8 : i < k /\ Sends(plan, p, i) => SentBy(a, plan, p, i) + 1 <= SentBy(a, plan, p, k)
    BY <1>9
<1>12. SentBy(a, plan, p, k) \in Nat /\ SentBy(a, plan, p, 9) \in Nat
    BY <1>7
<1>13. Sent(a, p) \in Nat /\ Sent(a, p) <= SentBy(a, plan, p, k)
    BY <1>2, <1>6, <1>8
<1>14. Number(h, p, n, k) = SentBy(a, plan, p, k) + 1 /\ Sent(h[n + 1], p) = SentBy(a, plan, p, 9)
    BY <1>1, <1>4, <1>5
<1>15. ASSUME NEW i \in 1..8, i < k, Sends(plan, p, i)
       PROVE  Number(h, p, n, i) < Number(h, p, n, k)
    <2>1. SentBy(a, plan, p, i) + 1 <= SentBy(a, plan, p, k)
        BY <1>11, <1>15
    <2>2. SentBy(a, plan, p, i) \in Nat
        BY <1>7
    <2>3. Number(h, p, n, i) = SentBy(a, plan, p, i) + 1
        BY <1>5
    <2> QED BY <1>12, <1>14, <2>1, <2>2, <2>3
<1>16. /\ Number(h, p, n, k) \in Nat /\ Sent(h[n + 1], p) \in Nat
       /\ Sent(a, p) < Number(h, p, n, k) /\ Number(h, p, n, k) <= Sent(h[n + 1], p)
    BY <1>10, <1>12, <1>13, <1>14
<1> QED BY <1>13, <1>15, <1>16 DEF a

LEMMA NumberUnique ==
    ASSUME api \in Kinds, NEW h, History(h), NEW p \in Party,
           NEW n \in 1..Len(plans), NEW k \in 1..8, Sends(plans[n], p, k),
           NEW m \in 1..Len(plans), NEW i \in 1..8, Sends(plans[m], p, i),
           Number(h, p, n, k) = Number(h, p, m, i)
    PROVE  m = n /\ i = k
<1>1. Len(plans) \in Nat
    BY HistoryFacts
<1>2. ASSUME NEW x \in 1..Len(plans), NEW y \in 1..Len(plans), x < y
      PROVE  Sent(h[x + 1], p) <= Sent(h[y], p)
    <2>1. x + 1 \in 1..Len(h) /\ y \in 1..Len(h) /\ x + 1 <= y
        BY <1>1, <1>2, HistoryFacts
    <2> QED BY <2>1 DEF History, Sent
<1>3. /\ Number(h, p, n, k) \in Nat /\ Number(h, p, m, i) \in Nat
      /\ Sent(h[n], p) \in Nat /\ Sent(h[n + 1], p) \in Nat
      /\ Sent(h[m], p) \in Nat /\ Sent(h[m + 1], p) \in Nat
      /\ Sent(h[n], p) < Number(h, p, n, k) /\ Number(h, p, n, k) <= Sent(h[n + 1], p)
      /\ Sent(h[m], p) < Number(h, p, m, i) /\ Number(h, p, m, i) <= Sent(h[m + 1], p)
    BY NumberWithin
<1>4. ~(m < n)
    BY <1>2, <1>3
<1>5. ~(n < m)
    BY <1>2, <1>3
<1>6. m = n
    BY <1>1, <1>4, <1>5
<1>7. ~(i < k) /\ ~(k < i)
    <2>1. i < k => Number(h, p, n, i) < Number(h, p, n, k)
        BY <1>6, NumberWithin
    <2>2. k < i => Number(h, p, n, k) < Number(h, p, n, i)
        BY <1>6, NumberWithin
    <2> QED BY <1>3, <1>6, <2>1, <2>2
<1> QED BY <1>6, <1>7

(*------------------------------ a method of p ---------------------------*)
\* p has done the method it was at, and the peer nothing.
Method(st, st2, p) ==
    /\ st[p] \in 1..8 /\ me[p].cnt \in 1..Len(plans) /\ InPlan(plans[me[p].cnt], st[p])
    /\ st2[p] = Upon(plans[me[p].cnt], st[p]) /\ st2[Peer(p)] = st[Peer(p)]
    /\ api' = api /\ plans' = plans /\ me' = [q \in Party |-> me'[q]]
    /\ me'[p].cnt = me[p].cnt /\ me'[Peer(p)] = me[Peer(p)]
Here(h, p, k) == PlaceAt(h[me[p].cnt], me[p].cnt, plans[me[p].cnt], p, k)

LEMMA PlaceSame ==
    ASSUME NEW a, NEW n, NEW plan, NEW p, NEW k, api' = api
    PROVE  PlaceAt(a, n, plan, p, k)' = PlaceAt(a, n, plan, p, k)
BY DEF PlaceAt, EpochAt, FirstAt, Renewed, ByS, ByR

LEMMA AtMoved ==
    ASSUME api \in Kinds, NEW h, History(h), NEW p \in Party, NEW st, NEW st2, Method(st, st2, p)
    PROVE  /\ At(h, st, p) = Here(h, p, st[p])
           /\ At(h, st2, p)' = Here(h, p, Upon(plans[me[p].cnt], st[p]))
           /\ At(h, st2, Peer(p))' = At(h, st, Peer(p))
<1>1. PICK n : n = me[p].cnt
    OBVIOUS
<1>2. PICK plan : plan = plans[n]
    OBVIOUS
<1>3. PICK k : k = Upon(plan, st[p])
    OBVIOUS
<1>4. /\ n \in 1..Len(plans) /\ st[p] \in 1..8 /\ plan \in Plans /\ h[n] \in Places /\ n \in Nat
      /\ h[n + 1] = PlaceAt(h[n], n, plan, "S", 9) /\ api' = api /\ st2[p] = k
      /\ plans'[n] = plan /\ me'[p].cnt = n
    BY <1>1, <1>2, <1>3, HistoryFacts DEF Method
<1>5. At(h, st, p) = Here(h, p, st[p])
    BY <1>4 DEF At, Here
<1>6. h[n + 1] = PlaceAt(h[n], n, plan, p, 9)
    BY <1>4, PlaceEnds
<1>7. At(h, st2, p)' = IF k = 9 THEN h[n + 1] ELSE PlaceAt(h[n], n, plan, p, k)'
    BY <1>4 DEF At
<1>8. PlaceAt(h[n], n, plan, p, k)' = PlaceAt(h[n], n, plan, p, k)
    BY <1>4, PlaceSame
<1>9. At(h, st2, p)' = PlaceAt(h[n], n, plan, p, k)
    BY <1>6, <1>7, <1>8
<1>10. At(h, st2, Peer(p))' = At(h, st, Peer(p))
    <2>1. PICK q : q = Peer(p)
        OBVIOUS
    <2>2. PICK m : m = me[q].cnt
        OBVIOUS
    <2>3. PICK other : other = plans[m]
        OBVIOUS
    <2>4. me'[q].cnt = m /\ plans'[m] = other /\ st2[q] = st[q]
        BY <2>1, <2>2, <2>3 DEF Method
    <2>5. At(h, st2, q)' = IF st[q] = 9 THEN h[m + 1] ELSE PlaceAt(h[m], m, other, q, st[q])'
        BY <2>4 DEF At
    <2>6. PlaceAt(h[m], m, other, q, st[q])' = PlaceAt(h[m], m, other, q, st[q])
        BY <1>4, PlaceSame
    <2>7. At(h, st2, q)' = At(h, st, q)
        BY <2>2, <2>3, <2>5, <2>6 DEF At
    <2> QED BY <2>1, <2>7
<1> QED BY <1>1, <1>2, <1>3, <1>5, <1>9, <1>10 DEF Here

LEMMA AtType ==
    ASSUME NEW h, History(h), NEW p \in Party, NEW st, me[p].cnt \in 0..Len(plans),
           st[p] # 9 => me[p].cnt > 0
    PROVE  At(h, st, p) \in Places
<1>1. CASE st[p] = 9
    <2>1. me[p].cnt + 1 \in 1..Len(h)
        BY HistoryFacts
    <2> QED BY <1>1, <2>1, HistoryFacts DEF At
<1>2. CASE st[p] # 9
    <2>1. me[p].cnt \in 1..Len(plans) /\ me[p].cnt \in Nat
        BY <1>2, HistoryFacts
    <2>2. h[me[p].cnt] \in Places /\ plans[me[p].cnt] \in Plans
        BY <2>1, HistoryFacts
    <2> QED BY <1>2, <2>1, <2>2, PlaceType DEF At
<1> QED BY <1>1, <1>2

\* PlaceMoves for the places before and after a method
LEMMA Moves ==
    ASSUME api \in Kinds, NEW h, History(h), NEW p \in Party, NEW st, NEW st2, Method(st, st2, p),
           NEW x, x = At(h, st, p), NEW y, y = At(h, st2, p)'
    PROVE  Moved(x, y, me[p].cnt, plans[me[p].cnt], p, st[p])
<1>1. PICK n : n = me[p].cnt
    OBVIOUS
<1>2. PICK plan : plan = plans[n]
    OBVIOUS
<1>3. PICK k : k = st[p]
    OBVIOUS
<1>4. PICK a : a = h[n]
    OBVIOUS
<1>5. n \in 1..Len(plans) /\ k \in 1..8 /\ InPlan(plan, k)
    BY <1>1, <1>2, <1>3 DEF Method
<1>6. a \in Places /\ plan \in Plans /\ n \in Nat
    BY <1>4, <1>5, <1>2, HistoryFacts
<1>7. x = PlaceAt(a, n, plan, p, k) /\ y = PlaceAt(a, n, plan, p, Upon(plan, k))
    BY <1>4, <1>1, <1>2, <1>3, AtMoved DEF Here
<1>8. Moved(x, y, n, plan, p, k)
    BY <1>5, <1>6, <1>7, PlaceMoves
<1> QED BY <1>1, <1>2, <1>3, <1>8

\* Receives and Sends tell whether p takes a result of the peer; ms is what it returns.
Carries(st, p, ms) ==
    LET plan == plans[me[p].cnt]
        reads == Receives(plan, p, st[p])
    IN
    /\ mail' = [q \in Party |-> mail'[q]] /\ IsSeq(ms)
    /\ Len(ms) = Counted(Sends(plan, p, st[p]))
    /\ mail'[p] = (IF reads THEN Tail(mail[p]) ELSE mail[p]) /\ (reads => mail[p] # <<>>)
    /\ mail'[Peer(p)] = mail[Peer(p)] \o ms
\* What is right of the messages that are still on their way stays right.
Stays(h, st, st2) ==
    \A q \in Party, n \in 1..Len(plans), k \in 1..8 : \A m :
        /\ Sends(plans[n], q, k) /\ Good(h, st, q, n, k, m)
        /\ Number(h, q, n, k) <= Sent(At(h, st, q), q)
        /\ Number(h, q, n, k) > Got(At(h, st, Peer(q)), Peer(q))
        /\ Number(h, q, n, k) > Got(At(h, st2, Peer(q))', Peer(q))
        => Good(h, st2, q, n, k, m)'

\* What p returns is right.
Fresh(h, st, st2, p, ms) ==
    \A n, k, m : n = me[p].cnt /\ k = st[p] /\ m = ms[1] /\ Sends(plans[n], p, k)
                 => Good(h, st2, p, n, k, m)'

LEMMA Mails ==
    ASSUME api \in Kinds, NEW h, History(h), NEW p \in Party, NEW st, NEW st2, Method(st, st2, p),
           \A q \in Party : At(h, st, q) \in Places, Mailed(h, st),
           NEW ms, Carries(st, p, ms), Stays(h, st, st2), Fresh(h, st, st2, p, ms)
    PROVE  Mailed(h, st2)'
<1>1. PICK n : n = me[p].cnt
    OBVIOUS
<1>2. PICK k : k = st[p]
    OBVIOUS
<1>3. PICK m1 : m1 = ms[1]
    OBVIOUS
<1> DEFINE q == Peer(p)
<1>4. q \in Party /\ q # p /\ Peer(q) = p /\ \A x \in Party : x = p \/ x = q
    BY Peers
<1>5. n \in 1..Len(plans) /\ k \in 1..8 /\ plans' = plans /\ api' = api
    BY <1>1, <1>2 DEF Method
<1>6. Sends(plans[n], p, k) => Good(h, st2, p, n, k, m1)'
    BY <1>1, <1>2, <1>3 DEF Fresh
<1>7. /\ IsSeq(mail[p]) /\ IsSeq(mail[q]) /\ IsSeq(ms)
      /\ Len(mail[p]) \in Nat /\ Len(mail[q]) \in Nat
    BY <1>4, IsSeqOf DEF Mailed, Carries
<1> DEFINE sent == Sent(At(h, st, p), p)
           got == Got(At(h, st, p), p)
           sentQ == Sent(At(h, st, q), q)
           gotQ == Got(At(h, st, q), q)
           s == Counted(Sends(plans[n], p, k))
           g == Counted(Receives(plans[n], p, k))
<1>8. sent \in Nat /\ got \in Nat /\ sentQ \in Nat /\ gotQ \in Nat /\ s \in {0, 1} /\ g \in {0, 1}
    BY <1>4, CountedIs DEF Places, Sent, Got
<1>9. /\ Sent(At(h, st2, p)', p) = sent + s /\ Got(At(h, st2, p)', p) = got + g
      /\ Sent(At(h, st2, q)', q) = sentQ /\ Got(At(h, st2, q)', q) = gotQ
    <2>1. h[n] \in Places /\ plans[n] \in Plans /\ n \in Nat /\ InPlan(plans[n], k)
        BY <1>5, <1>1, <1>2, HistoryFacts DEF Method
    <2>2. At(h, st, p) = PlaceAt(h[n], n, plans[n], p, k)
          /\ At(h, st2, p)' = PlaceAt(h[n], n, plans[n], p, Upon(plans[n], k))
          /\ At(h, st2, q)' = At(h, st, q)
        BY <1>1, <1>2, AtMoved DEF Here
    <2> HIDE DEF q
    <2>3. PICK x : x = At(h, st, p)
        OBVIOUS
    <2>4. PICK y : y = At(h, st2, p)'
        OBVIOUS
    <2>5. PICK plan : plan = plans[n]
        OBVIOUS
    <2>6. /\ Sent(y, p) = Sent(x, p) + Counted(Sends(plan, p, k))
          /\ Got(y, p) = Got(x, p) + Counted(Receives(plan, p, k))
        BY <1>1, <1>2, <2>3, <2>4, <2>5, Moves DEF Moved
    <2>7. Sent(y, p) = sent + s /\ Got(y, p) = got + g
        BY <2>3, <2>5, <2>6
    <2>8. Sent(At(h, st2, q)', q) = sentQ /\ Got(At(h, st2, q)', q) = gotQ
        BY <2>2
    <2> QED BY <2>4, <2>7, <2>8 DEF Sent, Got
<1>10. Len(mail[q]) = sent - gotQ /\ Len(mail[p]) = sentQ - got
    BY <1>4 DEF Mailed
<1>11. /\ mail' = [x \in Party |-> mail'[x]] /\ mail'[q] = mail[q] \o ms
       /\ mail'[p] = (IF g = 1 THEN Tail(mail[p]) ELSE mail[p]) /\ (g = 1 => mail[p] # <<>>)
    BY <1>1, <1>2 DEF Carries, Counted
<1>12. \A x \in Party, j \in 1..Len(plans), i \in 1..8 :
         (Sends(plans[j], x, i)' <=> Sends(plans[j], x, i)) /\ Number(h, x, j, i)' = Number(h, x, j, i)
    BY <1>5 DEF Sends, InPlan, Number, PlaceAt, EpochAt, FirstAt, Renewed, ByS, ByR, Sent
<1> HIDE DEF q, sent, got, sentQ, gotQ, s, g
<1>13. /\ IsSeq(mail[q] \o ms) /\ Len(mail[q] \o ms) = Len(mail[q]) + s
       /\ \A i \in 1..Len(mail[q]) : (mail[q] \o ms)[i] = mail[q][i]
       /\ s = 1 => (mail[q] \o ms)[Len(mail[q]) + 1] = m1
    <2>1. Len(ms) = s
        BY <1>1, <1>2 DEF s, Carries
    <2>2. /\ IsSeq(mail[q] \o ms) /\ Len(mail[q] \o ms) = Len(mail[q]) + Len(ms)
          /\ \A i \in 1..Len(mail[q]) : (mail[q] \o ms)[i] = mail[q][i]
          /\ \A i \in 1..Len(ms) : (mail[q] \o ms)[Len(mail[q]) + i] = ms[i]
        BY <1>7, Joined
    <2>3. s = 1 => (mail[q] \o ms)[Len(mail[q]) + 1] = ms[1]
        BY <2>1, <2>2
    <2> QED BY <1>8, <1>3, <2>1, <2>2, <2>3
<1>14. IsSeq(mail'[q]) /\ Len(mail'[q]) = (sent + s) - gotQ
    BY <1>8, <1>10, <1>11, <1>13
<1>15. ASSUME g = 1
       PROVE  /\ IsSeq(Tail(mail[p])) /\ Len(Tail(mail[p])) = Len(mail[p]) - 1
              /\ \A i \in 1..(Len(mail[p]) - 1) : Tail(mail[p])[i] = mail[p][i + 1]
    BY <1>7, <1>11, <1>15, TailFacts
<1>16. IsSeq(mail'[p]) /\ Len(mail'[p]) = sentQ - (got + g)
    BY <1>7, <1>8, <1>10, <1>11, <1>15
<1>17. ASSUME NEW j \in 1..Len(plans), NEW i \in 1..8, Sends(plans[j], p, i),
              NEW x, x = Number(h, p, j, i), x > gotQ, x <= sent + s,
              NEW m, m = mail'[q][x - gotQ]
       PROVE  Good(h, st2, p, j, i, m)'
    <2>1. x \in Nat
        BY <1>5, <1>17, NumberWithin
    <2>2. CASE x <= sent
        <3>1. Good(h, st, p, j, i, mail[q][x - gotQ])
            BY <1>17, <2>2, <1>4 DEF Mailed, Waiting, sent, gotQ, q
        <3>2. x - gotQ \in 1..Len(mail[q])
            BY <1>8, <1>10, <1>17, <2>1, <2>2
        <3>3. m = mail[q][x - gotQ]
            BY <1>11, <1>13, <1>17, <3>2
        <3>4. Good(h, st, p, j, i, m)
            BY <3>1, <3>3
        <3>5. x > Got(At(h, st, q), q) /\ x > Got(At(h, st2, q)', q) /\ x <= Sent(At(h, st, p), p)
            BY <1>9, <1>17, <2>2 DEF gotQ, sent
        <3> QED BY <1>17, <3>4, <3>5 DEF Stays, q
    <2>3. CASE x > sent
        <3>1. x = sent + 1 /\ s = 1
            BY <1>8, <1>17, <2>1, <2>3
        <3>2. Sends(plans[n], p, k)
            BY <3>1 DEF s, Counted
        <3>3. Number(h, p, n, k) = sent + 1
            BY <1>5, <1>1, <1>2, AtMoved DEF Number, sent, Here
        <3>4. j = n /\ i = k
            <4>1. Number(h, p, n, k) = Number(h, p, j, i)
                BY <1>17, <3>1, <3>3
            <4> QED BY <1>5, <1>17, <3>2, <4>1, NumberUnique
        <3>5. m = m1
            <4>1. x - gotQ = Len(mail[q]) + 1
                BY <1>8, <1>10, <3>1
            <4>2. mail'[q][Len(mail[q]) + 1] = m1
                <5>1. (mail[q] \o ms)[Len(mail[q]) + 1] = m1
                    BY <1>13, <3>1, Zenon
                <5>2. mail'[q] = mail[q] \o ms
                    BY <1>11, Zenon
                <5> QED BY <5>1, <5>2
            <4>3. m = mail'[q][x - gotQ]
                BY <1>17
            <4> QED BY <4>1, <4>2, <4>3
        <3> QED BY <1>6, <3>2, <3>4, <3>5
    <2> QED BY <1>8, <2>1, <2>2, <2>3
<1>18. ASSUME NEW j \in 1..Len(plans), NEW i \in 1..8, Sends(plans[j], q, i),
              NEW x, x = Number(h, q, j, i), x > got + g, x <= sentQ,
              NEW m, m = mail'[p][x - (got + g)]
       PROVE  Good(h, st2, q, j, i, m)'
    <2> DEFINE y == x - (got + g)
    <2>1. x \in Nat
        BY <1>4, <1>5, <1>18, NumberWithin
    <2>2. x > got
        BY <1>8, <1>18, <2>1
    <2>3. Good(h, st, q, j, i, mail[p][x - got])
        BY <1>4, <1>18, <2>2 DEF Mailed, Waiting, sentQ, got
    <2>4. m = mail[p][x - got]
        <3>1. CASE g = 0
            BY <1>8, <1>11, <1>18, <2>1, <3>1
        <3>2. CASE g = 1
            <4>1. y = x - got - 1 /\ x - got - 1 > 0 /\ x <= sentQ
                BY <1>8, <1>18, <2>1, <3>2
            <4>2. x - got - 1 \in 1..((sentQ - got) - 1) /\ (x - got - 1) + 1 = x - got
                BY <1>8, <2>1, <4>1
            <4>3. y \in 1..(Len(mail[p]) - 1) /\ y + 1 = x - got
                BY <1>10, <4>1, <4>2
            <4>4. mail'[p] = Tail(mail[p]) /\ m = mail'[p][y]
                BY <1>11, <1>18, <3>2
            <4> HIDE DEF y
            <4> QED BY <1>15, <3>2, <4>3, <4>4
        <3> QED BY <1>8, <3>1, <3>2
    <2>5. x > Got(At(h, st, p), p) /\ x > Got(At(h, st2, p)', p) /\ x <= Sent(At(h, st, q), q)
        BY <1>9, <1>18, <2>2 DEF got, sentQ
    <2>6. Good(h, st, q, j, i, m)
        BY <2>3, <2>4
    <2> QED BY <1>4, <1>18, <2>5, <2>6 DEF Stays
<1>19. ASSUME NEW x \in Party
       PROVE  /\ IsSeq(mail'[x])
              /\ Len(mail'[Peer(x)]) = Sent(At(h, st2, x)', x) - Got(At(h, st2, Peer(x))', Peer(x))
    BY <1>4, <1>9, <1>14, <1>16 DEF q
<1>20. ASSUME NEW x \in Party, NEW j \in 1..Len(plans), NEW i \in 1..8, Sends(plans[j], x, i),
              NEW y, y = Number(h, x, j, i), y > Got(At(h, st2, Peer(x))', Peer(x)),
              y <= Sent(At(h, st2, x)', x),
              NEW m, m = mail'[Peer(x)][y - Got(At(h, st2, Peer(x))', Peer(x))]
       PROVE  Good(h, st2, x, j, i, m)'
    <2>1. CASE x = p
        BY <1>9, <1>17, <1>20, <2>1 DEF q
    <2>2. CASE x = q
        BY <1>4, <1>9, <1>18, <1>20, <2>2
    <2> QED BY <1>4, <2>1, <2>2
<1>21. ASSUME NEW x \in Party, NEW j \in 1..Len(plans), NEW i \in 1..8, Sends(plans[j], x, i)',
              Number(h, x, j, i)' > Got(At(h, st2, Peer(x))', Peer(x)),
              Number(h, x, j, i)' <= Sent(At(h, st2, x)', x)
       PROVE  Good(h, st2, x, j, i, Waiting(h, st2, x, Number(h, x, j, i)))'
    <2>1. PICK y : y = Number(h, x, j, i)
        OBVIOUS
    <2>2. PICK m : m = mail'[Peer(x)][y - Got(At(h, st2, Peer(x))', Peer(x))]
        OBVIOUS
    <2>3. Good(h, st2, x, j, i, m)'
        BY <1>12, <1>20, <1>21, <2>1, <2>2
    <2>4. Waiting(h, st2, x, Number(h, x, j, i))' = m
        BY <1>12, <2>1, <2>2 DEF Waiting, Got
    <2> QED BY <2>3, <2>4
<1>22. \A x \in Party :
        /\ IsSeq(mail[x])'
        /\ (Len(mail[Peer(x)]) = Sent(At(h, st2, x), x) - Got(At(h, st2, Peer(x)), Peer(x)))'
    BY <1>19 DEF IsSeq, Sent, Got
<1> QED BY <1>5, <1>11, <1>21, <1>22 DEF Mailed, Sent, Got

(*------------------------------- the objects ----------------------------*)
Fields == {"cnt", "todo", "start", "gid", "epoch", "pos", "rows", "len", "isSet", "isSetup",
           "item", "out", "s", "bb", "A", "k", "a", "r"}

LEMMA DomainOfObject ==
    ASSUME NEW r, IsObject(r)
    PROVE  DOMAIN r = Fields
BY DEF IsObject, Fields

LEMMA ObjectByDomain ==
    ASSUME NEW r, r = [f \in Fields |-> r[f]]
    PROVE  IsObject(r)
<1> DEFINE q == [cnt |-> r.cnt, todo |-> r.todo, start |-> r.start, gid |-> r.gid,
           epoch |-> r.epoch, pos |-> r.pos, rows |-> r.rows, len |-> r.len,
           isSet |-> r.isSet, isSetup |-> r.isSetup, item |-> r.item, out |-> r.out,
           s |-> r.s, bb |-> r.bb, A |-> r.A, k |-> r.k, a |-> r.a, r |-> r.r]
<1>1. q = [f \in Fields |-> q[f]]
    BY DEF Fields
<1>2. \A f \in Fields : q[f] = r[f]
    BY DEF Fields
<1> HIDE DEF q
<1>3. q = r
    BY <1>1, <1>2
<1> QED BY <1>3 DEF IsObject, q

LEMMA ObjectUpdated ==
    ASSUME NEW r, IsObject(r), NEW f, NEW v, NEW q, q = [r EXCEPT ![f] = v], f \in Fields
    PROVE  IsObject(q) /\ q[f] = v /\ \A g \in Fields : g # f => q[g] = r[g]
<1>1. r = [g \in Fields |-> r[g]]
    BY DEF IsObject, Fields
<1>2. q = [g \in Fields |-> q[g]] /\ q[f] = v /\ \A g \in Fields : g # f => q[g] = r[g]
    BY <1>1
<1> QED BY <1>2, ObjectByDomain

LEMMA SamePlan ==
    ASSUME NEW plan, NEW p, NEW k, api' = api
    PROVE  TodoAt(plan, p, k)' = TodoAt(plan, p, k) /\ (InPlan(plan, k)' <=> InPlan(plan, k))
<1>1. TodoAt(plan, p, k)' = TodoAt(plan, p, k)
    BY DEF TodoAt, FromSetup, FromPre, LastTwo, SetupStages, Name
<1> QED BY <1>1 DEF InPlan

LEMMA SameHistory ==
    ASSUME NEW h, plans' = plans, api' = api, History(h), Asked(h)
    PROVE  History(h)' /\ Asked(h)'
<1>1. \A n \in 1..Len(plans) : PlaceAt(h[n], n, plans[n], "S", 9)' = PlaceAt(h[n], n, plans[n], "S", 9)
    BY DEF PlaceAt, EpochAt, FirstAt, Renewed, ByS, ByR
<1>2. \A n \in 1..Len(h) : PlaceOK(h[n], n)' <=> PlaceOK(h[n], n)
    BY DEF PlaceOK
<1>3. History(h)'
    BY <1>1, <1>2 DEF History
<1> QED BY <1>3 DEF Asked

LEMMA Others ==
    ASSUME NEW h, NEW st, Objects(h, st), NEW q \in Party, NEW st2, plans' = plans, api' = api,
           me'[q] = me[q], st2[q] = st[q]
    PROVE  /\ IsObject(me[q])' /\ Staged(st2, q)' /\ DataAt(me[q], At(h, st2, q))'
           /\ q = "R" => DataOfR(At(h, st2, q))'
           /\ q = "S" => DataOfS(st2, At(h, st2, q))'
<1>1. PICK r : r = me[q]
    OBVIOUS
<1>2. PICK x : x = At(h, st, q)
    OBVIOUS
<1>3. IsObject(r) /\ Staged(st, q) /\ DataAt(r, x)
    BY <1>1, <1>2 DEF Objects
<1>4. At(h, st2, q)' = x
    <2>1. At(h, st2, q)' = IF st[q] = 9 THEN h[r.cnt + 1]
                                    ELSE PlaceAt(h[r.cnt], r.cnt, plans[r.cnt], q, st[q])'
        BY <1>1 DEF At
    <2>2. PICK m : m = r.cnt
        OBVIOUS
    <2>3. PICK plan : plan = plans[m]
        OBVIOUS
    <2>4. PlaceAt(h[m], m, plan, q, st[q])' = PlaceAt(h[m], m, plan, q, st[q])
        BY PlaceSame
    <2> QED BY <1>1, <1>2, <2>1, <2>2, <2>3, <2>4 DEF At
<1>5. DataAt(r, x)'
    BY <1>3 DEF DataAt
<1>6. IsObject(r)'
    BY <1>3 DEF IsObject
<1>7. Staged(st2, q)'
    <2>1. PICK m : m = r.cnt
        OBVIOUS
    <2>2. PICK plan : plan = plans[m]
        OBVIOUS
    <2>3. TodoAt(plan, q, st[q])' = TodoAt(plan, q, st[q]) /\ (InPlan(plan, st[q])' <=> InPlan(plan, st[q]))
        BY SamePlan
    <2>4. Prepared(q)' <=> Prepared(q)
        BY DEF Prepared
    <2> QED BY <1>1, <1>3, <2>1, <2>2, <2>3, <2>4 DEF Staged, Counted, IsSeq
<1>8. ASSUME q = "R" PROVE DataOfR(x)'
    <2>1. DataOfR(x)
        BY <1>2, <1>8 DEF Objects
    <2> QED BY <1>8, <2>1 DEF DataOfR, R, RowIn, Row, Drawn, PrgKey
<1>9. ASSUME q = "S" PROVE DataOfS(st2, x)'
    <2>1. DataOfS(st, x)
        BY <1>2, <1>9 DEF Objects
    <2>2. Renews(st2)' <=> Renews(st)
        BY <1>9 DEF Renews, S
    <2>3. \A i : Chosen(x, i)' = Chosen(x, i) /\ RowIn(x, i)' = RowIn(x, i)
        BY DEF Chosen, RowIn, Row, Drawn, PrgKey
    <2>4. Delta' = Delta
        BY <1>9 DEF Delta, S, One
    <2>5. \A e, s : KeysFor(e, s)' = KeysFor(e, s)
        BY DEF KeysFor, KeyFor, PrgKey
    <2> QED BY <1>9, <2>1, <2>2, <2>3, <2>4, <2>5 DEF DataOfS, S
<1> QED BY <1>1, <1>4, <1>5, <1>6, <1>7, <1>8, <1>9

LEMMA Stepped ==
    ASSUME NEW h, NEW st, AllHold(h, st), NEW p \in Party, NEW st2, Method(st, st2, p),
           NEW ms, Carries(st, p, ms), Fresh(h, st, st2, p, ms), Stays(h, st, st2),
           NEW r, r = me'[p], IsObject(r), r.todo = TodoAt(plans[r.cnt], p, st2[p]),
           IsSeq(r.out), Len(r.out) = r.cnt - Counted(st2[p] <= 7),
           NEW y, y = At(h, st2, p)', DataAt(r, y),
           p = "R" => DataOfR(y)', p = "S" => DataOfS(st2, y)', Outputs(h, st2)'
    PROVE  AllHold(h, st2)'
<1> DEFINE q == Peer(p)
<1>1. q \in Party /\ q # p /\ Peer(q) = p /\ \A x \in Party : x = p \/ x = q
    BY Peers
<1>2. /\ api \in Kinds /\ History(h) /\ Asked(h) /\ Objects(h, st) /\ Mailed(h, st)
    BY DEF AllHold, Kinds
<1>3. /\ plans' = plans /\ api' = api /\ me' = [x \in Party |-> me'[x]] /\ me'[q] = me[q]
      /\ st2[q] = st[q] /\ r.cnt = me[p].cnt
    BY DEF Method
<1>4. History(h)' /\ Asked(h)'
    BY <1>2, <1>3, SameHistory
<1> HIDE DEF q
<1>5. /\ IsObject(me[q])' /\ Staged(st2, q)' /\ DataAt(me[q], At(h, st2, q))'
      /\ q = "R" => DataOfR(At(h, st2, q))'
      /\ q = "S" => DataOfS(st2, At(h, st2, q))'
    BY <1>1, <1>2, <1>3, Others
<1>6. IsObject(r)' /\ DataAt(r, y)'
    BY <1>3 DEF IsObject, DataAt
<1>7. Staged(st2, p)'
    <2>1. PICK m : m = r.cnt
        OBVIOUS
    <2>2. PICK plan : plan = plans[m]
        OBVIOUS
    <2>3. PICK k : k = st[p]
        OBVIOUS
    <2>4. m \in 1..Len(plans) /\ k \in 1..8 /\ InPlan(plan, k) /\ st2[p] = Upon(plan, k)
        BY <1>3, <2>1, <2>2, <2>3 DEF Method
    <2>5. plan \in Plans /\ Len(plans) \in Nat
        BY <1>2, <2>2, <2>4, HistoryFacts
    <2>6. PICK l : l = Upon(plan, k)
        OBVIOUS
    <2>7. l \in Stages /\ (l < 9 => InPlan(plan, l))
        BY <1>2, <2>4, <2>5, <2>6, UponFacts
    <2>8. TodoAt(plan, p, l)' = TodoAt(plan, p, l) /\ (InPlan(plan, l)' <=> InPlan(plan, l))
        BY <1>3, SamePlan
    <2>9. TodoAt(plan, p, 9) = <<>>
        BY DEF TodoAt
    <2>10. /\ r.todo = TodoAt(plan, p, l) /\ st2[p] = l /\ Len(r.out) = m - Counted(l <= 7)
           /\ plans'[m] = plan
        BY <1>3, <2>1, <2>2, <2>4, <2>6
    <2> QED BY <1>3, <2>1, <2>4, <2>5, <2>7, <2>8, <2>9, <2>10 DEF Staged, Counted, IsSeq, Stages
<1>8. Objects(h, st2)'
    <2>1. \A x \in Party : (IsObject(me[x]) /\ Staged(st2, x) /\ DataAt(me[x], At(h, st2, x)))'
        BY <1>1, <1>5, <1>6, <1>7
    <2>2. DataOfR(At(h, st2, "R"))' /\ DataOfS(st2, At(h, st2, "S"))'
        BY <1>1, <1>5 DEF Party
    <2> QED BY <1>3, <2>1, <2>2 DEF Objects
<1>9. \A x \in Party : At(h, st, x) \in Places
    <2>1. \A x \in Party : Staged(st, x)
        BY <1>2 DEF Objects
    <2>2. ASSUME NEW x \in Party PROVE me[x].cnt \in 0..Len(plans) /\ (st[x] # 9 => me[x].cnt > 0)
        BY <2>1 DEF Staged
    <2> QED BY <1>2, <2>2, AtType
<1>10. Mailed(h, st2)'
    BY <1>2, <1>9, Mails
<1>11. api' \in {"rot", "ot", "not"}
    BY <1>2, <1>3 DEF Kinds
<1> QED BY <1>4, <1>8, <1>10, <1>11 DEF AllHold

LEMMA OutputsKept ==
    ASSUME NEW h, NEW st, Outputs(h, st), NEW st2, plans' = plans, api' = api,
           me'["R"].out = me["R"].out, me'["R"].cnt = me["R"].cnt, st2["R"] = 8 <=> st["R"] = 8
    PROVE  Outputs(h, st2)'
<1>1. \A n : TextsOf(h, n)' = TextsOf(h, n)
    BY DEF TextsOf, Chosen
<1> QED BY <1>1 DEF Outputs, R

(*------------------------- messages that are taken ----------------------*)
\* The method of the peer that returns what p takes in the method k
PartnerOf(p, k) == IF p = "R" /\ k = 4 THEN 3 ELSE k

LEMMA Partner ==
    ASSUME api \in Kinds, NEW h, History(h), NEW p \in Party, NEW n \in 1..Len(plans), NEW k \in 1..8,
           Receives(plans[n], p, k)
    PROVE  /\ PartnerOf(p, k) \in 1..8 /\ Sends(plans[n], Peer(p), PartnerOf(p, k))
           /\ Number(h, Peer(p), n, PartnerOf(p, k)) = Got(PlaceAt(h[n], n, plans[n], p, k), p) + 1
<1> DEFINE a == h[n]
           plan == plans[n]
           l == PartnerOf(p, k)
           q == Peer(p)
<1>1. a \in Places
    BY HistoryFacts
<1>2. a.s \in Nat /\ a.r \in Nat
    BY <1>1 DEF Places
<1>3. l \in 1..8 /\ Sends(plan, q, l)
    BY DEF Party, PartnerOf, Peer, Sends, Receives, InPlan
<1>4. Sent(PlaceAt(a, n, plan, q, l), q) = SentBy(a, plan, q, l)
    BY PlaceFields, Peers DEF Sent, SentBy, Party
<1>5. Got(PlaceAt(a, n, plan, p, k), p) = (IF p = "S" THEN ByR(a, plan, k) ELSE ByS(a, plan, "R", k))
    BY PlaceFields DEF Got, Party
<1> HIDE DEF a, plan
<1>6. SentBy(a, plan, q, l) = (IF p = "S" THEN ByR(a, plan, k) ELSE ByS(a, plan, "R", k))
    <2>1. CASE p = "S"
        BY <2>1 DEF SentBy, Peer, PartnerOf
    <2>2. CASE p = "R"
        <3>1. k \in {1, 4, 7, 8}
            BY <2>2 DEF Receives
        <3> QED BY <1>2, <2>2, <3>1 DEF SentBy, Peer, PartnerOf, ByS, Counted
    <2> QED BY <2>1, <2>2 DEF Party
<1> QED BY <1>3, <1>4, <1>5, <1>6 DEF Number, a, plan

LEMMA PlacesOf ==
    ASSUME NEW h, NEW st, History(h), Objects(h, st)
    PROVE  \A p \in Party : At(h, st, p) \in Places /\ me[p].cnt \in 0..Len(plans)
                            /\ Sent(At(h, st, p), p) \in Nat /\ Got(At(h, st, p), p) \in Nat
<1>1. \A x \in Party : Staged(st, x)
    BY DEF Objects
<1>2. ASSUME NEW x \in Party PROVE me[x].cnt \in 0..Len(plans) /\ (st[x] # 9 => me[x].cnt > 0)
    BY <1>1 DEF Staged
<1>3. \A x \in Party : At(h, st, x) \in Places
    BY <1>2, AtType
<1> QED BY <1>2, <1>3 DEF Places, Sent, Got

\* What p takes is right.
LEMMA Heads ==
    ASSUME NEW h, NEW st, AllHold(h, st), NEW p \in Party, st[p] \in 1..8, mail[p] # <<>>,
           NEW n, n = me[p].cnt, n \in 1..Len(plans), Receives(plans[n], p, st[p])
    PROVE  LET l == PartnerOf(p, st[p])
           IN  /\ Good(h, st, Peer(p), n, l, Head(mail[p]))
               /\ Number(h, Peer(p), n, l) <= Sent(At(h, st, Peer(p)), Peer(p))
<1> DEFINE l == PartnerOf(p, st[p])
           q == Peer(p)
<1>1. q \in Party /\ Peer(q) = p
    BY Peers
<1>2. History(h) /\ Objects(h, st) /\ Mailed(h, st) /\ api \in Kinds
    BY DEF AllHold, Kinds
<1>3. At(h, st, p) = PlaceAt(h[n], n, plans[n], p, st[p])
    BY DEF At
<1> HIDE DEF q, l
<1>4. l \in 1..8 /\ Sends(plans[n], q, l) /\ Number(h, q, n, l) = Got(At(h, st, p), p) + 1
    <2>1. PICK k : k = st[p]
        OBVIOUS
    <2>2. k \in 1..8 /\ Receives(plans[n], p, k)
        BY <2>1
    <2>3. /\ PartnerOf(p, k) \in 1..8 /\ Sends(plans[n], Peer(p), PartnerOf(p, k))
          /\ Number(h, Peer(p), n, PartnerOf(p, k)) = Got(PlaceAt(h[n], n, plans[n], p, k), p) + 1
        BY <1>2, <2>2, Partner
    <2> QED BY <1>3, <2>1, <2>3 DEF q, l
<1>5. IsSeq(mail[p]) /\ Len(mail[p]) = Sent(At(h, st, q), q) - Got(At(h, st, p), p)
    BY <1>1, <1>2 DEF Mailed
<1>6. Len(mail[p]) \in Nat \ {0} /\ Head(mail[p]) = mail[p][1]
    BY <1>5, TailFacts
<1>7. PICK x : x = Number(h, q, n, l)
    OBVIOUS
<1>8. PICK got : got = Got(At(h, st, p), p)
    OBVIOUS
<1>9. PICK sent : sent = Sent(At(h, st, q), q)
    OBVIOUS
<1>10. got \in Nat /\ sent \in Nat
    BY <1>1, <1>2, <1>8, <1>9, PlacesOf
<1>11. x = got + 1 /\ Len(mail[p]) = sent - got
    BY <1>4, <1>5, <1>7, <1>8, <1>9
<1>12. x > got /\ x <= sent /\ x - got = 1
    BY <1>6, <1>10, <1>11
<1>13. Good(h, st, q, n, l, Waiting(h, st, q, x))
    BY <1>1, <1>2, <1>4, <1>7, <1>8, <1>9, <1>12 DEF Mailed
<1>14. Waiting(h, st, q, x) = mail[p][1]
    BY <1>1, <1>8, <1>12 DEF Waiting
<1> QED BY <1>6, <1>7, <1>9, <1>12, <1>13, <1>14 DEF q, l

LEMMA Taken ==
    ASSUME api \in Kinds, NEW h, History(h), NEW p \in Party, NEW st, NEW st2, Method(st, st2, p),
           NEW n, n = me[p].cnt, Receives(plans[n], p, st[p])
    PROVE  Number(h, Peer(p), n, PartnerOf(p, st[p])) = Got(At(h, st2, p)', p)
<1>1. PICK x : x = At(h, st, p)
    OBVIOUS
<1>2. PICK y : y = At(h, st2, p)'
    OBVIOUS
<1>3. n \in 1..Len(plans) /\ st[p] \in 1..8
    BY DEF Method
<1>4. x = PlaceAt(h[n], n, plans[n], p, st[p])
    BY <1>1, <1>3 DEF At
<1>5. Number(h, Peer(p), n, PartnerOf(p, st[p])) = Got(x, p) + 1
    BY <1>3, <1>4, Partner
<1>6. Moved(x, y, n, plans[n], p, st[p])
    BY <1>1, <1>2, Moves
<1>7. Got(y, p) = Got(x, p) + 1
    BY <1>6 DEF Moved, Counted
<1>8. Got(At(h, st2, p)', p) = Got(y, p)
    BY <1>2 DEF Got
<1> QED BY <1>5, <1>7, <1>8

LEMMA Steady ==
    ASSUME NEW h, NEW st, AllHold(h, st), NEW p \in Party, NEW st2, Method(st, st2, p),
           st[p] = 4 => mail[p] # <<>>
    PROVE  Stays(h, st, st2)
<1>1. History(h) /\ Objects(h, st) /\ Mailed(h, st) /\ api \in Kinds
    BY DEF AllHold, Kinds
<1>2. plans' = plans /\ api' = api /\ me'[Peer(p)] = me[Peer(p)] /\ st2[Peer(p)] = st[Peer(p)]
      /\ At(h, st2, Peer(p))' = At(h, st, Peer(p))
    BY <1>1, AtMoved DEF Method
<1>3. me[p].cnt \in 1..Len(plans) /\ InPlan(plans[me[p].cnt], st[p])
    BY DEF Method
<1>4. \A n, k, m : /\ k \notin {3, 4} => (Good(h, st, "S", n, k, m) => Good(h, st, "S", n, k, m)')
                   /\ k \notin {3, 4} => (Good(h, st, "R", n, k, m) => Good(h, st, "R", n, k, m)')
    <2>1. \A n, i : TextsOf(h, n)' = TextsOf(h, n) /\ PadFor(h, n, i)' = PadFor(h, n, i)
                    /\ Chosen(h[n + 1], i)' = Chosen(h[n + 1], i)
        BY <1>2 DEF TextsOf, Chosen, PadFor, RowIn, Row, Drawn, PrgKey
    <2>2. \A n, m : GoodPads(h, n, m)' <=> GoodPads(h, n, m)
        BY <1>2, <2>1 DEF GoodPads
    <2>3. \A n, m : GoodItems(n, m)' <=> GoodItems(n, m)
        BY <1>2 DEF GoodItems, ItemFor, BitOf
    <2>4. \A n, m : GoodU(h, n, m)' <=> GoodU(h, n, m)
        BY <1>2 DEF GoodU, URow, Both, Row, Drawn, PrgKey, One
    <2> QED BY <2>2, <2>3, <2>4 DEF Good
<1>5. \A n, k, m : k \notin {3, 4} =>
        /\ Good(h, st2, "S", n, k, m)' <=> Good(h, st, "S", n, k, m)'
        /\ Good(h, st2, "R", n, k, m)' <=> Good(h, st, "R", n, k, m)'
    BY DEF Good
<1>6. ASSUME NEW n \in 1..Len(plans), NEW m, Sends(plans[n], "R", 3), GoodA(st, n, m),
             Number(h, "R", n, 3) > Got(At(h, st, "S"), "S"),
             Number(h, "R", n, 3) > Got(At(h, st2, "S")', "S")
      PROVE  GoodA(st2, n, m)'
    <2>1. CASE p = "S"
        BY <1>2, <1>6, <2>1 DEF GoodA, R, Peer
    <2>2. CASE p = "R"
        <3>1. n = me["R"].cnt /\ st["R"] = 4 /\ mail["R"] # <<>> /\ Receives(plans[n], "R", 4)
            BY <1>3, <1>6, <2>2 DEF GoodA, R, Receives
        <3>2. PartnerOf("R", 4) = 3 /\ Peer("R") = "S" /\ Peer("S") = "R" /\ "R" \in Party /\ "S" \in Party
            BY DEF PartnerOf, Peer, Party
        <3>3. Good(h, st, "S", n, 3, Head(mail["R"]))
            BY <3>1, <3>2, Heads
        <3>4. S.cnt = n /\ st["S"] = 4
            BY <3>3 DEF Good, GoodB, BothAt
        <3>5. PICK x : x = PlaceAt(h[n], n, plans[n], "S", 3)
            OBVIOUS
        <3>6. PICK y : y = PlaceAt(h[n], n, plans[n], "S", 4)
            OBVIOUS
        <3>7. At(h, st, "S") = y
            BY <3>4, <3>6 DEF At, S
        <3>8. InPlan(plans[n], 3) /\ Upon(plans[n], 3) = 4 /\ h[n] \in Places /\ plans[n] \in Plans /\ n \in Nat
              /\ Receives(plans[n], "S", 3) /\ PartnerOf("S", 3) = 3
            BY <1>1, <1>6, HistoryFacts DEF InPlan, Upon, Sends, Receives, PartnerOf
        <3>9. Number(h, "R", n, 3) = Got(x, "S") + 1
            BY <1>1, <3>2, <3>5, <3>8, Partner
        <3>10. Got(y, "S") = Got(x, "S") + 1
            <4>1. Moved(x, y, n, plans[n], "S", 3)
                BY <1>1, <3>2, <3>5, <3>6, <3>8, PlaceMoves
            <4> QED BY <3>8, <4>1 DEF Moved, Counted
        <3>11. Got(y, "S") \in Nat
            BY <1>1, <3>2, <3>7, PlacesOf
        <3> QED BY <1>6, <3>7, <3>9, <3>10, <3>11
    <2> QED BY <2>1, <2>2 DEF Party
<1>7. ASSUME NEW n \in 1..Len(plans), NEW m, Sends(plans[n], "S", 3), GoodB(st, n, m),
             Number(h, "S", n, 3) > Got(At(h, st2, "R")', "R")
      PROVE  GoodB(st2, n, m)'
    <2>1. n = me["R"].cnt /\ st["R"] = 4 /\ n = me["S"].cnt /\ st["S"] = 4
        BY <1>7 DEF GoodB, BothAt, R, S
    <2>2. CASE p = "R"
        <3>1. Receives(plans[n], "R", st["R"]) /\ PartnerOf("R", st["R"]) = 3 /\ Peer("R") = "S"
            BY <1>3, <2>1, <2>2 DEF Receives, PartnerOf, Peer
        <3>2. n = me["R"].cnt
            BY <2>1
        <3>3. Number(h, Peer("R"), n, PartnerOf("R", st["R"])) = Got(At(h, st2, "R")', "R")
            BY <1>1, <2>2, <3>1, <3>2, Taken
        <3>4. Number(h, "S", n, 3) = Got(At(h, st2, "R")', "R")
            BY <3>1, <3>3
        <3>5. Number(h, "S", n, 3) \in Nat
            BY <1>1, <1>7, NumberWithin DEF Party
        <3> QED BY <1>7, <3>4, <3>5
    <2>3. CASE p = "S"
        <3>1. Receives(plans[n], "S", 4) /\ PartnerOf("S", 4) = 4 /\ Peer("S") = "R" /\ mail["S"] # <<>>
            BY <1>3, <2>1, <2>3 DEF Receives, PartnerOf, Peer
        <3>2. Number(h, "R", n, 4) <= Sent(At(h, st, "R"), "R")
            BY <2>1, <2>3, <3>1, Heads
        <3>3. Number(h, "R", n, 4) = Sent(At(h, st, "R"), "R") + 1
            BY <2>1 DEF Number, At
        <3>4. Sent(At(h, st, "R"), "R") \in Nat
            BY <1>1, PlacesOf DEF Party
        <3> QED BY <3>2, <3>3, <3>4
    <2> QED BY <2>2, <2>3 DEF Party
<1>8. ASSUME NEW n \in 1..Len(plans), NEW m, Sends(plans[n], "R", 4), GoodE(h, st, n, m),
             Number(h, "R", n, 4) > Got(At(h, st2, "S")', "S")
      PROVE  GoodE(h, st2, n, m)'
    <2>1. n = me["S"].cnt /\ st["S"] = 4
        BY <1>8 DEF GoodE, S
    <2>2. CASE p = "R"
        BY <1>2, <1>8, <2>2 DEF GoodE, S, Peer, SealedFor, KeyFor, PrgKey, Mul
    <2>3. CASE p = "S"
        <3>1. Receives(plans[n], "S", 4) /\ PartnerOf("S", 4) = 4 /\ Peer("S") = "R"
            BY <1>3, <2>1, <2>3 DEF Receives, PartnerOf, Peer
        <3>2. Number(h, "R", n, 4) = Got(At(h, st2, "S")', "S")
            BY <1>1, <2>1, <2>3, <3>1, Taken
        <3>3. Number(h, "R", n, 4) \in Nat
            BY <1>1, <1>8, NumberWithin DEF Party
        <3> QED BY <1>8, <3>2, <3>3
    <2> QED BY <2>2, <2>3 DEF Party
<1>9. \A n, m : /\ Good(h, st, "R", n, 3, m) => GoodA(st, n, m)
                /\ Good(h, st, "S", n, 3, m) => GoodB(st, n, m)
                /\ Good(h, st, "R", n, 4, m) => GoodE(h, st, n, m)
                /\ GoodA(st2, n, m)' => Good(h, st2, "R", n, 3, m)'
                /\ GoodB(st2, n, m)' => Good(h, st2, "S", n, 3, m)'
                /\ GoodE(h, st2, n, m)' => Good(h, st2, "R", n, 4, m)'
    BY DEF Good
<1>10. ASSUME NEW q \in Party, NEW n \in 1..Len(plans), NEW k \in 1..8, NEW m,
              Sends(plans[n], q, k), Good(h, st, q, n, k, m),
              Number(h, q, n, k) > Got(At(h, st, Peer(q)), Peer(q)),
              Number(h, q, n, k) > Got(At(h, st2, Peer(q))', Peer(q))
       PROVE  Good(h, st2, q, n, k, m)'
    <2>1. CASE q = "S" /\ k = 3
        BY <1>7, <1>9, <1>10, <2>1 DEF Peer
    <2>2. CASE q = "R" /\ k = 3
        BY <1>6, <1>9, <1>10, <2>2 DEF Peer
    <2>3. CASE q = "R" /\ k = 4
        BY <1>8, <1>9, <1>10, <2>3 DEF Peer
    <2>4. CASE k \notin {3, 4}
        BY <1>4, <1>5, <1>10, <2>4 DEF Party
    <2>5. ~(q = "S" /\ k = 4)
        BY <1>10 DEF Sends
    <2> QED BY <2>1, <2>2, <2>3, <2>4, <2>5 DEF Party
<1> QED BY <1>10 DEF Stays

(*------------------------------ the methods -----------------------------*)
LEMMA WhichStage ==
    ASSUME api \in Kinds, NEW p \in Party, NEW k \in 1..8, NEW m, m = Name(p, k)
    PROVE  /\ m = "setS" => k = 1
           /\ m = "setup" => k = 2
           /\ m \in {"baseA", "baseB"} => k = 3
           /\ m \in {"baseE", "baseData"} => k = 4
           /\ m = "choose" => k = 5
           /\ m = "pre" => k = 6
           /\ m = "rot" => k = 7 /\ api = "rot"
           /\ m = "ot" => k = 7 /\ api # "rot"
           /\ m = "not" => k = 8
<1>1. k \in {1, 2, 3, 4, 5, 6, 7, 8}
    OBVIOUS
<1>2. api \in {"rot", "ot", "not"} /\ p \in {"S", "R"}
    BY DEF Kinds, Party
<1> QED BY <1>1, <1>2 DEF Name

\* p has returned ms from the method m and left the object rec.
LEMMA ReturnsOne ==
    ASSUME NEW h, NEW st, AllHold(h, st), NEW p \in Party, NEW m, NEW rec, NEW ms,
           Returns(p, m, rec, ms), ~Receives(plans[me[p].cnt], p, st[p]),
           IsSeq(ms) /\ Len(ms) = Counted(Sends(plans[me[p].cnt], p, st[p]))
    PROVE  Carries(st, p, ms)
<1>1. mail = [q \in Party |-> mail[q]] /\ Peer(p) \in Party /\ Peer(p) # p
    BY Peers DEF AllHold, Mailed
<1>2. mail' = [mail EXCEPT ![Peer(p)] = @ \o ms]
    BY DEF Returns
<1>3. mail' = [q \in Party |-> mail'[q]] /\ mail'[p] = mail[p] /\ mail'[Peer(p)] = mail[Peer(p)] \o ms
    BY <1>1, <1>2
<1> QED BY <1>3 DEF Carries

LEMMA TakesOne ==
    ASSUME NEW h, NEW st, AllHold(h, st), NEW p \in Party, NEW m, NEW rec, NEW ms,
           Takes(p, m, rec, ms), Receives(plans[me[p].cnt], p, st[p]),
           IsSeq(ms) /\ Len(ms) = Counted(Sends(plans[me[p].cnt], p, st[p]))
    PROVE  Carries(st, p, ms)
<1>1. mail = [q \in Party |-> mail[q]] /\ Peer(p) \in Party /\ Peer(p) # p
    BY Peers DEF AllHold, Mailed
<1>2. mail' = [mail EXCEPT ![p] = Tail(mail[p]), ![Peer(p)] = @ \o ms] /\ mail[p] # <<>>
    BY DEF Takes
<1>3. mail' = [q \in Party |-> mail'[q]] /\ mail'[p] = Tail(mail[p]) /\ mail'[Peer(p)] = mail[Peer(p)] \o ms
    BY <1>1, <1>2
<1> QED BY <1>2, <1>3 DEF Carries

\* The rows of p and what they were made with stay as they are.
LEMMA SameRowsOfR ==
    ASSUME NEW x, NEW y, DataOfR(x), plans' = plans, y.pre = x.pre, y.of = x.of, y.first = x.first,
           NEW r, r = me'["R"], r.r = R.r, r.rows = R.rows, r.len = R.len
    PROVE  DataOfR(y)'
<1>1. R' = r
    BY DEF R
<1>2. \A i : RowIn(y, i)' = RowIn(x, i)
    BY DEF RowIn, Row, Drawn, PrgKey
<1> QED BY <1>1, <1>2 DEF DataOfR

LEMMA SameRowsOfS ==
    ASSUME NEW x, NEW y, NEW st, DataOfS(st, x), plans' = plans, y.pre = x.pre, y.of = x.of,
           y.first = x.first, y.epoch = x.epoch,
           NEW r, r = me'["S"], r.s = S.s, r.rows = S.rows, r.len = S.len, r.k = S.k, r.bb = S.bb,
           r.cnt = S.cnt,
           NEW st2, st["S"] \in 3..4 <=> st2["S"] \in 3..4, st2["S"] = 4 => st["S"] = 4,
           st["S"] \in 3..6 /\ "setup" \in plans[S.cnt].new =>
               st2["S"] \in 3..6 /\ "setup" \in plans[S.cnt].new
    PROVE  DataOfS(st2, y)'
<1>1. S' = r
    BY DEF S
<1>2. \A i : RowIn(y, i)' = RowIn(x, i) /\ Chosen(y, i)' = Chosen(x, i)
    BY DEF RowIn, Row, Drawn, PrgKey, Chosen
<1>3. Delta' = Delta
    BY <1>1 DEF Delta, One
<1>4. \A e, s : KeysFor(e, s)' = KeysFor(e, s)
    BY DEF KeysFor, KeyFor, PrgKey
<1>5. Renews(st) => Renews(st2)'
    BY <1>1 DEF Renews
<1>6. /\ S.s \subseteq Cols
      /\ x.epoch > 0 /\ st["S"] \notin 3..4 => S.k = KeysFor(x.epoch, S.s)
      /\ x.pre > 0 /\ ~Renews(st) => \A i \in 0..(S.len - 1) :
             S.rows[i] = IF Chosen(x, i) THEN SymDiff(RowIn(x, i), Delta) ELSE RowIn(x, i)
      /\ st["S"] = 4 => S.bb \in [Cols -> ScalarsB]
    BY DEF DataOfS
<1> QED BY <1>1, <1>2, <1>3, <1>4, <1>5, <1>6 DEF DataOfS

\* p has done the method m, which leaves rec; it is then at y, with the object r.
Performs(h, st, st2, p, m, rec, r, y) ==
    LET o == me[p]
        n == o.cnt
        k == st[p]
    IN  /\ Method(st, st2, p) /\ m = Name(p, k) /\ n \in 1..Len(plans) /\ plans[n] \in Plans /\ n \in Nat
        /\ k \in 1..8 /\ InPlan(plans[n], k) /\ st2[p] = Upon(plans[n], k)
        /\ st2[p] \in Stages /\ (st2[p] <= 7 <=> k < 7)
        /\ At(h, st, p) = PlaceAt(h[n], n, plans[n], p, k)
        /\ h[n] \in Places /\ At(h, st, p) \in Places
        /\ y = At(h, st2, p)' /\ Moved(At(h, st, p), y, n, plans[n], p, k)
        /\ DataAt(o, At(h, st, p)) /\ IsSeq(o.out) /\ Len(o.out) = n - Counted(k <= 7)
        /\ r = me'[p] /\ r.todo = TodoAt(plans[n], p, st2[p]) /\ IsObject(r)
        /\ \A f \in Fields : f # "todo" => r[f] = rec[f]

LEMMA Performed ==
    ASSUME NEW h, NEW st, AllHold(h, st), NEW p \in Party, NEW m, m # "error", Doing(p, m),
           NEW rec, IsObject(rec), rec.todo = me[p].todo, rec.cnt = me[p].cnt,
           me' = [me EXCEPT ![p] = [rec EXCEPT !.todo = Tail(@)]], plans' = plans, api' = api
    PROVE  \E st2, r, y : Performs(h, st, st2, p, m, rec, r, y)
<1>1. PICK st2 : st2 = [q \in Party |-> IF q = p THEN Upon(plans[me[p].cnt], st[p]) ELSE st[q]]
    OBVIOUS
<1>2. PICK r : r = me'[p]
    OBVIOUS
<1>3. PICK y : y = At(h, st2, p)'
    OBVIOUS
<1>4. PICK x : x = At(h, st, p)
    OBVIOUS
<1>5. /\ Method(st, st2, p) /\ m = Name(p, st[p]) /\ IsObject(r)
      /\ r.todo = TodoAt(plans[r.cnt], p, st2[p])
      /\ \A f \in Fields : f # "todo" => r[f] = rec[f]
    <2>1. api \in Kinds /\ plans \in Seq(Plans) /\ me = [q \in Party |-> me[q]] /\ Staged(st, p)
        BY DEF AllHold, Objects, History, Kinds
    <2>2. /\ st[p] \in 1..8 /\ m = Name(p, st[p]) /\ me[p].cnt \in 1..Len(plans)
          /\ InPlan(plans[me[p].cnt], st[p])
          /\ Tail(me[p].todo) = TodoAt(plans[me[p].cnt], p, Upon(plans[me[p].cnt], st[p]))
        BY <2>1, StageOf
    <2>3. r = [rec EXCEPT !.todo = Tail(rec.todo)] /\ me'[Peer(p)] = me[Peer(p)]
          /\ me' = [q \in Party |-> me'[q]]
        BY <1>2, <2>1, Peers
    <2>4. IsObject(r) /\ r["todo"] = Tail(rec.todo) /\ \A f \in Fields : f # "todo" => r[f] = rec[f]
        <3>1. "todo" \in Fields /\ rec = [g \in Fields |-> rec[g]]
            BY DEF Fields, IsObject
        <3>2. PICK v : v = Tail(rec.todo)
            OBVIOUS
        <3>3. r = [rec EXCEPT !["todo"] = v]
            BY <2>3, <3>2
        <3>4. r = [g \in Fields |-> r[g]] /\ r["todo"] = v /\ \A f \in Fields : f # "todo" => r[f] = rec[f]
            BY <3>1, <3>3
        <3> QED BY <3>2, <3>4, ObjectByDomain
    <2>5. r.cnt = me[p].cnt /\ "cnt" \in Fields
        BY <2>4 DEF Fields
    <2>6. st2[p] = Upon(plans[me[p].cnt], st[p]) /\ st2[Peer(p)] = st[Peer(p)]
        BY <1>1, Peers
    <2> QED BY <1>2, <2>2, <2>3, <2>4, <2>5, <2>6 DEF Method
<1>6. api \in Kinds /\ History(h) /\ Staged(st, p) /\ DataAt(me[p], x) /\ Objects(h, st)
    BY <1>4 DEF AllHold, Kinds, Objects
<1>7. PICK n : n = me[p].cnt
    OBVIOUS
<1>8. PICK k : k = st[p]
    OBVIOUS
<1>9. n \in 1..Len(plans) /\ k \in 1..8 /\ InPlan(plans[n], k) /\ st2[p] = Upon(plans[n], k)
    BY <1>5, <1>7, <1>8 DEF Method
<1>10. plans[n] \in Plans /\ h[n] \in Places /\ n \in Nat
    BY <1>6, <1>9, HistoryFacts
<1>11. st2[p] \in Stages /\ (st2[p] <= 7 <=> k < 7)
    BY <1>6, <1>9, <1>10, UponFacts
<1>12. Moved(x, y, n, plans[n], p, k)
    BY <1>3, <1>4, <1>5, <1>6, <1>7, <1>8, Moves
<1>13. x \in Places
    BY <1>4, <1>6, PlacesOf
<1>14. IsSeq(me[p].out) /\ Len(me[p].out) = n - Counted(k <= 7)
    BY <1>6, <1>7, <1>8 DEF Staged
<1>15. x = PlaceAt(h[n], n, plans[n], p, k)
    BY <1>4, <1>7, <1>8, <1>9 DEF At
<1>16. r.cnt = n
    BY <1>5, <1>7 DEF Fields
<1>17. Performs(h, st, st2, p, m, rec, r, y)
    BY <1>2, <1>3, <1>4, <1>5, <1>6, <1>7, <1>8, <1>9, <1>10, <1>11, <1>12, <1>13, <1>14, <1>15, <1>16
       DEF Performs
<1> QED BY <1>17

\* The fields that DataAt is about change with the place.
FieldsMoved(r, o, n, plan, p, k) ==
    LET renews == k = (IF p = "S" THEN 4 ELSE 2)
    IN  /\ r.start = (IF k = 1 THEN n ELSE o.start)
        /\ r.gid = (IF k = 7 THEN o.gid + Batched(plan.use) ELSE o.gid)
        /\ r.epoch = (IF renews THEN o.epoch + 1 ELSE o.epoch)
        /\ r.pos = (IF renews THEN 0 ELSE IF k = 6 THEN o.pos + Rounded(plan.len) ELSE o.pos)
        /\ r.isSet = (IF k = 6 THEN TRUE ELSE o.isSet)
        /\ r.len = (IF k = 6 THEN plan.len ELSE o.len)
        /\ DOMAIN r.rows = 0..(r.len - 1)
        /\ r.isSetup = (IF k = 5 THEN TRUE ELSE o.isSetup)
        /\ r.item = (IF k = 5 THEN plan.item ELSE o.item)

LEMMA DataMoves ==
    ASSUME api \in Kinds, NEW o, NEW x, DataAt(o, x), NEW y, NEW p, NEW n \in Nat, n > 0,
           NEW k, Moved(x, y, n, plans[n], p, k), x \in Places, k = 5 => api = "not",
           NEW r, FieldsMoved(r, o, n, plans[n], p, k)
    PROVE  DataAt(r, y)
<1> USE DEF DataAt, Moved, FieldsMoved
<1>1. r.start = y.start /\ r.gid = y.gid /\ r.epoch = y.epoch /\ r.pos = y.pos
    OBVIOUS
<1>2. r.isSet \in BOOLEAN /\ (r.isSet <=> y.pre > 0)
    OBVIOUS
<1>3. r.isSetup \in BOOLEAN /\ (r.isSetup <=> api = "not" /\ y.chosen > 0)
    OBVIOUS
<1>4. r.isSetup => r.item = plans[y.chosen].item
    OBVIOUS
<1>5. r.len = (IF y.pre > 0 THEN plans[y.pre].len ELSE 0)
    BY DEF Places
<1> QED BY <1>1, <1>2, <1>3, <1>4, <1>5

LEMMA Done ==
    ASSUME NEW h, NEW st, AllHold(h, st), NEW p \in Party, NEW st2, NEW m, NEW rec, NEW r, NEW y,
           Performs(h, st, st2, p, m, rec, r, y), NEW ms, Carries(st, p, ms), Fresh(h, st, st2, p, ms),
           IsSeq(r.out), Len(r.out) = r.cnt - Counted(st2[p] <= 7), DataAt(r, y),
           p = "R" => DataOfR(y)', p = "S" => DataOfS(st2, y)', Outputs(h, st2)'
    PROVE  AllHold(h, st2)'
<1>1. Method(st, st2, p) /\ IsObject(r) /\ r = me'[p] /\ y = At(h, st2, p)'
      /\ InPlan(plans[me[p].cnt], st[p]) /\ r.todo = TodoAt(plans[me[p].cnt], p, st2[p])
    BY DEF Performs
<1>2. st[p] = 4 => mail[p] # <<>>
    <2>1. st[p] = 4 => Receives(plans[me[p].cnt], p, st[p])
        BY <1>1 DEF Receives, Party
    <2> QED BY <2>1 DEF Carries
<1>3. Stays(h, st, st2)
    BY <1>1, <1>2, Steady
<1>4. r.cnt = me[p].cnt
    BY <1>1 DEF Method
<1>5. r.todo = TodoAt(plans[r.cnt], p, st2[p])
    BY <1>1, <1>4
<1> QED BY <1>1, <1>3, <1>5, Stepped

LEMMA FreshOne ==
    ASSUME NEW h, NEW st, NEW st2, NEW p, NEW ms, NEW n, n = me[p].cnt, NEW k, k = st[p],
           NEW m, m = ms[1], Good(h, st2, p, n, k, m)'
    PROVE  Fresh(h, st, st2, p, ms)
BY DEF Fresh

LEMMA FreshNone ==
    ASSUME NEW h, NEW st, NEW st2, NEW p, NEW ms, ~Sends(plans[me[p].cnt], p, st[p])
    PROVE  Fresh(h, st, st2, p, ms)
BY DEF Fresh

LEMMA SSetSKeeps ==
    ASSUME NEW h, NEW st, AllHold(h, st), SSetS
    PROVE  \E st2 : AllHold(h, st2)'
<1>1. PICK o : o = me["S"]
    OBVIOUS
<1>2. PICK rec : rec = [o EXCEPT !.start = o.cnt]
    OBVIOUS
<1>3. PICK ms : ms = <<o.cnt>>
    OBVIOUS
<1>4. Returns("S", "setS", rec, ms) /\ "S" \in Party
    BY <1>1, <1>2, <1>3 DEF SSetS, Party, S
<1>5. api \in Kinds /\ IsObject(o) /\ Outputs(h, st) /\ History(h) /\ Asked(h)
      /\ DataOfS(st, At(h, st, "S"))
    BY <1>1, <1>4 DEF AllHold, Kinds, Objects
<1>6. IsObject(rec) /\ rec.start = o.cnt
      /\ \A f \in Fields \ {"start"} : rec[f] = o[f]
    <2>1. o = [f \in Fields |-> o[f]] /\ "start" \in Fields
        BY <1>5 DEF IsObject, Fields
    <2>2. rec = [f \in Fields |-> rec[f]]
        BY <1>2, <2>1
    <2> QED BY <1>2, <2>1, <2>2, ObjectByDomain
<1>7. PICK st2, r, y : Performs(h, st, st2, "S", "setS", rec, r, y)
    <2>1. /\ plans' = plans /\ api' = api /\ Doing("S", "setS")
          /\ me' = [me EXCEPT !["S"] = [rec EXCEPT !.todo = Tail(@)]]
        BY <1>4 DEF Returns
    <2>2. rec.todo = me["S"].todo /\ rec.cnt = me["S"].cnt
        BY <1>1, <1>6 DEF Fields
    <2> QED BY <1>4, <1>6, <2>1, <2>2, Performed
<1>8. PICK k : k = st["S"]
    OBVIOUS
<1>9. PICK n : n = o.cnt
    OBVIOUS
<1>10. k = 1 /\ n \in 1..Len(plans) /\ st2["S"] = Upon(plans[n], 1) /\ InPlan(plans[n], 1)
       /\ plans[n] \in Plans
    BY <1>1, <1>4, <1>5, <1>7, <1>8, <1>9, WhichStage DEF Performs
<1>11. Sends(plans[n], "S", k) /\ ~Receives(plans[n], "S", k)
    BY <1>10 DEF Sends, Receives
<1>12. Carries(st, "S", ms)
    <2>1. IsSeq(ms) /\ Len(ms) = Counted(Sends(plans[n], "S", k))
        BY <1>3, <1>11, Single DEF Counted
    <2> QED BY <1>1, <1>4, <1>8, <1>9, <1>11, <2>1, ReturnsOne
<1>13. /\ r.start = o.cnt /\ r.gid = o.gid /\ r.epoch = o.epoch /\ r.pos = o.pos
       /\ r.isSet = o.isSet /\ r.len = o.len /\ r.rows = o.rows /\ r.isSetup = o.isSetup
       /\ r.item = o.item /\ r.out = o.out /\ r.s = o.s /\ r.bb = o.bb /\ r.k = o.k /\ r.a = o.a
       /\ r.r = o.r /\ r.A = o.A
       /\ r.cnt = n /\ r = me'["S"]
    BY <1>6, <1>7, <1>9 DEF Performs, Fields
<1>14. PICK x : x = At(h, st, "S")
    OBVIOUS
<1>15. /\ DataAt(o, x) /\ Moved(x, y, n, plans[n], "S", 1) /\ x \in Places /\ n \in Nat /\ n > 0
       /\ IsSeq(o.out) /\ Len(o.out) = n - Counted(1 <= 7) /\ (st2["S"] <= 7 <=> 1 < 7)
       /\ x = PlaceAt(h[n], n, plans[n], "S", 1) /\ h[n] \in Places
       /\ plans' = plans /\ api' = api
    BY <1>1, <1>4, <1>7, <1>8, <1>9, <1>10, <1>14 DEF Performs, Returns
<1>16. DataAt(r, y)
    <2>1. DOMAIN r.rows = 0..(r.len - 1)
        BY <1>13, <1>15 DEF DataAt
    <2>2. FieldsMoved(r, o, n, plans[n], "S", k)
        BY <1>10, <1>13, <2>1, <1>9 DEF FieldsMoved
    <2>3. Moved(x, y, n, plans[n], "S", k) /\ (k = 5 => api = "not")
        BY <1>10, <1>15 DEF InPlan
    <2> QED BY <1>5, <1>15, <2>2, <2>3, DataMoves
<1>17. DataOfS(st2, y)'
    <2>1. y.pre = x.pre /\ y.of = x.of /\ y.first = x.first /\ y.epoch = x.epoch
        BY <1>15 DEF Moved
    <2>2. /\ st["S"] \in 3..4 <=> st2["S"] \in 3..4
          /\ st2["S"] = 4 => st["S"] = 4
          /\ ~(st["S"] \in 3..6)
        BY <1>8, <1>10 DEF Upon
    <2>3. r.s = S.s /\ r.rows = S.rows /\ r.len = S.len /\ r.k = S.k /\ r.bb = S.bb /\ r.cnt = S.cnt
        BY <1>1, <1>9, <1>13 DEF S
    <2>4. plans' = plans /\ r = me'["S"] /\ DataOfS(st, x)
        BY <1>5, <1>13, <1>14, <1>15
    <2> QED BY <2>1, <2>2, <2>3, <2>4, SameRowsOfS
<1>18. Outputs(h, st2)'
    <2>1. Method(st, st2, "S") /\ Peer("S") = "R"
        BY <1>7 DEF Performs, Peer
    <2> QED BY <1>5, <2>1, OutputsKept DEF Method
<1>19. IsSeq(r.out) /\ Len(r.out) = r.cnt - Counted(st2["S"] <= 7)
    BY <1>13, <1>15 DEF Counted
<1>20. Fresh(h, st, st2, "S", ms)
    <2>1. PICK m : m = ms[1]
        OBVIOUS
    <2>2. m = n
        BY <1>3, <1>9, <2>1, Single
    <2>3. Good(h, st2, "S", n, k, m)'
        BY <1>10, <2>2 DEF Good
    <2> QED BY <1>1, <1>8, <1>9, <2>1, <2>3, FreshOne
<1> QED BY <1>4, <1>7, <1>12, <1>20, <1>16, <1>17, <1>18, <1>19, Done

LEMMA RSetSKeeps ==
    ASSUME NEW h, NEW st, AllHold(h, st), RSetS
    PROVE  \E st2 : AllHold(h, st2)'
<1>1. PICK o : o = me["R"]
    OBVIOUS
<1>2. PICK g : g = Head(mail["R"])
    OBVIOUS
<1>3. PICK rec : rec = [o EXCEPT !.start = g]
    OBVIOUS
<1>4. PICK ms : ms = <<>>
    OBVIOUS
<1>5. Takes("R", "setS", rec, ms) /\ "R" \in Party
    BY <1>1, <1>2, <1>3, <1>4 DEF RSetS, Party, R, Given
<1>6. api \in Kinds /\ IsObject(o) /\ Outputs(h, st) /\ History(h) /\ Asked(h)
      /\ DataOfR(At(h, st, "R"))
    BY <1>1, <1>5 DEF AllHold, Kinds, Objects
<1>7. IsObject(rec) /\ rec.start = g
      /\ \A f \in Fields \ {"start"} : rec[f] = o[f]
    <2>1. o = [f \in Fields |-> o[f]] /\ "start" \in Fields
        BY <1>6 DEF IsObject, Fields
    <2>2. rec = [f \in Fields |-> rec[f]]
        BY <1>3, <2>1
    <2> QED BY <1>3, <2>1, <2>2, ObjectByDomain
<1>8. PICK st2, r, y : Performs(h, st, st2, "R", "setS", rec, r, y)
    <2>1. /\ plans' = plans /\ api' = api /\ Doing("R", "setS")
          /\ me' = [me EXCEPT !["R"] = [rec EXCEPT !.todo = Tail(@)]]
        BY <1>5 DEF Takes
    <2>2. rec.todo = me["R"].todo /\ rec.cnt = me["R"].cnt
        BY <1>1, <1>7 DEF Fields
    <2> QED BY <1>5, <1>7, <2>1, <2>2, Performed
<1>9. PICK k : k = st["R"]
    OBVIOUS
<1>10. PICK n : n = o.cnt
    OBVIOUS
<1>11. k = 1 /\ n \in 1..Len(plans) /\ st2["R"] = Upon(plans[n], 1) /\ InPlan(plans[n], 1)
       /\ plans[n] \in Plans
    BY <1>1, <1>5, <1>6, <1>8, <1>9, <1>10, WhichStage DEF Performs
<1>12. ~Sends(plans[n], "R", k) /\ Receives(plans[n], "R", k)
    BY <1>11 DEF Sends, Receives
<1>13. Carries(st, "R", ms)
    <2>1. IsSeq(ms) /\ Len(ms) = Counted(Sends(plans[n], "R", k))
        BY <1>4, <1>12, Empty DEF Counted
    <2> QED BY <1>1, <1>5, <1>9, <1>10, <1>12, <2>1, TakesOne
<1>14. /\ r.start = g /\ r.gid = o.gid /\ r.epoch = o.epoch /\ r.pos = o.pos
       /\ r.isSet = o.isSet /\ r.len = o.len /\ r.rows = o.rows /\ r.isSetup = o.isSetup
       /\ r.item = o.item /\ r.out = o.out /\ r.s = o.s /\ r.bb = o.bb /\ r.k = o.k /\ r.a = o.a
       /\ r.r = o.r /\ r.A = o.A
       /\ r.cnt = n /\ r = me'["R"]
    BY <1>7, <1>8, <1>10 DEF Performs, Fields
<1>15. PICK x : x = At(h, st, "R")
    OBVIOUS
<1>16. /\ DataAt(o, x) /\ Moved(x, y, n, plans[n], "R", 1) /\ x \in Places /\ n \in Nat /\ n > 0
       /\ IsSeq(o.out) /\ Len(o.out) = n - Counted(1 <= 7) /\ (st2["R"] <= 7 <=> 1 < 7)
       /\ x = PlaceAt(h[n], n, plans[n], "R", 1) /\ h[n] \in Places
       /\ plans' = plans /\ api' = api
    BY <1>1, <1>5, <1>8, <1>9, <1>10, <1>11, <1>15 DEF Performs, Takes
<1>17. Good(h, st, "S", n, 1, g)
    <2>1. mail["R"] # <<>> /\ PartnerOf("R", k) = 1 /\ Peer("R") = "S" /\ k \in 1..8
        BY <1>5, <1>11 DEF Takes, PartnerOf, Peer
    <2> QED BY <1>1, <1>5, <1>9, <1>10, <1>11, <1>12, <1>2, <2>1, Heads
<1>18. g = n
    BY <1>17 DEF Good
<1>19. DataAt(r, y)
    <2>1. DOMAIN r.rows = 0..(r.len - 1)
        BY <1>14, <1>16 DEF DataAt
    <2>2. FieldsMoved(r, o, n, plans[n], "R", k)
        BY <1>11, <1>14, <2>1, <1>18 DEF FieldsMoved
    <2>3. Moved(x, y, n, plans[n], "R", k) /\ (k = 5 => api = "not")
        BY <1>11, <1>16 DEF InPlan
    <2> QED BY <1>6, <1>16, <2>2, <2>3, DataMoves
<1>20. DataOfR(y)'
    <2>1. y.pre = x.pre /\ y.of = x.of /\ y.first = x.first
        BY <1>16 DEF Moved
    <2>2. r.r = R.r /\ r.rows = R.rows /\ r.len = R.len
        BY <1>1, <1>14 DEF R
    <2> QED BY <1>6, <1>14, <1>15, <1>16, <2>1, <2>2, SameRowsOfR
<1>21. Outputs(h, st2)'
    <2>1. st2["R"] # 8 /\ st["R"] # 8
        BY <1>9, <1>11, <1>16
    <2> QED BY <1>1, <1>6, <1>10, <1>14, <1>16, <2>1, OutputsKept
<1>22. IsSeq(r.out) /\ Len(r.out) = r.cnt - Counted(st2["R"] <= 7)
    BY <1>14, <1>16 DEF Counted
<1>23. Fresh(h, st, st2, "R", ms)
    BY <1>1, <1>9, <1>10, <1>12, FreshNone
<1> QED BY <1>5, <1>8, <1>13, <1>23, <1>19, <1>20, <1>21, <1>22, Done

LEMMA RSetupKeeps ==
    ASSUME NEW h, NEW st, AllHold(h, st), RSetup
    PROVE  \E st2 : AllHold(h, st2)'
<1>1. PICK o : o = me["R"]
    OBVIOUS
<1>2. PICK rec : rec = [o EXCEPT !.epoch = o.epoch + 1, !.pos = 0]
    OBVIOUS
<1>3. PICK ms : ms = <<>>
    OBVIOUS
<1>4. Returns("R", "setup", rec, ms) /\ "R" \in Party
    BY <1>1, <1>2, <1>3 DEF RSetup, Party, R
<1>5. api \in Kinds /\ IsObject(o) /\ Outputs(h, st) /\ History(h) /\ Asked(h)
      /\ DataOfR(At(h, st, "R"))
    BY <1>1, <1>4 DEF AllHold, Kinds, Objects
<1>6. IsObject(rec) /\ rec.epoch = o.epoch + 1 /\ rec.pos = 0
      /\ \A f \in Fields \ {"epoch", "pos"} : rec[f] = o[f]
    <2>1. o = [f \in Fields |-> o[f]] /\ "epoch" \in Fields /\ "pos" \in Fields
        BY <1>5 DEF IsObject, Fields
    <2>2. rec = [f \in Fields |-> rec[f]]
        BY <1>2, <2>1
    <2> QED BY <1>2, <2>1, <2>2, ObjectByDomain
<1>7. PICK st2, r, y : Performs(h, st, st2, "R", "setup", rec, r, y)
    <2>1. /\ plans' = plans /\ api' = api /\ Doing("R", "setup")
          /\ me' = [me EXCEPT !["R"] = [rec EXCEPT !.todo = Tail(@)]]
        BY <1>4 DEF Returns
    <2>2. rec.todo = me["R"].todo /\ rec.cnt = me["R"].cnt
        BY <1>1, <1>6 DEF Fields
    <2> QED BY <1>4, <1>6, <2>1, <2>2, Performed
<1>8. PICK k : k = st["R"]
    OBVIOUS
<1>9. PICK n : n = o.cnt
    OBVIOUS
<1>10. k = 2 /\ n \in 1..Len(plans) /\ st2["R"] = Upon(plans[n], 2) /\ InPlan(plans[n], 2)
       /\ plans[n] \in Plans
    BY <1>1, <1>4, <1>5, <1>7, <1>8, <1>9, WhichStage DEF Performs
<1>11. ~Sends(plans[n], "R", k) /\ ~Receives(plans[n], "R", k)
    BY <1>10 DEF Sends, Receives
<1>12. Carries(st, "R", ms)
    <2>1. IsSeq(ms) /\ Len(ms) = Counted(Sends(plans[n], "R", k))
        BY <1>3, <1>11, Empty DEF Counted
    <2> QED BY <1>1, <1>4, <1>8, <1>9, <1>11, <2>1, ReturnsOne
<1>13. /\ r.start = o.start /\ r.gid = o.gid /\ r.epoch = o.epoch + 1 /\ r.pos = 0
       /\ r.isSet = o.isSet /\ r.len = o.len /\ r.rows = o.rows /\ r.isSetup = o.isSetup
       /\ r.item = o.item /\ r.out = o.out /\ r.s = o.s /\ r.bb = o.bb /\ r.k = o.k /\ r.a = o.a
       /\ r.r = o.r /\ r.A = o.A
       /\ r.cnt = n /\ r = me'["R"]
    BY <1>6, <1>7, <1>9 DEF Performs, Fields
<1>14. PICK x : x = At(h, st, "R")
    OBVIOUS
<1>15. /\ DataAt(o, x) /\ Moved(x, y, n, plans[n], "R", 2) /\ x \in Places /\ n \in Nat /\ n > 0
       /\ IsSeq(o.out) /\ Len(o.out) = n - Counted(2 <= 7) /\ (st2["R"] <= 7 <=> 2 < 7)
       /\ x = PlaceAt(h[n], n, plans[n], "R", 2) /\ h[n] \in Places
       /\ plans' = plans /\ api' = api
    BY <1>1, <1>4, <1>7, <1>8, <1>9, <1>10, <1>14 DEF Performs, Returns
<1>16. DataAt(r, y)
    <2>1. DOMAIN r.rows = 0..(r.len - 1)
        BY <1>13, <1>15 DEF DataAt
    <2>2. FieldsMoved(r, o, n, plans[n], "R", k)
        BY <1>10, <1>13, <2>1 DEF FieldsMoved
    <2>3. Moved(x, y, n, plans[n], "R", k) /\ (k = 5 => api = "not")
        BY <1>10, <1>15 DEF InPlan
    <2> QED BY <1>5, <1>15, <2>2, <2>3, DataMoves
<1>17. DataOfR(y)'
    <2>1. y.pre = x.pre /\ y.of = x.of /\ y.first = x.first
        BY <1>15 DEF Moved
    <2>2. r.r = R.r /\ r.rows = R.rows /\ r.len = R.len
        BY <1>1, <1>13 DEF R
    <2> QED BY <1>5, <1>13, <1>14, <1>15, <2>1, <2>2, SameRowsOfR
<1>18. Outputs(h, st2)'
    <2>1. st2["R"] # 8 /\ st["R"] # 8
        BY <1>8, <1>10, <1>15
    <2> QED BY <1>1, <1>5, <1>9, <1>13, <1>15, <2>1, OutputsKept
<1>19. IsSeq(r.out) /\ Len(r.out) = r.cnt - Counted(st2["R"] <= 7)
    BY <1>13, <1>15 DEF Counted
<1>20. Fresh(h, st, st2, "R", ms)
    BY <1>1, <1>8, <1>9, <1>11, FreshNone
<1> QED BY <1>4, <1>7, <1>12, <1>20, <1>16, <1>17, <1>18, <1>19, Done

LEMMA SSetupKeeps ==
    ASSUME NEW h, NEW st, AllHold(h, st), SSetup
    PROVE  \E st2 : AllHold(h, st2)'
<1>1. PICK o : o = me["S"]
    OBVIOUS
<1>2. PICK s \in SUBSET Cols : Returns("S", "setup", [S EXCEPT !.s = s], <<>>)
    BY DEF SSetup
<1>3. PICK rec : rec = [o EXCEPT !.s = s]
    OBVIOUS
<1>4. PICK ms : ms = <<>>
    OBVIOUS
<1>5. Returns("S", "setup", rec, ms) /\ "S" \in Party
    BY <1>1, <1>2, <1>3, <1>4 DEF SSetup, Party, S
<1>6. api \in Kinds /\ IsObject(o) /\ Outputs(h, st) /\ History(h) /\ Asked(h)
      /\ DataOfS(st, At(h, st, "S"))
    BY <1>1, <1>5 DEF AllHold, Kinds, Objects
<1>7. IsObject(rec) /\ rec.s = s
      /\ \A f \in Fields \ {"s"} : rec[f] = o[f]
    <2>1. o = [f \in Fields |-> o[f]] /\ "s" \in Fields
        BY <1>6 DEF IsObject, Fields
    <2>2. rec = [f \in Fields |-> rec[f]]
        BY <1>3, <2>1
    <2> QED BY <1>3, <2>1, <2>2, ObjectByDomain
<1>8. PICK st2, r, y : Performs(h, st, st2, "S", "setup", rec, r, y)
    <2>1. /\ plans' = plans /\ api' = api /\ Doing("S", "setup")
          /\ me' = [me EXCEPT !["S"] = [rec EXCEPT !.todo = Tail(@)]]
        BY <1>5 DEF Returns
    <2>2. rec.todo = me["S"].todo /\ rec.cnt = me["S"].cnt
        BY <1>1, <1>7 DEF Fields
    <2> QED BY <1>5, <1>7, <2>1, <2>2, Performed
<1>9. PICK k : k = st["S"]
    OBVIOUS
<1>10. PICK n : n = o.cnt
    OBVIOUS
<1>11. k = 2 /\ n \in 1..Len(plans) /\ st2["S"] = Upon(plans[n], 2) /\ InPlan(plans[n], 2)
       /\ plans[n] \in Plans
    BY <1>1, <1>5, <1>6, <1>8, <1>9, <1>10, WhichStage DEF Performs
<1>12. ~Sends(plans[n], "S", k) /\ ~Receives(plans[n], "S", k)
    BY <1>11 DEF Sends, Receives
<1>13. Carries(st, "S", ms)
    <2>1. IsSeq(ms) /\ Len(ms) = Counted(Sends(plans[n], "S", k))
        BY <1>4, <1>12, Empty DEF Counted
    <2> QED BY <1>1, <1>5, <1>9, <1>10, <1>12, <2>1, ReturnsOne
<1>14. /\ r.start = o.start /\ r.gid = o.gid /\ r.epoch = o.epoch /\ r.pos = o.pos
       /\ r.isSet = o.isSet /\ r.len = o.len /\ r.rows = o.rows /\ r.isSetup = o.isSetup
       /\ r.item = o.item /\ r.out = o.out /\ r.s = s /\ r.bb = o.bb /\ r.k = o.k /\ r.a = o.a
       /\ r.r = o.r /\ r.A = o.A
       /\ r.cnt = n /\ r = me'["S"]
    BY <1>7, <1>8, <1>10 DEF Performs, Fields
<1>15. PICK x : x = At(h, st, "S")
    OBVIOUS
<1>16. /\ DataAt(o, x) /\ Moved(x, y, n, plans[n], "S", 2) /\ x \in Places /\ n \in Nat /\ n > 0
       /\ IsSeq(o.out) /\ Len(o.out) = n - Counted(2 <= 7) /\ (st2["S"] <= 7 <=> 2 < 7)
       /\ x = PlaceAt(h[n], n, plans[n], "S", 2) /\ h[n] \in Places
       /\ plans' = plans /\ api' = api
    BY <1>1, <1>5, <1>8, <1>9, <1>10, <1>11, <1>15 DEF Performs, Returns
<1>17. DataAt(r, y)
    <2>1. DOMAIN r.rows = 0..(r.len - 1)
        BY <1>14, <1>16 DEF DataAt
    <2>2. FieldsMoved(r, o, n, plans[n], "S", k)
        BY <1>11, <1>14, <2>1 DEF FieldsMoved
    <2>3. Moved(x, y, n, plans[n], "S", k) /\ (k = 5 => api = "not")
        BY <1>11, <1>16 DEF InPlan
    <2> QED BY <1>6, <1>16, <2>2, <2>3, DataMoves
<1>18. DataOfS(st2, y)'
    <2>1. st2["S"] = 3 /\ "setup" \in plans[n].new
        BY <1>11 DEF Upon, InPlan
    <2>2. Renews(st2)' /\ S'.s = s
        BY <1>14, <1>16, <2>1 DEF Renews, S
    <2> QED BY <1>2, <2>1, <2>2 DEF DataOfS
<1>19. Outputs(h, st2)'
    <2>1. Method(st, st2, "S") /\ Peer("S") = "R"
        BY <1>8 DEF Performs, Peer
    <2> QED BY <1>6, <2>1, OutputsKept DEF Method
<1>20. IsSeq(r.out) /\ Len(r.out) = r.cnt - Counted(st2["S"] <= 7)
    BY <1>14, <1>16 DEF Counted
<1>21. Fresh(h, st, st2, "S", ms)
    BY <1>1, <1>9, <1>10, <1>12, FreshNone
<1> QED BY <1>5, <1>8, <1>13, <1>21, <1>17, <1>18, <1>19, <1>20, Done

(*-------------------------------- the group -----------------------------*)
Exponents == 0..(Order - 1)

LEMMA ModDiffers ==
    ASSUME NEW y \in Int
    PROVE  /\ y % Order \in Exponents
           /\ \E m \in Int : y % Order = y + Order * m
<1>1. Order \in Nat /\ Order > 0
    BY GroupAssumption
<1>2. y % Order \in Exponents
    BY <1>1 DEF Exponents
<1>3. y % Order = y + Order * (-(y \div Order)) /\ y \div Order \in Int
    BY <1>1
<1> QED BY <1>2, <1>3

\* Two exponents that differ by a multiple of the order are the same.
LEMMA ModUnique ==
    ASSUME NEW x \in Exponents, NEW y \in Exponents, NEW m \in Int, x = y + Order * m
    PROVE  x = y
<1>1. Order \in Nat /\ Order > 0
    BY GroupAssumption
<1>2. CASE m >= 1
    <2>1. Order * m >= Order
        BY <1>1, <1>2
    <2> QED BY <1>1, <2>1 DEF Exponents
<1>3. CASE m <= -1
    <2>1. Order * m <= -Order
        BY <1>1, <1>3
    <2> QED BY <1>1, <2>1 DEF Exponents
<1>4. CASE m = 0
    BY <1>1, <1>4 DEF Exponents
<1> QED BY <1>2, <1>3, <1>4

LEMMA Closed ==
    ASSUME NEW p \in Int, NEW x \in Int
    PROVE  /\ MulGen(x) \in Exponents /\ Mul(p, x) \in Exponents
           /\ Add(p, x) \in Exponents /\ Inv(p) \in Exponents
<1>1. Order \in Int
    BY GroupAssumption
<1>2. p * x \in Int /\ p + x \in Int /\ Order - p \in Int
    BY <1>1
<1> QED BY <1>2, ModDiffers DEF MulGen, Mul, Add, Inv

\* What the operations compute, up to a multiple of the order
LEMMA OperationsDiffer ==
    ASSUME NEW p \in Int, NEW x \in Int
    PROVE  /\ \E m \in Int : Mul(p, x) = p * x + Order * m
           /\ \E m \in Int : Add(p, x) = p + x + Order * m
           /\ \E m \in Int : Inv(p) = Order - p + Order * m
<1> DEFINE P == p * x
           A == p + x
           I == Order - p
<1>1. P \in Int /\ A \in Int /\ I \in Int
    BY GroupAssumption
<1>2. Mul(p, x) = P % Order /\ Add(p, x) = A % Order /\ Inv(p) = I % Order
    BY DEF Mul, Add, Inv
<1> HIDE DEF P, A, I
<1>3. /\ \E m \in Int : P % Order = P + Order * m
      /\ \E m \in Int : A % Order = A + Order * m
      /\ \E m \in Int : I % Order = I + Order * m
    BY <1>1, ModDiffers
<1> QED BY <1>2, <1>3 DEF P, A, I

LEMMA ExponentsAreInt == Exponents \subseteq Int /\ 0 \in Exponents
BY GroupAssumption DEF Exponents

LEMMA MulGenOfExponent ==
    ASSUME NEW x \in Exponents
    PROVE  MulGen(x) = x
BY GroupAssumption DEF Exponents, MulGen

\* The keys that R computes for bb are those of S.
LEMMA KeyUnchosen ==
    ASSUME NEW a \in Exponents, NEW b \in Exponents
    PROVE  Mul(Point(b, FALSE, MulGen(a)), a) = Mul(MulGen(a), b)
<1>1. a * b = b * a
    BY ExponentsAreInt
<1>2. Point(b, FALSE, MulGen(a)) = b
    BY MulGenOfExponent DEF Point
<1> QED BY <1>1, <1>2, MulGenOfExponent DEF Mul

LEMMA KeyChosen ==
    ASSUME NEW a \in Exponents, NEW b \in Exponents
    PROVE  Add(Mul(Point(b, TRUE, MulGen(a)), a), Inv(Mul(MulGen(a), a))) = Mul(MulGen(a), b)
<1> DEFINE pt == Point(b, TRUE, MulGen(a))
           low == Mul(pt, a)
           sq == Mul(a, a)
           key == Add(low, Inv(sq))
<1>1. Order \in Int /\ a \in Int /\ b \in Int
    BY GroupAssumption, ExponentsAreInt
<1>2. MulGen(a) = a /\ pt = Add(b, a)
    BY MulGenOfExponent DEF Point
<1>3. PICK m1 \in Int : pt = b + a + Order * m1
    <2>1. \E m1 \in Int : Add(b, a) = b + a + Order * m1
        BY <1>1, OperationsDiffer
    <2> HIDE DEF pt
    <2> QED BY <1>2, <2>1
<1> HIDE DEF pt
<1>4. pt \in Int
    BY <1>1, <1>3
<1>5. PICK m2 \in Int : low = pt * a + Order * m2
    BY <1>1, <1>4, OperationsDiffer
<1>6. PICK m3 \in Int : sq = a * a + Order * m3
    BY <1>1, OperationsDiffer
<1>7. low \in Int /\ sq \in Int
    BY <1>1, <1>4, Closed, ExponentsAreInt
<1> HIDE DEF low, sq
<1>8. PICK m4 \in Int : Inv(sq) = Order - sq + Order * m4
    BY <1>7, OperationsDiffer
<1>9. Inv(sq) \in Int
    BY <1>7, Closed, ExponentsAreInt
<1>10. PICK m5 \in Int : key = low + Inv(sq) + Order * m5
    BY <1>7, <1>9, OperationsDiffer
<1>11. PICK m6 \in Int : Mul(a, b) = a * b + Order * m6
    BY <1>1, OperationsDiffer
<1>12. key \in Exponents /\ Mul(a, b) \in Exponents
    BY <1>1, <1>7, <1>9, Closed
<1> HIDE DEF key
<1>13. pt * a = b * a + a * a + Order * (m1 * a)
    BY <1>1, <1>3
<1>14. PICK ab \in Int : ab = a * b /\ ab = b * a
    BY <1>1
<1>15. PICK aa \in Int : aa = a * a
    BY <1>1
<1>16. PICK c \in Int : c = m1 * a
    BY <1>1
<1>17. key = ab + Order * (c + m2 - m3 + 1 + m4 + m5)
    <2>1. low = ab + aa + Order * c + Order * m2
        BY <1>5, <1>13, <1>14, <1>15, <1>16
    <2>2. Inv(sq) = Order - (aa + Order * m3) + Order * m4
        BY <1>6, <1>8, <1>15
    <2>3. Order * (c + m2 - m3 + 1 + m4 + m5)
              = Order * c + Order * m2 - Order * m3 + Order + Order * m4 + Order * m5
        BY <1>1
    <2> QED BY <1>1, <1>10, <2>1, <2>2, <2>3
<1>18. key = Mul(a, b) + Order * (c + m2 - m3 + 1 + m4 + m5 - m6)
    <2>1. Order * (c + m2 - m3 + 1 + m4 + m5 - m6)
              = Order * (c + m2 - m3 + 1 + m4 + m5) - Order * m6
        BY <1>1
    <2> QED BY <1>1, <1>11, <1>14, <1>17, <2>1
<1>19. c + m2 - m3 + 1 + m4 + m5 - m6 \in Int
    OBVIOUS
<1>20. key = Mul(a, b)
    BY <1>12, <1>18, <1>19, ModUnique
<1> QED BY <1>2, <1>20 DEF key, low, sq, pt

LEMMA RBaseAKeeps ==
    ASSUME NEW h, NEW st, AllHold(h, st), RBaseA
    PROVE  \E st2 : AllHold(h, st2)'
<1>1. PICK o : o = me["R"]
    OBVIOUS
<1>2. PICK a \in ScalarsA : Returns("R", "baseA", [R EXCEPT !.a = a], <<MulGen(a)>>)
    BY DEF RBaseA
<1>3. PICK rec : rec = [o EXCEPT !.a = a]
    OBVIOUS
<1>4. PICK ms : ms = <<MulGen(a)>>
    OBVIOUS
<1>5. Returns("R", "baseA", rec, ms) /\ "R" \in Party
    BY <1>1, <1>2, <1>3, <1>4 DEF RBaseA, Party, R
<1>6. api \in Kinds /\ IsObject(o) /\ Outputs(h, st) /\ History(h) /\ Asked(h)
      /\ DataOfR(At(h, st, "R"))
    BY <1>1, <1>5 DEF AllHold, Kinds, Objects
<1>7. IsObject(rec) /\ rec.a = a
      /\ \A f \in Fields \ {"a"} : rec[f] = o[f]
    <2>1. o = [f \in Fields |-> o[f]] /\ "a" \in Fields
        BY <1>6 DEF IsObject, Fields
    <2>2. rec = [f \in Fields |-> rec[f]]
        BY <1>3, <2>1
    <2> QED BY <1>3, <2>1, <2>2, ObjectByDomain
<1>8. PICK st2, r, y : Performs(h, st, st2, "R", "baseA", rec, r, y)
    <2>1. /\ plans' = plans /\ api' = api /\ Doing("R", "baseA")
          /\ me' = [me EXCEPT !["R"] = [rec EXCEPT !.todo = Tail(@)]]
        BY <1>5 DEF Returns
    <2>2. rec.todo = me["R"].todo /\ rec.cnt = me["R"].cnt
        BY <1>1, <1>7 DEF Fields
    <2> QED BY <1>5, <1>7, <2>1, <2>2, Performed
<1>9. PICK k : k = st["R"]
    OBVIOUS
<1>10. PICK n : n = o.cnt
    OBVIOUS
<1>11. k = 3 /\ n \in 1..Len(plans) /\ st2["R"] = Upon(plans[n], 3) /\ InPlan(plans[n], 3)
       /\ plans[n] \in Plans
    BY <1>1, <1>5, <1>6, <1>8, <1>9, <1>10, WhichStage DEF Performs
<1>12. Sends(plans[n], "R", k) /\ ~Receives(plans[n], "R", k)
    BY <1>11 DEF Sends, Receives
<1>13. Carries(st, "R", ms)
    <2>1. IsSeq(ms) /\ Len(ms) = Counted(Sends(plans[n], "R", k))
        BY <1>4, <1>12, Single DEF Counted
    <2> QED BY <1>1, <1>5, <1>9, <1>10, <1>12, <2>1, ReturnsOne
<1>14. /\ r.start = o.start /\ r.gid = o.gid /\ r.epoch = o.epoch /\ r.pos = o.pos
       /\ r.isSet = o.isSet /\ r.len = o.len /\ r.rows = o.rows /\ r.isSetup = o.isSetup
       /\ r.item = o.item /\ r.out = o.out /\ r.s = o.s /\ r.bb = o.bb /\ r.k = o.k /\ r.a = a
       /\ r.r = o.r /\ r.A = o.A
       /\ r.cnt = n /\ r = me'["R"]
    BY <1>7, <1>8, <1>10 DEF Performs, Fields
<1>15. PICK x : x = At(h, st, "R")
    OBVIOUS
<1>16. /\ DataAt(o, x) /\ Moved(x, y, n, plans[n], "R", 3) /\ x \in Places /\ n \in Nat /\ n > 0
       /\ IsSeq(o.out) /\ Len(o.out) = n - Counted(3 <= 7) /\ (st2["R"] <= 7 <=> 3 < 7)
       /\ x = PlaceAt(h[n], n, plans[n], "R", 3) /\ h[n] \in Places
       /\ plans' = plans /\ api' = api
    BY <1>1, <1>5, <1>8, <1>9, <1>10, <1>11, <1>15 DEF Performs, Returns
<1>17. DataAt(r, y)
    <2>1. DOMAIN r.rows = 0..(r.len - 1)
        BY <1>14, <1>16 DEF DataAt
    <2>2. FieldsMoved(r, o, n, plans[n], "R", k)
        BY <1>11, <1>14, <2>1 DEF FieldsMoved
    <2>3. Moved(x, y, n, plans[n], "R", k) /\ (k = 5 => api = "not")
        BY <1>11, <1>16 DEF InPlan
    <2> QED BY <1>6, <1>16, <2>2, <2>3, DataMoves
<1>18. DataOfR(y)'
    <2>1. y.pre = x.pre /\ y.of = x.of /\ y.first = x.first
        BY <1>16 DEF Moved
    <2>2. r.r = R.r /\ r.rows = R.rows /\ r.len = R.len
        BY <1>1, <1>14 DEF R
    <2> QED BY <1>6, <1>14, <1>15, <1>16, <2>1, <2>2, SameRowsOfR
<1>19. Outputs(h, st2)'
    <2>1. st2["R"] # 8 /\ st["R"] # 8
        BY <1>9, <1>11, <1>16
    <2> QED BY <1>1, <1>6, <1>10, <1>14, <1>16, <2>1, OutputsKept
<1>20. IsSeq(r.out) /\ Len(r.out) = r.cnt - Counted(st2["R"] <= 7)
    BY <1>14, <1>16 DEF Counted
<1>21. Fresh(h, st, st2, "R", ms)
    <2>1. PICK m : m = ms[1]
        OBVIOUS
    <2>2. m = MulGen(a)
        BY <1>4, <2>1, Single
    <2>3. R'.cnt = n /\ R'.a = a /\ st2["R"] = 4
        BY <1>11, <1>14 DEF R, Upon
    <2>4. GoodA(st2, n, m)'
        BY <1>2, <2>2, <2>3 DEF GoodA, MulGen
    <2>5. Good(h, st2, "R", n, k, m)'
        BY <1>11, <2>4 DEF Good
    <2> QED BY <1>1, <1>9, <1>10, <2>1, <2>5, FreshOne
<1> QED BY <1>5, <1>8, <1>13, <1>21, <1>17, <1>18, <1>19, <1>20, Done

LEMMA SBaseBKeeps ==
    ASSUME NEW h, NEW st, AllHold(h, st), SBaseB
    PROVE  \E st2 : AllHold(h, st2)'
<1>1. PICK o : o = me["S"]
    OBVIOUS
<1>2. PICK g : g = Head(mail["S"])
    OBVIOUS
<1>3. PICK bb \in [Cols -> ScalarsB] :
          Takes("S", "baseB", [S EXCEPT !.bb = bb, !.A = Given("S")],
                <<[c \in Cols |-> Point(bb[c], c \in S.s, Given("S"))]>>)
    BY DEF SBaseB
<1>4. PICK rec : rec = [o EXCEPT !.bb = bb, !.A = g]
    OBVIOUS
<1>5. PICK ms : ms = <<[c \in Cols |-> Point(bb[c], c \in o.s, g)]>>
    OBVIOUS
<1>6. Takes("S", "baseB", rec, ms) /\ "S" \in Party
    BY <1>1, <1>2, <1>3, <1>4, <1>5 DEF SBaseB, Party, S, Given
<1>7. api \in Kinds /\ IsObject(o) /\ Outputs(h, st) /\ History(h) /\ Asked(h)
      /\ DataOfS(st, At(h, st, "S"))
    BY <1>1, <1>6 DEF AllHold, Kinds, Objects
<1>8. IsObject(rec) /\ rec.bb = bb /\ rec.A = g
      /\ \A f \in Fields \ {"bb", "A"} : rec[f] = o[f]
    <2>1. o = [f \in Fields |-> o[f]] /\ "bb" \in Fields /\ "A" \in Fields
        BY <1>7 DEF IsObject, Fields
    <2>2. rec = [f \in Fields |-> rec[f]]
        BY <1>4, <2>1
    <2> QED BY <1>4, <2>1, <2>2, ObjectByDomain
<1>9. PICK st2, r, y : Performs(h, st, st2, "S", "baseB", rec, r, y)
    <2>1. /\ plans' = plans /\ api' = api /\ Doing("S", "baseB")
          /\ me' = [me EXCEPT !["S"] = [rec EXCEPT !.todo = Tail(@)]]
        BY <1>6 DEF Takes
    <2>2. rec.todo = me["S"].todo /\ rec.cnt = me["S"].cnt
        BY <1>1, <1>8 DEF Fields
    <2> QED BY <1>6, <1>8, <2>1, <2>2, Performed
<1>10. PICK k : k = st["S"]
    OBVIOUS
<1>11. PICK n : n = o.cnt
    OBVIOUS
<1>12. k = 3 /\ n \in 1..Len(plans) /\ st2["S"] = Upon(plans[n], 3) /\ InPlan(plans[n], 3)
       /\ plans[n] \in Plans
    BY <1>1, <1>6, <1>7, <1>9, <1>10, <1>11, WhichStage DEF Performs
<1>13. Sends(plans[n], "S", k) /\ Receives(plans[n], "S", k)
    BY <1>12 DEF Sends, Receives
<1>14. Carries(st, "S", ms)
    <2>1. IsSeq(ms) /\ Len(ms) = Counted(Sends(plans[n], "S", k))
        BY <1>5, <1>13, Single DEF Counted
    <2> QED BY <1>1, <1>6, <1>10, <1>11, <1>13, <2>1, TakesOne
<1>15. /\ r.start = o.start /\ r.gid = o.gid /\ r.epoch = o.epoch /\ r.pos = o.pos
       /\ r.isSet = o.isSet /\ r.len = o.len /\ r.rows = o.rows /\ r.isSetup = o.isSetup
       /\ r.item = o.item /\ r.out = o.out /\ r.s = o.s /\ r.bb = bb /\ r.k = o.k /\ r.a = o.a
       /\ r.r = o.r /\ r.A = g
       /\ r.cnt = n /\ r = me'["S"]
    BY <1>8, <1>9, <1>11 DEF Performs, Fields
<1>16. PICK x : x = At(h, st, "S")
    OBVIOUS
<1>17. /\ DataAt(o, x) /\ Moved(x, y, n, plans[n], "S", 3) /\ x \in Places /\ n \in Nat /\ n > 0
       /\ IsSeq(o.out) /\ Len(o.out) = n - Counted(3 <= 7) /\ (st2["S"] <= 7 <=> 3 < 7)
       /\ x = PlaceAt(h[n], n, plans[n], "S", 3) /\ h[n] \in Places
       /\ plans' = plans /\ api' = api
    BY <1>1, <1>6, <1>9, <1>10, <1>11, <1>12, <1>16 DEF Performs, Takes
<1>18. Good(h, st, "R", n, 3, g)
    <2>1. mail["S"] # <<>> /\ PartnerOf("S", k) = 3 /\ Peer("S") = "R" /\ k \in 1..8
        BY <1>6, <1>12 DEF Takes, PartnerOf, Peer
    <2> QED BY <1>1, <1>6, <1>10, <1>11, <1>12, <1>13, <1>2, <2>1, Heads
<1>19. DataAt(r, y)
    <2>1. DOMAIN r.rows = 0..(r.len - 1)
        BY <1>15, <1>17 DEF DataAt
    <2>2. FieldsMoved(r, o, n, plans[n], "S", k)
        BY <1>12, <1>15, <2>1 DEF FieldsMoved
    <2>3. Moved(x, y, n, plans[n], "S", k) /\ (k = 5 => api = "not")
        BY <1>12, <1>17 DEF InPlan
    <2> QED BY <1>7, <1>17, <2>2, <2>3, DataMoves
<1>20. DataOfS(st2, y)'
    <2>1. st2["S"] = 4 /\ "setup" \in plans[n].new
        BY <1>12 DEF Upon, InPlan
    <2>2. Renews(st2)' /\ S'.s = S.s /\ S'.bb = bb
        BY <1>1, <1>15, <1>17, <2>1 DEF Renews, S
    <2> QED BY <1>3, <1>7, <2>1, <2>2 DEF DataOfS
<1>21. Outputs(h, st2)'
    <2>1. Method(st, st2, "S") /\ Peer("S") = "R"
        BY <1>9 DEF Performs, Peer
    <2> QED BY <1>7, <2>1, OutputsKept DEF Method
<1>22. IsSeq(r.out) /\ Len(r.out) = r.cnt - Counted(st2["S"] <= 7)
    BY <1>15, <1>17 DEF Counted
<1>23. Fresh(h, st, st2, "S", ms)
    <2>1. PICK m : m = ms[1]
        OBVIOUS
    <2>2. m = [c \in Cols |-> Point(bb[c], c \in o.s, g)]
        BY <1>5, <2>1, Single
    <2>3. S'.cnt = n /\ S'.A = g /\ S'.bb = bb /\ S'.s = o.s /\ st2["S"] = 4
        BY <1>12, <1>15 DEF S, Upon
    <2>4. GoodA(st, n, g)
        BY <1>18 DEF Good
    <2>5. R' = R /\ st2["R"] = st["R"]
        BY <1>9 DEF Performs, Method, Peer, R
    <2>6. m = [c \in Cols |-> Point(S'.bb[c], c \in S'.s, S'.A)]
        BY <2>2, <2>3
    <2>7. GoodB(st2, n, m)'
        BY <2>3, <2>4, <2>5, <2>6 DEF GoodA, GoodB, BothAt, MulGen, Point, Add
    <2>8. Good(h, st2, "S", n, k, m)'
        BY <1>12, <2>7 DEF Good
    <2> QED BY <1>1, <1>10, <1>11, <2>1, <2>8, FreshOne
<1> QED BY <1>6, <1>9, <1>14, <1>23, <1>19, <1>20, <1>21, <1>22, Done

LEMMA RBaseEKeeps ==
    ASSUME NEW h, NEW st, AllHold(h, st), RBaseE
    PROVE  \E st2 : AllHold(h, st2)'
<1>1. PICK o : o = me["R"]
    OBVIOUS
<1>2. PICK g : g = Head(mail["R"])
    OBVIOUS
<1>3. PICK rec : rec = o
    OBVIOUS
<1>4. PICK ms : ms = <<[c \in Cols |-> <<[under |-> <<Mul(g[c], o.a), c>>, key |-> PrgKey(o.epoch, 0)],
                          [under |-> <<Add(Mul(g[c], o.a), Inv(Mul(MulGen(o.a), o.a))), c>>,
                           key |-> PrgKey(o.epoch, 1)]>>]>>
    OBVIOUS
<1>5. Takes("R", "baseE", rec, ms) /\ "R" \in Party
    BY <1>1, <1>2, <1>3, <1>4 DEF RBaseE, Party, R, Given
<1>6. api \in Kinds /\ IsObject(o) /\ Outputs(h, st) /\ History(h) /\ Asked(h)
      /\ DataOfR(At(h, st, "R"))
    BY <1>1, <1>5 DEF AllHold, Kinds, Objects
<1>7. IsObject(rec)
      /\ \A f \in Fields \ {} : rec[f] = o[f]
    BY <1>3, <1>6
<1>8. PICK st2, r, y : Performs(h, st, st2, "R", "baseE", rec, r, y)
    <2>1. /\ plans' = plans /\ api' = api /\ Doing("R", "baseE")
          /\ me' = [me EXCEPT !["R"] = [rec EXCEPT !.todo = Tail(@)]]
        BY <1>5 DEF Takes
    <2>2. rec.todo = me["R"].todo /\ rec.cnt = me["R"].cnt
        BY <1>1, <1>7 DEF Fields
    <2> QED BY <1>5, <1>7, <2>1, <2>2, Performed
<1>9. PICK k : k = st["R"]
    OBVIOUS
<1>10. PICK n : n = o.cnt
    OBVIOUS
<1>11. k = 4 /\ n \in 1..Len(plans) /\ st2["R"] = Upon(plans[n], 4) /\ InPlan(plans[n], 4)
       /\ plans[n] \in Plans
    BY <1>1, <1>5, <1>6, <1>8, <1>9, <1>10, WhichStage DEF Performs
<1>12. Sends(plans[n], "R", k) /\ Receives(plans[n], "R", k)
    BY <1>11 DEF Sends, Receives
<1>13. Carries(st, "R", ms)
    <2>1. IsSeq(ms) /\ Len(ms) = Counted(Sends(plans[n], "R", k))
        BY <1>4, <1>12, Single DEF Counted
    <2> QED BY <1>1, <1>5, <1>9, <1>10, <1>12, <2>1, TakesOne
<1>14. /\ r.start = o.start /\ r.gid = o.gid /\ r.epoch = o.epoch /\ r.pos = o.pos
       /\ r.isSet = o.isSet /\ r.len = o.len /\ r.rows = o.rows /\ r.isSetup = o.isSetup
       /\ r.item = o.item /\ r.out = o.out /\ r.s = o.s /\ r.bb = o.bb /\ r.k = o.k /\ r.a = o.a
       /\ r.r = o.r /\ r.A = o.A
       /\ r.cnt = n /\ r = me'["R"]
    BY <1>7, <1>8, <1>10 DEF Performs, Fields
<1>15. PICK x : x = At(h, st, "R")
    OBVIOUS
<1>16. /\ DataAt(o, x) /\ Moved(x, y, n, plans[n], "R", 4) /\ x \in Places /\ n \in Nat /\ n > 0
       /\ IsSeq(o.out) /\ Len(o.out) = n - Counted(4 <= 7) /\ (st2["R"] <= 7 <=> 4 < 7)
       /\ x = PlaceAt(h[n], n, plans[n], "R", 4) /\ h[n] \in Places
       /\ plans' = plans /\ api' = api
    BY <1>1, <1>5, <1>8, <1>9, <1>10, <1>11, <1>15 DEF Performs, Takes
<1>17. Good(h, st, "S", n, 3, g)
    <2>1. mail["R"] # <<>> /\ PartnerOf("R", k) = 3 /\ Peer("R") = "S" /\ k \in 1..8
        BY <1>5, <1>11 DEF Takes, PartnerOf, Peer
    <2> QED BY <1>1, <1>5, <1>9, <1>10, <1>11, <1>12, <1>2, <2>1, Heads
<1>18. DataAt(r, y)
    <2>1. DOMAIN r.rows = 0..(r.len - 1)
        BY <1>14, <1>16 DEF DataAt
    <2>2. FieldsMoved(r, o, n, plans[n], "R", k)
        BY <1>11, <1>14, <2>1 DEF FieldsMoved
    <2>3. Moved(x, y, n, plans[n], "R", k) /\ (k = 5 => api = "not")
        BY <1>11, <1>16 DEF InPlan
    <2> QED BY <1>6, <1>16, <2>2, <2>3, DataMoves
<1>19. DataOfR(y)'
    <2>1. y.pre = x.pre /\ y.of = x.of /\ y.first = x.first
        BY <1>16 DEF Moved
    <2>2. r.r = R.r /\ r.rows = R.rows /\ r.len = R.len
        BY <1>1, <1>14 DEF R
    <2> QED BY <1>6, <1>14, <1>15, <1>16, <2>1, <2>2, SameRowsOfR
<1>20. Outputs(h, st2)'
    <2>1. st2["R"] # 8 /\ st["R"] # 8
        BY <1>9, <1>11, <1>16
    <2> QED BY <1>1, <1>6, <1>10, <1>14, <1>16, <2>1, OutputsKept
<1>21. IsSeq(r.out) /\ Len(r.out) = r.cnt - Counted(st2["R"] <= 7)
    BY <1>14, <1>16 DEF Counted
<1>22. Fresh(h, st, st2, "R", ms)
    <2>1. PICK m : m = ms[1]
        OBVIOUS
    <2>2. m = [c \in Cols |-> <<[under |-> <<Mul(g[c], o.a), c>>, key |-> PrgKey(o.epoch, 0)],
                          [under |-> <<Add(Mul(g[c], o.a), Inv(Mul(MulGen(o.a), o.a))), c>>,
                           key |-> PrgKey(o.epoch, 1)]>>]
        BY <1>4, <2>1, Single
    <2>3. GoodB(st, n, g)
        BY <1>17 DEF Good
    <2>4. S.cnt = n /\ st["S"] = 4 /\ o.a \in ScalarsA /\ S.A = MulGen(o.a)
          /\ g = [c \in Cols |-> Point(S.bb[c], c \in S.s, MulGen(o.a))]
        BY <1>1, <2>3 DEF GoodB, BothAt, R
    <2>5. S' = S /\ st2["S"] = st["S"]
        BY <1>8 DEF Performs, Method, Peer, S
    <2>6. S.bb \in [Cols -> ScalarsB]
        BY <2>4 DEF AllHold, Objects, DataOfS
    <2>7. o.epoch = h[n].epoch + 1
        <3>1. o.epoch = x.epoch /\ x.epoch = EpochAt(h[n], plans[n], "R", 4)
            BY <1>16, PlaceFields DEF DataAt
        <3> QED BY <1>11, <3>1 DEF EpochAt, Renewed, InPlan
    <2>8. PICK e : e = h[n].epoch + 1
        OBVIOUS
    <2>9. ASSUME NEW c \in Cols
          PROVE  m[c][IF c \in S.s THEN 2 ELSE 1] = SealedFor(e, c)
        <3>1. o.a \in Exponents /\ S.bb[c] \in Exponents
            BY <2>4, <2>6, MyOtAssumption DEF Exponents
        <3>2. CASE c \in S.s
            <4>1. g[c] = Point(S.bb[c], TRUE, MulGen(o.a))
                BY <2>4, <3>2
            <4>2. Add(Mul(g[c], o.a), Inv(Mul(MulGen(o.a), o.a))) = Mul(S.A, S.bb[c])
                BY <2>4, <3>1, <4>1, KeyChosen
            <4>3. m[c][2] = [under |-> <<Add(Mul(g[c], o.a), Inv(Mul(MulGen(o.a), o.a))), c>>,
                             key |-> PrgKey(e, 1)]
                BY <2>2, <2>7, <2>8
            <4> QED BY <3>2, <4>2, <4>3 DEF SealedFor, KeyFor
        <3>3. CASE c \notin S.s
            <4>1. g[c] = Point(S.bb[c], FALSE, MulGen(o.a))
                BY <2>4, <3>3 DEF Point
            <4>2. Mul(g[c], o.a) = Mul(S.A, S.bb[c])
                BY <2>4, <3>1, <4>1, KeyUnchosen
            <4>3. m[c][1] = [under |-> <<Mul(g[c], o.a), c>>, key |-> PrgKey(e, 0)]
                BY <2>2, <2>7, <2>8
            <4> QED BY <3>3, <4>2, <4>3 DEF SealedFor, KeyFor
        <3> QED BY <3>2, <3>3
    <2>10. GoodE(h, st2, n, m)'
        BY <2>4, <2>5, <2>8, <2>9 DEF GoodE, SealedFor, KeyFor, PrgKey, Mul
    <2>11. Good(h, st2, "R", n, k, m)'
        BY <1>11, <2>10 DEF Good
    <2> QED BY <1>1, <1>9, <1>10, <2>1, <2>11, FreshOne
<1> QED BY <1>5, <1>8, <1>13, <1>22, <1>18, <1>19, <1>20, <1>21, Done

LEMMA SBaseDataKeeps ==
    ASSUME NEW h, NEW st, AllHold(h, st), SBaseData
    PROVE  \E st2 : AllHold(h, st2)'
<1>1. PICK o : o = me["S"]
    OBVIOUS
<1>2. PICK g : g = Head(mail["S"])
    OBVIOUS
<1>3. PICK keys : keys =
          [c \in Cols |-> IF g[c][IF c \in o.s THEN 2 ELSE 1].under = <<Mul(o.A, o.bb[c]), c>>
                          THEN g[c][IF c \in o.s THEN 2 ELSE 1].key ELSE PrgKey(0, 0)]
    OBVIOUS
<1>4. PICK rec : rec = [o EXCEPT !.k = keys, !.pos = 0, !.epoch = o.epoch + 1]
    OBVIOUS
<1>5. PICK ms : ms = <<>>
    OBVIOUS
<1>6. Takes("S", "baseData", rec, ms) /\ "S" \in Party
    BY <1>1, <1>2, <1>3, <1>4, <1>5 DEF SBaseData, Party, S, Given
<1>7. api \in Kinds /\ IsObject(o) /\ Outputs(h, st) /\ History(h) /\ Asked(h)
      /\ DataOfS(st, At(h, st, "S"))
    BY <1>1, <1>6 DEF AllHold, Kinds, Objects
<1>8. IsObject(rec) /\ rec.k = keys /\ rec.pos = 0 /\ rec.epoch = o.epoch + 1
      /\ \A f \in Fields \ {"k", "pos", "epoch"} : rec[f] = o[f]
    <2>1. o = [f \in Fields |-> o[f]] /\ "k" \in Fields /\ "pos" \in Fields /\ "epoch" \in Fields
        BY <1>7 DEF IsObject, Fields
    <2>2. rec = [f \in Fields |-> rec[f]]
        BY <1>4, <2>1
    <2> QED BY <1>4, <2>1, <2>2, ObjectByDomain
<1>9. PICK st2, r, y : Performs(h, st, st2, "S", "baseData", rec, r, y)
    <2>1. /\ plans' = plans /\ api' = api /\ Doing("S", "baseData")
          /\ me' = [me EXCEPT !["S"] = [rec EXCEPT !.todo = Tail(@)]]
        BY <1>6 DEF Takes
    <2>2. rec.todo = me["S"].todo /\ rec.cnt = me["S"].cnt
        BY <1>1, <1>8 DEF Fields
    <2> QED BY <1>6, <1>8, <2>1, <2>2, Performed
<1>10. PICK k : k = st["S"]
    OBVIOUS
<1>11. PICK n : n = o.cnt
    OBVIOUS
<1>12. k = 4 /\ n \in 1..Len(plans) /\ st2["S"] = Upon(plans[n], 4) /\ InPlan(plans[n], 4)
       /\ plans[n] \in Plans
    BY <1>1, <1>6, <1>7, <1>9, <1>10, <1>11, WhichStage DEF Performs
<1>13. ~Sends(plans[n], "S", k) /\ Receives(plans[n], "S", k)
    BY <1>12 DEF Sends, Receives
<1>14. Carries(st, "S", ms)
    <2>1. IsSeq(ms) /\ Len(ms) = Counted(Sends(plans[n], "S", k))
        BY <1>5, <1>13, Empty DEF Counted
    <2> QED BY <1>1, <1>6, <1>10, <1>11, <1>13, <2>1, TakesOne
<1>15. /\ r.start = o.start /\ r.gid = o.gid /\ r.epoch = o.epoch + 1 /\ r.pos = 0
       /\ r.isSet = o.isSet /\ r.len = o.len /\ r.rows = o.rows /\ r.isSetup = o.isSetup
       /\ r.item = o.item /\ r.out = o.out /\ r.s = o.s /\ r.bb = o.bb /\ r.k = keys
       /\ r.a = o.a /\ r.r = o.r /\ r.A = o.A
       /\ r.cnt = n /\ r = me'["S"]
    BY <1>8, <1>9, <1>11 DEF Performs, Fields
<1>16. PICK x : x = At(h, st, "S")
    OBVIOUS
<1>17. /\ DataAt(o, x) /\ Moved(x, y, n, plans[n], "S", 4) /\ x \in Places /\ n \in Nat /\ n > 0
       /\ IsSeq(o.out) /\ Len(o.out) = n - Counted(4 <= 7) /\ (st2["S"] <= 7 <=> 4 < 7)
       /\ x = PlaceAt(h[n], n, plans[n], "S", 4) /\ h[n] \in Places
       /\ plans' = plans /\ api' = api
    BY <1>1, <1>6, <1>9, <1>10, <1>11, <1>12, <1>16 DEF Performs, Takes
<1>18. Good(h, st, "R", n, 4, g)
    <2>1. mail["S"] # <<>> /\ PartnerOf("S", k) = 4 /\ Peer("S") = "R" /\ k \in 1..8
        BY <1>6, <1>12 DEF Takes, PartnerOf, Peer
    <2> QED BY <1>1, <1>6, <1>10, <1>11, <1>12, <1>13, <1>2, <2>1, Heads
<1>19. DataAt(r, y)
    <2>1. DOMAIN r.rows = 0..(r.len - 1)
        BY <1>15, <1>17 DEF DataAt
    <2>2. FieldsMoved(r, o, n, plans[n], "S", k)
        BY <1>12, <1>15, <2>1 DEF FieldsMoved
    <2>3. Moved(x, y, n, plans[n], "S", k) /\ (k = 5 => api = "not")
        BY <1>12, <1>17 DEF InPlan
    <2> QED BY <1>7, <1>17, <2>2, <2>3, DataMoves
<1>20. DataOfS(st2, y)'
    <2>1. GoodE(h, st, n, g) /\ S = o
        BY <1>1, <1>18 DEF Good, S
    <2>2. y.epoch = h[n].epoch + 1
        <3>1. x.epoch = EpochAt(h[n], plans[n], "S", 4)
            BY <1>17, PlaceFields
        <3> QED BY <1>17, <3>1 DEF EpochAt, Renewed, Moved
    <2>3. PICK e : e = h[n].epoch + 1
        OBVIOUS
    <2>4. ASSUME NEW c \in Cols PROVE keys[c] = KeyFor(e, c, o.s)
        <3>1. g[c][IF c \in o.s THEN 2 ELSE 1] = 
                     [under |-> <<Mul(o.A, o.bb[c]), c>>, key |-> KeyFor(e, c, o.s)]
            BY <2>1, <2>3 DEF GoodE, SealedFor
        <3> QED BY <1>3, <3>1
    <2>5. keys = KeysFor(e, o.s)
        BY <1>3, <2>4 DEF KeysFor
    <2>6. st2["S"] \in {5, 6} /\ "setup" \in plans[n].new
        BY <1>12, PlanFacts DEF Upon, InPlan
    <2>7. Renews(st2)' /\ S'.s = o.s /\ S'.k = keys
        BY <1>15, <1>17, <2>6 DEF Renews, S
    <2>8. KeysFor(e, o.s)' = KeysFor(e, o.s)
        BY DEF KeysFor, KeyFor, PrgKey
    <2>9. o.s \subseteq Cols
        BY <1>7, <2>1 DEF DataOfS
    <2> QED BY <2>2, <2>3, <2>5, <2>6, <2>7, <2>8, <2>9 DEF DataOfS
<1>21. Outputs(h, st2)'
    <2>1. Method(st, st2, "S") /\ Peer("S") = "R"
        BY <1>9 DEF Performs, Peer
    <2> QED BY <1>7, <2>1, OutputsKept DEF Method
<1>22. IsSeq(r.out) /\ Len(r.out) = r.cnt - Counted(st2["S"] <= 7)
    BY <1>15, <1>17 DEF Counted
<1>23. Fresh(h, st, st2, "S", ms)
    BY <1>1, <1>10, <1>11, <1>13, FreshNone
<1> QED BY <1>6, <1>9, <1>14, <1>23, <1>19, <1>20, <1>21, <1>22, Done

\* Two places of a round once its rows are made
LEMMA LatePlace ==
    ASSUME NEW h, History(h), NEW n \in 1..Len(plans), NEW p \in Party, NEW k \in {7, 8},
           NEW x, x = PlaceAt(h[n], n, plans[n], p, k), NEW z, z = h[n + 1]
    PROVE  /\ z.start = x.start /\ z.pre = x.pre /\ z.chosen = x.chosen /\ z.of = x.of
           /\ z.first = x.first
           /\ k = 7 => x.gid = h[n].gid
<1>1. PICK a : a = h[n]
    OBVIOUS
<1>2. PICK plan : plan = plans[n]
    OBVIOUS
<1>3. z = PlaceAt(a, n, plan, "S", 9) /\ x = PlaceAt(a, n, plan, p, k) /\ a \in Places /\ plan \in Plans
      /\ n \in Nat
    BY <1>1, <1>2, HistoryFacts
<1>4. z = PlaceAt(a, n, plan, p, 9)
    BY <1>3, PlaceEnds
<1>5. EpochAt(a, plan, p, k) = EpochAt(a, plan, p, 9) /\ FirstAt(a, plan, p, k) = FirstAt(a, plan, p, 9)
    BY DEF EpochAt, FirstAt, Renewed
<1>6. /\ x.start = (IF "setS" \in plan.new THEN n ELSE a.start)
      /\ x.pre = (IF "pre" \in plan.new THEN n ELSE a.pre)
      /\ x.chosen = (IF "pre" \in plan.new THEN n ELSE a.chosen)
      /\ x.of = (IF "pre" \in plan.new THEN EpochAt(a, plan, p, k) ELSE a.of)
      /\ x.first = (IF "pre" \in plan.new THEN FirstAt(a, plan, p, k) ELSE a.first)
      /\ k = 7 => x.gid = a.gid
    BY <1>3, PlaceFields
<1>7. /\ z.start = (IF "setS" \in plan.new THEN n ELSE a.start)
      /\ z.pre = (IF "pre" \in plan.new THEN n ELSE a.pre)
      /\ z.chosen = (IF "pre" \in plan.new THEN n ELSE a.chosen)
      /\ z.of = (IF "pre" \in plan.new THEN EpochAt(a, plan, p, 9) ELSE a.of)
      /\ z.first = (IF "pre" \in plan.new THEN FirstAt(a, plan, p, 9) ELSE a.first)
    BY <1>4, PlaceFields
<1> QED BY <1>1, <1>5, <1>6, <1>7

LEMMA ChooseSKeeps ==
    ASSUME NEW h, NEW st, AllHold(h, st), Choose("S")
    PROVE  \E st2 : AllHold(h, st2)'
<1>1. PICK o : o = me["S"]
    OBVIOUS
<1>2. PICK rec : rec = [o EXCEPT !.isSetup = TRUE, !.item = plans[o.cnt].item]
    OBVIOUS
<1>3. PICK ms : ms = <<>>
    OBVIOUS
<1>4. Returns("S", "choose", rec, ms) /\ "S" \in Party
    BY <1>1, <1>2, <1>3 DEF Choose, PlanOf, Party, S
<1>5. api \in Kinds /\ IsObject(o) /\ Outputs(h, st) /\ History(h) /\ Asked(h)
      /\ DataOfS(st, At(h, st, "S"))
    BY <1>1, <1>4 DEF AllHold, Kinds, Objects
<1>6. IsObject(rec) /\ rec.isSetup = TRUE /\ rec.item = plans[o.cnt].item
      /\ \A f \in Fields \ {"isSetup", "item"} : rec[f] = o[f]
    <2>1. o = [f \in Fields |-> o[f]] /\ "isSetup" \in Fields /\ "item" \in Fields
        BY <1>5 DEF IsObject, Fields
    <2>2. rec = [f \in Fields |-> rec[f]]
        BY <1>2, <2>1
    <2> QED BY <1>2, <2>1, <2>2, ObjectByDomain
<1>7. PICK st2, r, y : Performs(h, st, st2, "S", "choose", rec, r, y)
    <2>1. /\ plans' = plans /\ api' = api /\ Doing("S", "choose")
          /\ me' = [me EXCEPT !["S"] = [rec EXCEPT !.todo = Tail(@)]]
        BY <1>4 DEF Returns
    <2>2. rec.todo = me["S"].todo /\ rec.cnt = me["S"].cnt
        BY <1>1, <1>6 DEF Fields
    <2> QED BY <1>4, <1>6, <2>1, <2>2, Performed
<1>8. PICK k : k = st["S"]
    OBVIOUS
<1>9. PICK n : n = o.cnt
    OBVIOUS
<1>10. k = 5 /\ n \in 1..Len(plans) /\ st2["S"] = Upon(plans[n], 5) /\ InPlan(plans[n], 5)
       /\ plans[n] \in Plans
    BY <1>1, <1>4, <1>5, <1>7, <1>8, <1>9, WhichStage DEF Performs
<1>11. ~Sends(plans[n], "S", k) /\ ~Receives(plans[n], "S", k)
    BY <1>10 DEF Sends, Receives
<1>12. Carries(st, "S", ms)
    <2>1. IsSeq(ms) /\ Len(ms) = Counted(Sends(plans[n], "S", k))
        BY <1>3, <1>11, Empty DEF Counted
    <2> QED BY <1>1, <1>4, <1>8, <1>9, <1>11, <2>1, ReturnsOne
<1>13. /\ r.start = o.start /\ r.gid = o.gid /\ r.epoch = o.epoch /\ r.pos = o.pos
       /\ r.isSet = o.isSet /\ r.len = o.len /\ r.rows = o.rows /\ r.isSetup = TRUE
       /\ r.item = plans[o.cnt].item /\ r.out = o.out /\ r.s = o.s /\ r.bb = o.bb /\ r.k = o.k
       /\ r.a = o.a /\ r.r = o.r /\ r.A = o.A
       /\ r.cnt = n /\ r = me'["S"]
    BY <1>6, <1>7, <1>9 DEF Performs, Fields
<1>14. PICK x : x = At(h, st, "S")
    OBVIOUS
<1>15. /\ DataAt(o, x) /\ Moved(x, y, n, plans[n], "S", 5) /\ x \in Places /\ n \in Nat /\ n > 0
       /\ IsSeq(o.out) /\ Len(o.out) = n - Counted(5 <= 7) /\ (st2["S"] <= 7 <=> 5 < 7)
       /\ x = PlaceAt(h[n], n, plans[n], "S", 5) /\ h[n] \in Places
       /\ plans' = plans /\ api' = api
    BY <1>1, <1>4, <1>7, <1>8, <1>9, <1>10, <1>14 DEF Performs, Returns
<1>16. DataAt(r, y)
    <2>1. DOMAIN r.rows = 0..(r.len - 1)
        BY <1>13, <1>15 DEF DataAt
    <2>2. k # 1 /\ k # 2 /\ k # 4 /\ k # 7 /\ (k = 5 \/ k = 6) /\ ~(k = 5 /\ k = 6)
        BY <1>10
    <2>3. r.isSetup = (IF k = 5 THEN TRUE ELSE o.isSetup)
        BY <1>10, <1>13, <2>2, Zenon
    <2>4. r.isSet = (IF k = 6 THEN TRUE ELSE o.isSet)
        BY <1>10, <1>13, <2>2, Zenon
    <2>5. /\ r.item = (IF k = 5 THEN plans[n].item ELSE o.item)
          /\ r.len = (IF k = 6 THEN plans[n].len ELSE o.len)
        BY <1>9, <1>10, <1>13
    <2>6. /\ r.start = o.start /\ r.gid = o.gid /\ r.epoch = o.epoch
          /\ r.pos = (IF k = 6 THEN o.pos + Rounded(plans[n].len) ELSE o.pos)
        BY <1>9, <1>10, <1>13
    <2>7. FieldsMoved(r, o, n, plans[n], "S", k)
        BY <2>1, <2>2, <2>5, <2>6, <2>3, <2>4 DEF FieldsMoved
    <2>8. Moved(x, y, n, plans[n], "S", k) /\ (k = 5 => api = "not")
        BY <1>10, <1>15 DEF InPlan
    <2> QED BY <1>5, <1>15, <2>7, <2>8, DataMoves
<1>17. DataOfS(st2, y)'
    <2>1. y.pre = x.pre /\ y.of = x.of /\ y.first = x.first /\ y.epoch = x.epoch
        BY <1>15 DEF Moved
    <2>2. st["S"] = 5 /\ st2["S"] = 6
        BY <1>8, <1>10 DEF Upon
    <2>3. r.s = S.s /\ r.rows = S.rows /\ r.len = S.len /\ r.k = S.k /\ r.bb = S.bb /\ r.cnt = S.cnt
        BY <1>1, <1>9, <1>13 DEF S
    <2>4. plans' = plans /\ r = me'["S"] /\ DataOfS(st, x)
        BY <1>5, <1>13, <1>14, <1>15
    <2> QED BY <2>1, <2>2, <2>3, <2>4, SameRowsOfS
<1>18. Outputs(h, st2)'
    <2>1. Method(st, st2, "S") /\ Peer("S") = "R"
        BY <1>7 DEF Performs, Peer
    <2> QED BY <1>5, <2>1, OutputsKept DEF Method
<1>19. IsSeq(r.out) /\ Len(r.out) = r.cnt - Counted(st2["S"] <= 7)
    BY <1>13, <1>15 DEF Counted
<1>20. Fresh(h, st, st2, "S", ms)
    BY <1>1, <1>8, <1>9, <1>11, FreshNone
<1> QED BY <1>4, <1>7, <1>12, <1>20, <1>16, <1>17, <1>18, <1>19, Done

LEMMA ChooseRKeeps ==
    ASSUME NEW h, NEW st, AllHold(h, st), Choose("R")
    PROVE  \E st2 : AllHold(h, st2)'
<1>1. PICK o : o = me["R"]
    OBVIOUS
<1>2. PICK rec : rec = [o EXCEPT !.isSetup = TRUE, !.item = plans[o.cnt].item]
    OBVIOUS
<1>3. PICK ms : ms = <<>>
    OBVIOUS
<1>4. Returns("R", "choose", rec, ms) /\ "R" \in Party
    BY <1>1, <1>2, <1>3 DEF Choose, PlanOf, Party, R
<1>5. api \in Kinds /\ IsObject(o) /\ Outputs(h, st) /\ History(h) /\ Asked(h)
      /\ DataOfR(At(h, st, "R"))
    BY <1>1, <1>4 DEF AllHold, Kinds, Objects
<1>6. IsObject(rec) /\ rec.isSetup = TRUE /\ rec.item = plans[o.cnt].item
      /\ \A f \in Fields \ {"isSetup", "item"} : rec[f] = o[f]
    <2>1. o = [f \in Fields |-> o[f]] /\ "isSetup" \in Fields /\ "item" \in Fields
        BY <1>5 DEF IsObject, Fields
    <2>2. rec = [f \in Fields |-> rec[f]]
        BY <1>2, <2>1
    <2> QED BY <1>2, <2>1, <2>2, ObjectByDomain
<1>7. PICK st2, r, y : Performs(h, st, st2, "R", "choose", rec, r, y)
    <2>1. /\ plans' = plans /\ api' = api /\ Doing("R", "choose")
          /\ me' = [me EXCEPT !["R"] = [rec EXCEPT !.todo = Tail(@)]]
        BY <1>4 DEF Returns
    <2>2. rec.todo = me["R"].todo /\ rec.cnt = me["R"].cnt
        BY <1>1, <1>6 DEF Fields
    <2> QED BY <1>4, <1>6, <2>1, <2>2, Performed
<1>8. PICK k : k = st["R"]
    OBVIOUS
<1>9. PICK n : n = o.cnt
    OBVIOUS
<1>10. k = 5 /\ n \in 1..Len(plans) /\ st2["R"] = Upon(plans[n], 5) /\ InPlan(plans[n], 5)
       /\ plans[n] \in Plans
    BY <1>1, <1>4, <1>5, <1>7, <1>8, <1>9, WhichStage DEF Performs
<1>11. ~Sends(plans[n], "R", k) /\ ~Receives(plans[n], "R", k)
    BY <1>10 DEF Sends, Receives
<1>12. Carries(st, "R", ms)
    <2>1. IsSeq(ms) /\ Len(ms) = Counted(Sends(plans[n], "R", k))
        BY <1>3, <1>11, Empty DEF Counted
    <2> QED BY <1>1, <1>4, <1>8, <1>9, <1>11, <2>1, ReturnsOne
<1>13. /\ r.start = o.start /\ r.gid = o.gid /\ r.epoch = o.epoch /\ r.pos = o.pos
       /\ r.isSet = o.isSet /\ r.len = o.len /\ r.rows = o.rows /\ r.isSetup = TRUE
       /\ r.item = plans[o.cnt].item /\ r.out = o.out /\ r.s = o.s /\ r.bb = o.bb /\ r.k = o.k
       /\ r.a = o.a /\ r.r = o.r /\ r.A = o.A
       /\ r.cnt = n /\ r = me'["R"]
    BY <1>6, <1>7, <1>9 DEF Performs, Fields
<1>14. PICK x : x = At(h, st, "R")
    OBVIOUS
<1>15. /\ DataAt(o, x) /\ Moved(x, y, n, plans[n], "R", 5) /\ x \in Places /\ n \in Nat /\ n > 0
       /\ IsSeq(o.out) /\ Len(o.out) = n - Counted(5 <= 7) /\ (st2["R"] <= 7 <=> 5 < 7)
       /\ x = PlaceAt(h[n], n, plans[n], "R", 5) /\ h[n] \in Places
       /\ plans' = plans /\ api' = api
    BY <1>1, <1>4, <1>7, <1>8, <1>9, <1>10, <1>14 DEF Performs, Returns
<1>16. DataAt(r, y)
    <2>1. DOMAIN r.rows = 0..(r.len - 1)
        BY <1>13, <1>15 DEF DataAt
    <2>2. k # 1 /\ k # 2 /\ k # 4 /\ k # 7 /\ (k = 5 \/ k = 6) /\ ~(k = 5 /\ k = 6)
        BY <1>10
    <2>3. r.isSetup = (IF k = 5 THEN TRUE ELSE o.isSetup)
        BY <1>10, <1>13, <2>2, Zenon
    <2>4. r.isSet = (IF k = 6 THEN TRUE ELSE o.isSet)
        BY <1>10, <1>13, <2>2, Zenon
    <2>5. /\ r.item = (IF k = 5 THEN plans[n].item ELSE o.item)
          /\ r.len = (IF k = 6 THEN plans[n].len ELSE o.len)
        BY <1>9, <1>10, <1>13
    <2>6. /\ r.start = o.start /\ r.gid = o.gid /\ r.epoch = o.epoch
          /\ r.pos = (IF k = 6 THEN o.pos + Rounded(plans[n].len) ELSE o.pos)
        BY <1>9, <1>10, <1>13
    <2>7. FieldsMoved(r, o, n, plans[n], "R", k)
        BY <2>1, <2>2, <2>5, <2>6, <2>3, <2>4 DEF FieldsMoved
    <2>8. Moved(x, y, n, plans[n], "R", k) /\ (k = 5 => api = "not")
        BY <1>10, <1>15 DEF InPlan
    <2> QED BY <1>5, <1>15, <2>7, <2>8, DataMoves
<1>17. DataOfR(y)'
    <2>1. y.pre = x.pre /\ y.of = x.of /\ y.first = x.first
        BY <1>15 DEF Moved
    <2>2. r.r = R.r /\ r.rows = R.rows /\ r.len = R.len
        BY <1>1, <1>13 DEF R
    <2> QED BY <1>5, <1>13, <1>14, <1>15, <2>1, <2>2, SameRowsOfR
<1>18. Outputs(h, st2)'
    <2>1. st2["R"] # 8 /\ st["R"] # 8
        BY <1>8, <1>10, <1>15
    <2> QED BY <1>1, <1>5, <1>9, <1>13, <1>15, <2>1, OutputsKept
<1>19. IsSeq(r.out) /\ Len(r.out) = r.cnt - Counted(st2["R"] <= 7)
    BY <1>13, <1>15 DEF Counted
<1>20. Fresh(h, st, st2, "R", ms)
    BY <1>1, <1>8, <1>9, <1>11, FreshNone
<1> QED BY <1>4, <1>7, <1>12, <1>20, <1>16, <1>17, <1>18, <1>19, Done

\* What Outputs says of the round n
OutputOf(h, st, n) ==
    /\ h[n + 1].pre > 0
    /\ api = "ot" \/ (api = "not" /\ n = R.cnt /\ st["R"] = 8) => R.out[n] = TextsOf(h, n)
    /\ api = "not" /\ ~(n = R.cnt /\ st["R"] = 8) => R.out[n] = <<n, plans[h[n + 1].pre].item>>

\* R has got what its bits choose in round n.
LEMMA OutputsAppended ==
    ASSUME NEW h, NEW st, Outputs(h, st), NEW st2, plans' = plans, api' = api,
           NEW n \in Nat, st["R"] = 7, st2["R"] \in {8, 9}, st2["R"] = 8 <=> api = "not",
           R.cnt = n, IsSeq(R.out), Len(R.out) = n - 1,
           NEW z, R'.out = Append(R.out, z), R'.cnt = n,
           h[n + 1].pre > 0, api # "rot" => z = TextsOf(h, n)
    PROVE  Outputs(h, st2)'
<1>1. \A i : TextsOf(h, i)' = TextsOf(h, i)
    BY DEF TextsOf, Chosen
<1>2. PICK out : out = R.out
    OBVIOUS
<1>3. Len(R'.out) = n /\ R'.out[n] = z /\ \A i \in 1..(n - 1) : R'.out[i] = out[i]
    <2>1. /\ Len(Append(out, z)) = Len(out) + 1
          /\ \A i \in 1..Len(out) : Append(out, z)[i] = out[i]
          /\ Append(out, z)[Len(out) + 1] = z
        BY <1>2, Appended
    <2>2. Len(out) + 1 = n
        BY <1>2
    <2> QED BY <1>2, <2>1, <2>2
<1>4. ASSUME NEW i \in 1..n
      PROVE  /\ h[i + 1].pre > 0
             /\ api = "ot" \/ (api = "not" /\ i = n /\ st2["R"] = 8) => R'.out[i] = TextsOf(h, i)
             /\ api = "not" /\ ~(i = n /\ st2["R"] = 8) => R'.out[i] = <<i, plans[h[i + 1].pre].item>>
    <2>1. CASE i = n
        BY <1>3, <2>1
    <2>2. CASE i # n
        <3>1. i \in 1..(n - 1) /\ i \in 1..Len(R.out)
            BY <2>2
        <3>2. /\ h[i + 1].pre > 0
              /\ api = "ot" => out[i] = TextsOf(h, i)
              /\ api = "not" => out[i] = <<i, plans[h[i + 1].pre].item>>
            BY <1>2, <2>2, <3>1 DEF Outputs
        <3> QED BY <1>3, <2>2, <3>1, <3>2
    <2> QED BY <2>1, <2>2
<1>5. \A i \in 1..Len(R'.out) : OutputOf(h, st2, i)'
    <2> SUFFICES ASSUME NEW i \in 1..n PROVE OutputOf(h, st2, i)'
        BY <1>3
    <2>1. PICK text : text = TextsOf(h, i)
        OBVIOUS
    <2>2. TextsOf(h, i)' = text
        BY <1>1, <2>1
    <2> QED BY <1>4, <2>1, <2>2 DEF OutputOf
<1> QED BY <1>5 DEF Outputs, OutputOf

LEMMA SRotKeeps ==
    ASSUME NEW h, NEW st, AllHold(h, st), SRot
    PROVE  \E st2 : AllHold(h, st2)'
<1>1. PICK o : o = me["S"]
    OBVIOUS
<1>2. PICK z : Prepared("S") /\ Returns("S", "rot", Ending("S", z), <<>>)
    BY DEF SRot
<1>3. PICK rec : rec = [o EXCEPT !.gid = o.gid + Batched(plans[o.cnt].use), !.out = Append(o.out, z)]
    OBVIOUS
<1>4. PICK ms : ms = <<>>
    OBVIOUS
<1>5. Returns("S", "rot", rec, ms) /\ "S" \in Party
    BY <1>1, <1>2, <1>3, <1>4 DEF Ending, Party, S, KeysUsed, Batched, PlanOf
<1>6. api \in Kinds /\ IsObject(o) /\ Outputs(h, st) /\ History(h) /\ Asked(h)
      /\ DataOfS(st, At(h, st, "S"))
    BY <1>1, <1>5 DEF AllHold, Kinds, Objects
<1>7. IsObject(rec) /\ rec.gid = o.gid + Batched(plans[o.cnt].use) /\ rec.out = Append(o.out, z)
      /\ \A f \in Fields \ {"gid", "out"} : rec[f] = o[f]
    <2>1. o = [f \in Fields |-> o[f]] /\ "gid" \in Fields /\ "out" \in Fields
        BY <1>6 DEF IsObject, Fields
    <2>2. rec = [f \in Fields |-> rec[f]]
        BY <1>3, <2>1
    <2> QED BY <1>3, <2>1, <2>2, ObjectByDomain
<1>8. PICK st2, r, y : Performs(h, st, st2, "S", "rot", rec, r, y)
    <2>1. /\ plans' = plans /\ api' = api /\ Doing("S", "rot")
          /\ me' = [me EXCEPT !["S"] = [rec EXCEPT !.todo = Tail(@)]]
        BY <1>5 DEF Returns
    <2>2. rec.todo = me["S"].todo /\ rec.cnt = me["S"].cnt
        BY <1>1, <1>7 DEF Fields
    <2> QED BY <1>5, <1>7, <2>1, <2>2, Performed
<1>9. PICK k : k = st["S"]
    OBVIOUS
<1>10. PICK n : n = o.cnt
    OBVIOUS
<1>11. k = 7 /\ n \in 1..Len(plans) /\ st2["S"] = Upon(plans[n], 7) /\ InPlan(plans[n], 7)
       /\ plans[n] \in Plans /\ api = "rot"
    BY <1>1, <1>5, <1>6, <1>8, <1>9, <1>10, WhichStage DEF Performs
<1>12. ~Sends(plans[n], "S", k) /\ ~Receives(plans[n], "S", k)
    BY <1>11 DEF Sends, Receives
<1>13. Carries(st, "S", ms)
    <2>1. IsSeq(ms) /\ Len(ms) = Counted(Sends(plans[n], "S", k))
        BY <1>4, <1>12, Empty DEF Counted
    <2> QED BY <1>1, <1>5, <1>9, <1>10, <1>12, <2>1, ReturnsOne
<1>14. /\ r.start = o.start /\ r.gid = o.gid + Batched(plans[o.cnt].use) /\ r.epoch = o.epoch
       /\ r.pos = o.pos /\ r.isSet = o.isSet /\ r.len = o.len /\ r.rows = o.rows
       /\ r.isSetup = o.isSetup /\ r.item = o.item /\ r.out = Append(o.out, z) /\ r.s = o.s
       /\ r.bb = o.bb /\ r.k = o.k /\ r.a = o.a /\ r.r = o.r /\ r.A = o.A
       /\ r.cnt = n /\ r = me'["S"]
    BY <1>7, <1>8, <1>10 DEF Performs, Fields
<1>15. PICK x : x = At(h, st, "S")
    OBVIOUS
<1>16. /\ DataAt(o, x) /\ Moved(x, y, n, plans[n], "S", 7) /\ x \in Places /\ n \in Nat /\ n > 0
       /\ IsSeq(o.out) /\ Len(o.out) = n - Counted(7 <= 7) /\ (st2["S"] <= 7 <=> 7 < 7)
       /\ x = PlaceAt(h[n], n, plans[n], "S", 7) /\ h[n] \in Places
       /\ plans' = plans /\ api' = api
    BY <1>1, <1>5, <1>8, <1>9, <1>10, <1>11, <1>15 DEF Performs, Returns
<1>17. DataAt(r, y)
    <2>1. DOMAIN r.rows = 0..(r.len - 1)
        BY <1>14, <1>16 DEF DataAt
    <2>2. FieldsMoved(r, o, n, plans[n], "S", k)
        BY <1>11, <1>14, <2>1, <1>10 DEF FieldsMoved
    <2>3. Moved(x, y, n, plans[n], "S", k) /\ (k = 5 => api = "not")
        BY <1>11, <1>16 DEF InPlan
    <2> QED BY <1>6, <1>16, <2>2, <2>3, DataMoves
<1>18. DataOfS(st2, y)'
    <2>1. y.pre = x.pre /\ y.of = x.of /\ y.first = x.first /\ y.epoch = x.epoch
        BY <1>16 DEF Moved
    <2>2. /\ st["S"] \in 3..4 <=> st2["S"] \in 3..4
          /\ st2["S"] = 4 => st["S"] = 4
          /\ ~(st["S"] \in 3..6)
        BY <1>9, <1>11 DEF Upon
    <2>3. r.s = S.s /\ r.rows = S.rows /\ r.len = S.len /\ r.k = S.k /\ r.bb = S.bb /\ r.cnt = S.cnt
        BY <1>1, <1>10, <1>14 DEF S
    <2>4. plans' = plans /\ r = me'["S"] /\ DataOfS(st, x)
        BY <1>6, <1>14, <1>15, <1>16
    <2> QED BY <2>1, <2>2, <2>3, <2>4, SameRowsOfS
<1>19. Outputs(h, st2)'
    <2>1. Method(st, st2, "S") /\ Peer("S") = "R"
        BY <1>8 DEF Performs, Peer
    <2> QED BY <1>6, <2>1, OutputsKept DEF Method
<1>20. IsSeq(r.out) /\ Len(r.out) = r.cnt - Counted(st2["S"] <= 7)
    <2>1. IsSeq(Append(o.out, z)) /\ Len(Append(o.out, z)) = Len(o.out) + 1
        BY <1>16, Appended
    <2>2. Counted(7 <= 7) = 1 /\ Counted(st2["S"] <= 7) = 0
        BY <1>16 DEF Counted
    <2> QED BY <1>14, <1>16, <2>1, <2>2
<1>21. Fresh(h, st, st2, "S", ms)
    BY <1>1, <1>9, <1>10, <1>12, FreshNone
<1> QED BY <1>5, <1>8, <1>13, <1>21, <1>17, <1>18, <1>19, <1>20, Done

LEMMA RRotKeeps ==
    ASSUME NEW h, NEW st, AllHold(h, st), RRot
    PROVE  \E st2 : AllHold(h, st2)'
<1>1. PICK o : o = me["R"]
    OBVIOUS
<1>2. PICK z : Prepared("R") /\ Returns("R", "rot", Ending("R", z), <<>>)
    BY DEF RRot
<1>3. PICK rec : rec = [o EXCEPT !.gid = o.gid + Batched(plans[o.cnt].use), !.out = Append(o.out, z)]
    OBVIOUS
<1>4. PICK ms : ms = <<>>
    OBVIOUS
<1>5. Returns("R", "rot", rec, ms) /\ "R" \in Party
    BY <1>1, <1>2, <1>3, <1>4 DEF Ending, Party, R, KeysUsed, Batched, PlanOf
<1>6. api \in Kinds /\ IsObject(o) /\ Outputs(h, st) /\ History(h) /\ Asked(h)
      /\ DataOfR(At(h, st, "R"))
    BY <1>1, <1>5 DEF AllHold, Kinds, Objects
<1>7. IsObject(rec) /\ rec.gid = o.gid + Batched(plans[o.cnt].use) /\ rec.out = Append(o.out, z)
      /\ \A f \in Fields \ {"gid", "out"} : rec[f] = o[f]
    <2>1. o = [f \in Fields |-> o[f]] /\ "gid" \in Fields /\ "out" \in Fields
        BY <1>6 DEF IsObject, Fields
    <2>2. rec = [f \in Fields |-> rec[f]]
        BY <1>3, <2>1
    <2> QED BY <1>3, <2>1, <2>2, ObjectByDomain
<1>8. PICK st2, r, y : Performs(h, st, st2, "R", "rot", rec, r, y)
    <2>1. /\ plans' = plans /\ api' = api /\ Doing("R", "rot")
          /\ me' = [me EXCEPT !["R"] = [rec EXCEPT !.todo = Tail(@)]]
        BY <1>5 DEF Returns
    <2>2. rec.todo = me["R"].todo /\ rec.cnt = me["R"].cnt
        BY <1>1, <1>7 DEF Fields
    <2> QED BY <1>5, <1>7, <2>1, <2>2, Performed
<1>9. PICK k : k = st["R"]
    OBVIOUS
<1>10. PICK n : n = o.cnt
    OBVIOUS
<1>11. k = 7 /\ n \in 1..Len(plans) /\ st2["R"] = Upon(plans[n], 7) /\ InPlan(plans[n], 7)
       /\ plans[n] \in Plans /\ api = "rot"
    BY <1>1, <1>5, <1>6, <1>8, <1>9, <1>10, WhichStage DEF Performs
<1>12. ~Sends(plans[n], "R", k) /\ ~Receives(plans[n], "R", k)
    BY <1>11 DEF Sends, Receives
<1>13. Carries(st, "R", ms)
    <2>1. IsSeq(ms) /\ Len(ms) = Counted(Sends(plans[n], "R", k))
        BY <1>4, <1>12, Empty DEF Counted
    <2> QED BY <1>1, <1>5, <1>9, <1>10, <1>12, <2>1, ReturnsOne
<1>14. /\ r.start = o.start /\ r.gid = o.gid + Batched(plans[o.cnt].use) /\ r.epoch = o.epoch
       /\ r.pos = o.pos /\ r.isSet = o.isSet /\ r.len = o.len /\ r.rows = o.rows
       /\ r.isSetup = o.isSetup /\ r.item = o.item /\ r.out = Append(o.out, z) /\ r.s = o.s
       /\ r.bb = o.bb /\ r.k = o.k /\ r.a = o.a /\ r.r = o.r /\ r.A = o.A
       /\ r.cnt = n /\ r = me'["R"]
    BY <1>7, <1>8, <1>10 DEF Performs, Fields
<1>15. PICK x : x = At(h, st, "R")
    OBVIOUS
<1>16. /\ DataAt(o, x) /\ Moved(x, y, n, plans[n], "R", 7) /\ x \in Places /\ n \in Nat /\ n > 0
       /\ IsSeq(o.out) /\ Len(o.out) = n - Counted(7 <= 7) /\ (st2["R"] <= 7 <=> 7 < 7)
       /\ x = PlaceAt(h[n], n, plans[n], "R", 7) /\ h[n] \in Places
       /\ plans' = plans /\ api' = api
    BY <1>1, <1>5, <1>8, <1>9, <1>10, <1>11, <1>15 DEF Performs, Returns
<1>17. x.pre > 0 /\ x.start > 0
    <2>1. o.isSet /\ o.start # 0
        BY <1>1, <1>2 DEF Prepared
    <2> QED BY <1>16, <2>1 DEF DataAt, Places
<1>18. h[n + 1].pre = x.pre
    <2>1. PICK q : q = h[n + 1]
        OBVIOUS
    <2>2. x = PlaceAt(h[n], n, plans[n], "R", k) /\ k \in {7, 8}
        BY <1>11, <1>16
    <2>3. n \in 1..Len(plans) /\ "R" \in Party
        BY <1>5, <1>11
    <2>4. q.pre = x.pre
        BY <1>6, <2>1, <2>2, <2>3, LatePlace
    <2> QED BY <2>1, <2>4
<1>19. DataAt(r, y)
    <2>1. DOMAIN r.rows = 0..(r.len - 1)
        BY <1>14, <1>16 DEF DataAt
    <2>2. FieldsMoved(r, o, n, plans[n], "R", k)
        BY <1>11, <1>14, <2>1, <1>10 DEF FieldsMoved
    <2>3. Moved(x, y, n, plans[n], "R", k) /\ (k = 5 => api = "not")
        BY <1>11, <1>16 DEF InPlan
    <2> QED BY <1>6, <1>16, <2>2, <2>3, DataMoves
<1>20. DataOfR(y)'
    <2>1. y.pre = x.pre /\ y.of = x.of /\ y.first = x.first
        BY <1>16 DEF Moved
    <2>2. r.r = R.r /\ r.rows = R.rows /\ r.len = R.len
        BY <1>1, <1>14 DEF R
    <2> QED BY <1>6, <1>14, <1>15, <1>16, <2>1, <2>2, SameRowsOfR
<1>21. Outputs(h, st2)'
    <2>1. st["R"] = 7 /\ st2["R"] \in {8, 9} /\ (st2["R"] = 8 <=> api = "not")
        BY <1>9, <1>11 DEF Upon
    <2>2. R = o /\ R' = r /\ Len(o.out) = n - 1
        BY <1>1, <1>14, <1>16 DEF R, Counted
    <2>3. h[n + 1].pre > 0
        BY <1>18, <1>17
    <2>4. R.cnt = n /\ IsSeq(R.out) /\ Len(R.out) = n - 1 /\ R'.out = Append(R.out, z) /\ R'.cnt = n
        BY <1>10, <1>14, <1>16, <2>2
    <2> QED BY <1>6, <1>11, <1>16, <2>1, <2>3, <2>4, OutputsAppended
<1>22. IsSeq(r.out) /\ Len(r.out) = r.cnt - Counted(st2["R"] <= 7)
    <2>1. IsSeq(Append(o.out, z)) /\ Len(Append(o.out, z)) = Len(o.out) + 1
        BY <1>16, Appended
    <2>2. Counted(7 <= 7) = 1 /\ Counted(st2["R"] <= 7) = 0
        BY <1>16 DEF Counted
    <2> QED BY <1>14, <1>16, <2>1, <2>2
<1>23. Fresh(h, st, st2, "R", ms)
    BY <1>1, <1>9, <1>10, <1>12, FreshNone
<1> QED BY <1>5, <1>8, <1>13, <1>23, <1>19, <1>20, <1>21, <1>22, Done

LEMMA AddedTwice ==
    ASSUME NEW a, NEW d
    PROVE  SymDiff(SymDiff(a, d), d) = a
BY DEF SymDiff

\* What p has at the OT of round n, if it is not refused
LEMMA AtTheOt ==
    ASSUME NEW h, History(h), Asked(h), NEW n \in 1..Len(plans), NEW p \in Party, Prepared(p),
           NEW o, o = me[p], NEW k \in {7}, NEW x, x = PlaceAt(h[n], n, plans[n], p, k), DataAt(o, x),
           NEW z, z = h[n + 1]
    PROVE  /\ z.pre > 0 /\ z.pre = x.pre /\ z.pre \in 1..n /\ plans[z.pre] \in Plans
           /\ o.start = z.start /\ o.gid = h[n].gid /\ o.len = plans[z.pre].len
           /\ plans[n].use \in Nat /\ plans[n].use <= o.len
           /\ \A i \in 0..(plans[n].use - 1) :
                  /\ i \in 0..(o.len - 1) /\ Chosen(z, i) \in BOOLEAN
                  /\ Chosen(z, i) = Chosen(x, i) /\ RowIn(z, i) = RowIn(x, i)
<1>1. /\ z.start = x.start /\ z.pre = x.pre /\ z.of = x.of /\ z.first = x.first
      /\ x.gid = h[n].gid
    <2>1. k \in {7, 8} /\ k = 7
        OBVIOUS
    <2> QED BY <2>1, LatePlace
<1>2. x.pre > 0 /\ o.start = x.start /\ o.gid = x.gid /\ o.len = plans[x.pre].len
    <2>1. o.isSet
        BY DEF Prepared
    <2> QED BY <2>1 DEF DataAt
<1>3. z.pre \in 1..n /\ n \in Nat
    <2>1. n + 1 \in 1..Len(h) /\ Len(plans) \in Nat
        BY HistoryFacts
    <2>2. PlaceOK(z, n + 1)
        BY <2>1, HistoryFacts
    <2> QED BY <1>1, <1>2, <2>1, <2>2 DEF PlaceOK
<1>4. plans[z.pre] \in Plans /\ plans[n] \in Plans
    <2>1. z.pre \in 1..Len(plans)
        BY <1>3, HistoryFacts
    <2> QED BY <2>1, HistoryFacts
<1>5. /\ plans[n].use \in Nat /\ plans[z.pre].len \in Nat
      /\ plans[z.pre].r \in [0..(plans[z.pre].len - 1) -> BOOLEAN]
    BY <1>4, PlanFacts
<1>6. plans[n].use <= plans[z.pre].len
    BY <1>1, <1>2 DEF Asked
<1>7. ASSUME NEW i \in 0..(plans[n].use - 1)
      PROVE  /\ i \in 0..(o.len - 1) /\ Chosen(z, i) \in BOOLEAN
             /\ Chosen(z, i) = Chosen(x, i) /\ RowIn(z, i) = RowIn(x, i)
    <2>1. i \in 0..(plans[z.pre].len - 1)
        BY <1>5, <1>6
    <2>2. Chosen(z, i) \in BOOLEAN
        BY <1>5, <2>1 DEF Chosen
    <2>3. Chosen(z, i) = Chosen(x, i) /\ RowIn(z, i) = RowIn(x, i)
        BY <1>1 DEF Chosen, RowIn
    <2> QED BY <1>1, <1>2, <2>1, <2>2, <2>3
<1> QED BY <1>1, <1>2, <1>3, <1>4, <1>5, <1>6, <1>7

\* Of the two pads of S for a row, R has the one that its bit chooses.
PadBy(o, i, row, side) == [pad |-> Hash(o, row, i), text |-> Text(o, i, side)]
PadsBy(o, n) == [i \in 0..(plans[n].use - 1) |->
    <<PadBy(o, i, o.rows[i], FALSE), PadBy(o, i, SymDiff(o.rows[i], Delta), TRUE)>>]

LEMMA PadsRight ==
    ASSUME NEW h, History(h), Asked(h), NEW n \in 1..Len(plans), "S" \in Party, Prepared("S"),
           NEW o, o = me["S"], NEW k \in {7}, NEW x, x = PlaceAt(h[n], n, plans[n], "S", k),
           DataAt(o, x), o.cnt = n, NEW st, DataOfS(st, x), ~Renews(st),
           NEW m, m = PadsBy(o, n)
    PROVE  GoodPads(h, n, m)
<1>1. PICK z : z = h[n + 1]
    OBVIOUS
<1>2. /\ z.pre > 0 /\ z.pre = x.pre
      /\ o.start = z.start /\ o.gid = h[n].gid
      /\ \A i \in 0..(plans[n].use - 1) :
             /\ i \in 0..(o.len - 1) /\ Chosen(z, i) \in BOOLEAN
             /\ Chosen(z, i) = Chosen(x, i) /\ RowIn(z, i) = RowIn(x, i)
    BY <1>1, AtTheOt
<1>3. \A i \in 0..(o.len - 1) :
          o.rows[i] = IF Chosen(x, i) THEN SymDiff(RowIn(x, i), Delta) ELSE RowIn(x, i)
    BY <1>2 DEF DataOfS, S
<1>4. ASSUME NEW i \in 0..(plans[n].use - 1)
      PROVE  m[i][IF Chosen(z, i) THEN 2 ELSE 1] = PadFor(h, n, i)
    <2>1. m[i] = <<PadBy(o, i, o.rows[i], FALSE), PadBy(o, i, SymDiff(o.rows[i], Delta), TRUE)>>
        BY DEF PadsBy
    <2>2. TextsOf(h, n)[i] = <<IF api = "not" THEN 0 ELSE n, i, Chosen(z, i)>>
        BY <1>1 DEF TextsOf
    <2>3. PICK row : row = RowIn(z, i)
        OBVIOUS
    <2>4. PICK c : c = Chosen(z, i) /\ c \in BOOLEAN
        BY <1>2
    <2>5. o.rows[i] = IF c THEN SymDiff(row, Delta) ELSE row
        BY <1>2, <1>3, <2>3, <2>4
    <2>6. PadFor(h, n, i) = [pad |-> [of |-> row, start |-> z.start, gid |-> h[n].gid + i],
                             text |-> <<IF api = "not" THEN 0 ELSE n, i, c>>]
        BY <1>1, <2>2, <2>3, <2>4 DEF PadFor
    <2>7. PadFor(h, n, i) = PadBy(o, i, row, c)
        BY <1>2, <2>6 DEF PadBy, Hash, Text
    <2>8. CASE c
        <3>1. SymDiff(o.rows[i], Delta) = row /\ c = TRUE
            BY <2>4, <2>5, <2>8, AddedTwice
        <3>2. PadFor(h, n, i) = PadBy(o, i, row, TRUE)
            BY <2>7, <3>1
        <3>3. m[i][2] = PadBy(o, i, row, TRUE)
            BY <2>1, <3>1
        <3>4. (IF Chosen(z, i) THEN 2 ELSE 1) = 2
            BY <2>4, <2>8
        <3> QED BY <3>2, <3>3, <3>4
    <2>9. CASE ~c
        <3>1. o.rows[i] = row /\ c = FALSE
            BY <2>4, <2>5, <2>9
        <3>2. PadFor(h, n, i) = PadBy(o, i, row, FALSE)
            BY <2>7, <3>1
        <3>3. m[i][1] = PadBy(o, i, row, FALSE)
            BY <2>1, <3>1
        <3>4. (IF Chosen(z, i) THEN 2 ELSE 1) = 1
            BY <2>4, <2>9
        <3> QED BY <3>2, <3>3, <3>4
    <2> QED BY <2>4, <2>8, <2>9
<1> QED BY <1>1, <1>2, <1>4 DEF GoodPads

LEMMA SameMessages ==
    ASSUME plans' = plans, api' = api, NEW h
    PROVE  \A n, m : /\ GoodPads(h, n, m)' <=> GoodPads(h, n, m)
                     /\ GoodItems(n, m)' <=> GoodItems(n, m)
                     /\ GoodU(h, n, m)' <=> GoodU(h, n, m)
<1>1. \A n, i : TextsOf(h, n)' = TextsOf(h, n) /\ PadFor(h, n, i)' = PadFor(h, n, i)
                /\ Chosen(h[n + 1], i)' = Chosen(h[n + 1], i)
    BY DEF TextsOf, Chosen, PadFor, RowIn, Row, Drawn, PrgKey
<1>2. \A n, m : GoodPads(h, n, m)' <=> GoodPads(h, n, m)
    BY <1>1 DEF GoodPads
<1>3. \A n, m : GoodItems(n, m)' <=> GoodItems(n, m)
    BY DEF GoodItems, ItemFor, BitOf
<1>4. \A n, m : GoodU(h, n, m)' <=> GoodU(h, n, m)
    BY DEF GoodU, URow, Both, Row, Drawn, PrgKey, One
<1> QED BY <1>2, <1>3, <1>4

LEMMA SOtKeeps ==
    ASSUME NEW h, NEW st, AllHold(h, st), SOt
    PROVE  \E st2 : AllHold(h, st2)'
<1>1. PICK o : o = me["S"]
    OBVIOUS
<1>2. PICK z : Prepared("S") /\ Returns("S", "ot", Ending("S", z), <<PadsBy(o, o.cnt)>>)
    BY <1>1 DEF SOt, PadsBy, PadBy, Used, PlanOf, S
<1>3. PICK rec : rec = [o EXCEPT !.gid = o.gid + Batched(plans[o.cnt].use), !.out = Append(o.out, z)]
    OBVIOUS
<1>4. PICK ms : ms = <<PadsBy(o, o.cnt)>>
    OBVIOUS
<1>5. Returns("S", "ot", rec, ms) /\ "S" \in Party
    BY <1>1, <1>2, <1>3, <1>4 DEF Ending, Party, S, KeysUsed, Batched, PlanOf
<1>6. api \in Kinds /\ IsObject(o) /\ Outputs(h, st) /\ History(h) /\ Asked(h)
      /\ DataOfS(st, At(h, st, "S"))
    BY <1>1, <1>5 DEF AllHold, Kinds, Objects
<1>7. IsObject(rec) /\ rec.gid = o.gid + Batched(plans[o.cnt].use) /\ rec.out = Append(o.out, z)
      /\ \A f \in Fields \ {"gid", "out"} : rec[f] = o[f]
    <2>1. o = [f \in Fields |-> o[f]] /\ "gid" \in Fields /\ "out" \in Fields
        BY <1>6 DEF IsObject, Fields
    <2>2. rec = [f \in Fields |-> rec[f]]
        BY <1>3, <2>1
    <2> QED BY <1>3, <2>1, <2>2, ObjectByDomain
<1>8. PICK st2, r, y : Performs(h, st, st2, "S", "ot", rec, r, y)
    <2>1. /\ plans' = plans /\ api' = api /\ Doing("S", "ot")
          /\ me' = [me EXCEPT !["S"] = [rec EXCEPT !.todo = Tail(@)]]
        BY <1>5 DEF Returns
    <2>2. rec.todo = me["S"].todo /\ rec.cnt = me["S"].cnt
        BY <1>1, <1>7 DEF Fields
    <2> QED BY <1>5, <1>7, <2>1, <2>2, Performed
<1>9. PICK k : k = st["S"]
    OBVIOUS
<1>10. PICK n : n = o.cnt
    OBVIOUS
<1>11. k = 7 /\ n \in 1..Len(plans) /\ st2["S"] = Upon(plans[n], 7) /\ InPlan(plans[n], 7)
       /\ plans[n] \in Plans /\ api # "rot"
    BY <1>1, <1>5, <1>6, <1>8, <1>9, <1>10, WhichStage DEF Performs
<1>12. Sends(plans[n], "S", k) /\ ~Receives(plans[n], "S", k)
    BY <1>11 DEF Sends, Receives
<1>13. Carries(st, "S", ms)
    <2>1. IsSeq(ms) /\ Len(ms) = Counted(Sends(plans[n], "S", k))
        BY <1>4, <1>12, Single DEF Counted
    <2> QED BY <1>1, <1>5, <1>9, <1>10, <1>12, <2>1, ReturnsOne
<1>14. /\ r.start = o.start /\ r.gid = o.gid + Batched(plans[o.cnt].use) /\ r.epoch = o.epoch
       /\ r.pos = o.pos /\ r.isSet = o.isSet /\ r.len = o.len /\ r.rows = o.rows
       /\ r.isSetup = o.isSetup /\ r.item = o.item /\ r.out = Append(o.out, z) /\ r.s = o.s
       /\ r.bb = o.bb /\ r.k = o.k /\ r.a = o.a /\ r.r = o.r /\ r.A = o.A
       /\ r.cnt = n /\ r = me'["S"]
    BY <1>7, <1>8, <1>10 DEF Performs, Fields
<1>15. PICK x : x = At(h, st, "S")
    OBVIOUS
<1>16. /\ DataAt(o, x) /\ Moved(x, y, n, plans[n], "S", 7) /\ x \in Places /\ n \in Nat /\ n > 0
       /\ IsSeq(o.out) /\ Len(o.out) = n - Counted(7 <= 7) /\ (st2["S"] <= 7 <=> 7 < 7)
       /\ x = PlaceAt(h[n], n, plans[n], "S", 7) /\ h[n] \in Places
       /\ plans' = plans /\ api' = api
    BY <1>1, <1>5, <1>8, <1>9, <1>10, <1>11, <1>15 DEF Performs, Returns
<1>17. ~Renews(st) /\ k \in {7}
    BY <1>9, <1>11 DEF Renews
<1>18. DataAt(r, y)
    <2>1. DOMAIN r.rows = 0..(r.len - 1)
        BY <1>14, <1>16 DEF DataAt
    <2>2. FieldsMoved(r, o, n, plans[n], "S", k)
        BY <1>11, <1>14, <2>1, <1>10 DEF FieldsMoved
    <2>3. Moved(x, y, n, plans[n], "S", k) /\ (k = 5 => api = "not")
        BY <1>11, <1>16 DEF InPlan
    <2> QED BY <1>6, <1>16, <2>2, <2>3, DataMoves
<1>19. DataOfS(st2, y)'
    <2>1. y.pre = x.pre /\ y.of = x.of /\ y.first = x.first /\ y.epoch = x.epoch
        BY <1>16 DEF Moved
    <2>2. /\ st["S"] \in 3..4 <=> st2["S"] \in 3..4
          /\ st2["S"] = 4 => st["S"] = 4
          /\ ~(st["S"] \in 3..6)
        BY <1>9, <1>11 DEF Upon
    <2>3. r.s = S.s /\ r.rows = S.rows /\ r.len = S.len /\ r.k = S.k /\ r.bb = S.bb /\ r.cnt = S.cnt
        BY <1>1, <1>10, <1>14 DEF S
    <2>4. plans' = plans /\ r = me'["S"] /\ DataOfS(st, x)
        BY <1>6, <1>14, <1>15, <1>16
    <2> QED BY <2>1, <2>2, <2>3, <2>4, SameRowsOfS
<1>20. Outputs(h, st2)'
    <2>1. Method(st, st2, "S") /\ Peer("S") = "R"
        BY <1>8 DEF Performs, Peer
    <2> QED BY <1>6, <2>1, OutputsKept DEF Method
<1>21. IsSeq(r.out) /\ Len(r.out) = r.cnt - Counted(st2["S"] <= 7)
    <2>1. IsSeq(Append(o.out, z)) /\ Len(Append(o.out, z)) = Len(o.out) + 1
        BY <1>16, Appended
    <2>2. Counted(7 <= 7) = 1 /\ Counted(st2["S"] <= 7) = 0
        BY <1>16 DEF Counted
    <2> QED BY <1>14, <1>16, <2>1, <2>2
<1>22. Fresh(h, st, st2, "S", ms)
    <2>1. PICK m : m = ms[1]
        OBVIOUS
    <2>2. m = PadsBy(o, n)
        BY <1>4, <1>10, <2>1, Single
    <2>3. o.cnt = n /\ x = PlaceAt(h[n], n, plans[n], "S", k)
        BY <1>10, <1>11, <1>16
    <2>4. DataAt(o, x) /\ Prepared("S") /\ "S" \in Party /\ n \in 1..Len(plans) /\ DataOfS(st, x)
        BY <1>2, <1>5, <1>6, <1>11, <1>15, <1>16
    <2>5. GoodPads(h, n, m)
        BY <1>1, <1>6, <1>17, <2>2, <2>3, <2>4, PadsRight
    <2>6. GoodPads(h, n, m)'
        BY <1>16, <2>5, SameMessages
    <2>7. Good(h, st2, "S", n, k, m)'
        BY <1>11, <2>6 DEF Good
    <2> QED BY <1>1, <1>9, <1>10, <2>1, <2>7, FreshOne
<1> QED BY <1>5, <1>8, <1>13, <1>22, <1>18, <1>19, <1>20, <1>21, Done

LEMMA SNotKeeps ==
    ASSUME NEW h, NEW st, AllHold(h, st), SNot
    PROVE  \E st2 : AllHold(h, st2)'
<1>1. PICK o : o = me["S"]
    OBVIOUS
<1>2. PICK rec : rec = o
    OBVIOUS
<1>3. PICK ms : ms = <<[i \in 0..(plans[o.cnt].items - 1) |-> ItemFor(o.cnt, i)]>>
    OBVIOUS
<1>4. Returns("S", "not", rec, ms) /\ "S" \in Party
    BY <1>1, <1>2, <1>3 DEF SNot, Party, S, S, Used, ItemFor, PlanOf
<1>5. api \in Kinds /\ IsObject(o) /\ Outputs(h, st) /\ History(h) /\ Asked(h)
      /\ DataOfS(st, At(h, st, "S"))
    BY <1>1, <1>4 DEF AllHold, Kinds, Objects
<1>6. IsObject(rec)
      /\ \A f \in Fields \ {} : rec[f] = o[f]
    BY <1>2, <1>5
<1>7. PICK st2, r, y : Performs(h, st, st2, "S", "not", rec, r, y)
    <2>1. /\ plans' = plans /\ api' = api /\ Doing("S", "not")
          /\ me' = [me EXCEPT !["S"] = [rec EXCEPT !.todo = Tail(@)]]
        BY <1>4 DEF Returns
    <2>2. rec.todo = me["S"].todo /\ rec.cnt = me["S"].cnt
        BY <1>1, <1>6 DEF Fields
    <2> QED BY <1>4, <1>6, <2>1, <2>2, Performed
<1>8. PICK k : k = st["S"]
    OBVIOUS
<1>9. PICK n : n = o.cnt
    OBVIOUS
<1>10. k = 8 /\ n \in 1..Len(plans) /\ st2["S"] = Upon(plans[n], 8) /\ InPlan(plans[n], 8)
       /\ plans[n] \in Plans /\ api = "not"
    BY <1>1, <1>4, <1>5, <1>7, <1>8, <1>9, WhichStage DEF Performs, InPlan
<1>11. Sends(plans[n], "S", k) /\ ~Receives(plans[n], "S", k)
    BY <1>10 DEF Sends, Receives
<1>12. Carries(st, "S", ms)
    <2>1. IsSeq(ms) /\ Len(ms) = Counted(Sends(plans[n], "S", k))
        BY <1>3, <1>11, Single DEF Counted
    <2> QED BY <1>1, <1>4, <1>8, <1>9, <1>11, <2>1, ReturnsOne
<1>13. /\ r.start = o.start /\ r.gid = o.gid /\ r.epoch = o.epoch /\ r.pos = o.pos
       /\ r.isSet = o.isSet /\ r.len = o.len /\ r.rows = o.rows /\ r.isSetup = o.isSetup
       /\ r.item = o.item /\ r.out = o.out /\ r.s = o.s /\ r.bb = o.bb /\ r.k = o.k /\ r.a = o.a
       /\ r.r = o.r /\ r.A = o.A
       /\ r.cnt = n /\ r = me'["S"]
    BY <1>6, <1>7, <1>9 DEF Performs, Fields
<1>14. PICK x : x = At(h, st, "S")
    OBVIOUS
<1>15. /\ DataAt(o, x) /\ Moved(x, y, n, plans[n], "S", 8) /\ x \in Places /\ n \in Nat /\ n > 0
       /\ IsSeq(o.out) /\ Len(o.out) = n - Counted(8 <= 7) /\ (st2["S"] <= 7 <=> 8 < 7)
       /\ x = PlaceAt(h[n], n, plans[n], "S", 8) /\ h[n] \in Places
       /\ plans' = plans /\ api' = api
    BY <1>1, <1>4, <1>7, <1>8, <1>9, <1>10, <1>14 DEF Performs, Returns
<1>16. DataAt(r, y)
    <2>1. DOMAIN r.rows = 0..(r.len - 1)
        BY <1>13, <1>15 DEF DataAt
    <2>2. FieldsMoved(r, o, n, plans[n], "S", k)
        BY <1>10, <1>13, <2>1 DEF FieldsMoved
    <2>3. Moved(x, y, n, plans[n], "S", k) /\ (k = 5 => api = "not")
        BY <1>10, <1>15 DEF InPlan
    <2> QED BY <1>5, <1>15, <2>2, <2>3, DataMoves
<1>17. DataOfS(st2, y)'
    <2>1. y.pre = x.pre /\ y.of = x.of /\ y.first = x.first /\ y.epoch = x.epoch
        BY <1>15 DEF Moved
    <2>2. /\ st["S"] \in 3..4 <=> st2["S"] \in 3..4
          /\ st2["S"] = 4 => st["S"] = 4
          /\ ~(st["S"] \in 3..6)
        BY <1>8, <1>10 DEF Upon
    <2>3. r.s = S.s /\ r.rows = S.rows /\ r.len = S.len /\ r.k = S.k /\ r.bb = S.bb /\ r.cnt = S.cnt
        BY <1>1, <1>9, <1>13 DEF S
    <2>4. plans' = plans /\ r = me'["S"] /\ DataOfS(st, x)
        BY <1>5, <1>13, <1>14, <1>15
    <2> QED BY <2>1, <2>2, <2>3, <2>4, SameRowsOfS
<1>18. Outputs(h, st2)'
    <2>1. Method(st, st2, "S") /\ Peer("S") = "R"
        BY <1>7 DEF Performs, Peer
    <2> QED BY <1>5, <2>1, OutputsKept DEF Method
<1>19. IsSeq(r.out) /\ Len(r.out) = r.cnt - Counted(st2["S"] <= 7)
    BY <1>13, <1>15 DEF Counted
<1>20. Fresh(h, st, st2, "S", ms)
    <2>1. PICK m : m = ms[1]
        OBVIOUS
    <2>2. m = [i \in 0..(plans[n].items - 1) |-> ItemFor(n, i)]
        BY <1>3, <1>9, <2>1, Single
    <2>3. GoodItems(n, m)
        BY <2>2 DEF GoodItems
    <2>4. GoodItems(n, m)'
        BY <1>15, <2>3, SameMessages
    <2>5. Good(h, st2, "S", n, k, m)'
        BY <1>10, <2>4 DEF Good
    <2> QED BY <1>1, <1>8, <1>9, <2>1, <2>5, FreshOne
<1> QED BY <1>4, <1>7, <1>12, <1>20, <1>16, <1>17, <1>18, <1>19, Done

\* R opens the pads with its rows.
Opened(o, g, i) ==
    LET res == g[i][IF o.r[i] THEN 2 ELSE 1]
    IN  IF res.pad = Hash(o, o.rows[i], i) THEN res.text ELSE <<>>

LEMMA TextsRight ==
    ASSUME NEW h, History(h), Asked(h), NEW n \in 1..Len(plans), "R" \in Party, Prepared("R"),
           NEW o, o = me["R"], NEW k \in {7}, NEW x, x = PlaceAt(h[n], n, plans[n], "R", k),
           DataAt(o, x), DataOfR(x), NEW g, GoodPads(h, n, g)
    PROVE  [i \in 0..(plans[n].use - 1) |-> Opened(o, g, i)] = TextsOf(h, n)
<1>1. PICK z : z = h[n + 1]
    OBVIOUS
<1>2. /\ z.pre > 0 /\ z.pre = x.pre
      /\ o.start = z.start /\ o.gid = h[n].gid
      /\ \A i \in 0..(plans[n].use - 1) :
             /\ i \in 0..(o.len - 1) /\ Chosen(z, i) \in BOOLEAN
             /\ Chosen(z, i) = Chosen(x, i) /\ RowIn(z, i) = RowIn(x, i)
    BY <1>1, AtTheOt
<1>3. o.r = plans[x.pre].r /\ \A i \in 0..(o.len - 1) : o.rows[i] = RowIn(x, i)
    BY <1>2 DEF DataOfR, R
<1>4. ASSUME NEW i \in 0..(plans[n].use - 1)
      PROVE  Opened(o, g, i) = TextsOf(h, n)[i]
    <2>1. PICK res : res = g[i][IF Chosen(z, i) THEN 2 ELSE 1]
        OBVIOUS
    <2>2. res = PadFor(h, n, i)
        BY <1>1, <2>1 DEF GoodPads
    <2>3. res.pad = [of |-> RowIn(z, i), start |-> z.start, gid |-> h[n].gid + i]
          /\ res.text = TextsOf(h, n)[i]
        BY <1>1, <2>2 DEF PadFor
    <2>4. Hash(o, o.rows[i], i) = [of |-> RowIn(z, i), start |-> z.start, gid |-> h[n].gid + i]
        BY <1>2, <1>3 DEF Hash
    <2>5. o.r[i] = Chosen(z, i)
        BY <1>2, <1>3 DEF Chosen
    <2>6. Opened(o, g, i) = IF res.pad = Hash(o, o.rows[i], i) THEN res.text ELSE <<>>
        BY <2>1, <2>5 DEF Opened
    <2> QED BY <2>3, <2>4, <2>6
<1> QED BY <1>4 DEF TextsOf

LEMMA ROtKeeps ==
    ASSUME NEW h, NEW st, AllHold(h, st), ROt
    PROVE  \E st2 : AllHold(h, st2)'
<1>1. PICK o : o = me["R"]
    OBVIOUS
<1>2. PICK g : g = Head(mail["R"])
    OBVIOUS
<1>3. PICK z : /\ Prepared("R") /\ Takes("R", "ot", Ending("R", z), <<>>)
                /\ z = [i \in 0..(plans[o.cnt].use - 1) |-> Opened(o, g, i)]
    BY <1>1, <1>2 DEF ROt, Opened, Given, PlanOf, R
<1>4. PICK rec : rec = [o EXCEPT !.gid = o.gid + Batched(plans[o.cnt].use), !.out = Append(o.out, z)]
    OBVIOUS
<1>5. PICK ms : ms = <<>>
    OBVIOUS
<1>6. Takes("R", "ot", rec, ms) /\ "R" \in Party
    BY <1>1, <1>2, <1>3, <1>4, <1>5 DEF Ending, Party, R, Given, KeysUsed, Batched, PlanOf
<1>7. api \in Kinds /\ IsObject(o) /\ Outputs(h, st) /\ History(h) /\ Asked(h)
      /\ DataOfR(At(h, st, "R"))
    BY <1>1, <1>6 DEF AllHold, Kinds, Objects
<1>8. IsObject(rec) /\ rec.gid = o.gid + Batched(plans[o.cnt].use) /\ rec.out = Append(o.out, z)
      /\ \A f \in Fields \ {"gid", "out"} : rec[f] = o[f]
    <2>1. o = [f \in Fields |-> o[f]] /\ "gid" \in Fields /\ "out" \in Fields
        BY <1>7 DEF IsObject, Fields
    <2>2. rec = [f \in Fields |-> rec[f]]
        BY <1>4, <2>1
    <2> QED BY <1>4, <2>1, <2>2, ObjectByDomain
<1>9. PICK st2, r, y : Performs(h, st, st2, "R", "ot", rec, r, y)
    <2>1. /\ plans' = plans /\ api' = api /\ Doing("R", "ot")
          /\ me' = [me EXCEPT !["R"] = [rec EXCEPT !.todo = Tail(@)]]
        BY <1>6 DEF Takes
    <2>2. rec.todo = me["R"].todo /\ rec.cnt = me["R"].cnt
        BY <1>1, <1>8 DEF Fields
    <2> QED BY <1>6, <1>8, <2>1, <2>2, Performed
<1>10. PICK k : k = st["R"]
    OBVIOUS
<1>11. PICK n : n = o.cnt
    OBVIOUS
<1>12. k = 7 /\ n \in 1..Len(plans) /\ st2["R"] = Upon(plans[n], 7) /\ InPlan(plans[n], 7)
       /\ plans[n] \in Plans /\ api # "rot"
    BY <1>1, <1>6, <1>7, <1>9, <1>10, <1>11, WhichStage DEF Performs
<1>13. ~Sends(plans[n], "R", k) /\ Receives(plans[n], "R", k)
    BY <1>12 DEF Sends, Receives
<1>14. Carries(st, "R", ms)
    <2>1. IsSeq(ms) /\ Len(ms) = Counted(Sends(plans[n], "R", k))
        BY <1>5, <1>13, Empty DEF Counted
    <2> QED BY <1>1, <1>6, <1>10, <1>11, <1>13, <2>1, TakesOne
<1>15. /\ r.start = o.start /\ r.gid = o.gid + Batched(plans[o.cnt].use) /\ r.epoch = o.epoch
       /\ r.pos = o.pos /\ r.isSet = o.isSet /\ r.len = o.len /\ r.rows = o.rows
       /\ r.isSetup = o.isSetup /\ r.item = o.item /\ r.out = Append(o.out, z) /\ r.s = o.s
       /\ r.bb = o.bb /\ r.k = o.k /\ r.a = o.a /\ r.r = o.r /\ r.A = o.A
       /\ r.cnt = n /\ r = me'["R"]
    BY <1>8, <1>9, <1>11 DEF Performs, Fields
<1>16. PICK x : x = At(h, st, "R")
    OBVIOUS
<1>17. /\ DataAt(o, x) /\ Moved(x, y, n, plans[n], "R", 7) /\ x \in Places /\ n \in Nat /\ n > 0
       /\ IsSeq(o.out) /\ Len(o.out) = n - Counted(7 <= 7) /\ (st2["R"] <= 7 <=> 7 < 7)
       /\ x = PlaceAt(h[n], n, plans[n], "R", 7) /\ h[n] \in Places
       /\ plans' = plans /\ api' = api
    BY <1>1, <1>6, <1>9, <1>10, <1>11, <1>12, <1>16 DEF Performs, Takes
<1>18. Good(h, st, "S", n, 7, g)
    <2>1. mail["R"] # <<>> /\ PartnerOf("R", k) = 7 /\ Peer("R") = "S" /\ k \in 1..8
        BY <1>6, <1>12 DEF Takes, PartnerOf, Peer
    <2> QED BY <1>1, <1>6, <1>10, <1>11, <1>12, <1>13, <1>2, <2>1, Heads
<1>19. x.pre > 0 /\ x.start > 0
    <2>1. o.isSet /\ o.start # 0
        BY <1>1, <1>3 DEF Prepared
    <2> QED BY <1>17, <2>1 DEF DataAt, Places
<1>20. h[n + 1].pre = x.pre
    <2>1. PICK q : q = h[n + 1]
        OBVIOUS
    <2>2. x = PlaceAt(h[n], n, plans[n], "R", k) /\ k \in {7, 8}
        BY <1>12, <1>17
    <2>3. n \in 1..Len(plans) /\ "R" \in Party
        BY <1>6, <1>12
    <2>4. q.pre = x.pre
        BY <1>7, <2>1, <2>2, <2>3, LatePlace
    <2> QED BY <2>1, <2>4
<1>21. z = TextsOf(h, n)
    <2>1. k \in {7} /\ x = PlaceAt(h[n], n, plans[n], "R", k)
        BY <1>12, <1>17
    <2>2. GoodPads(h, n, g)
        BY <1>18 DEF Good
    <2>3. DataAt(o, x) /\ DataOfR(x) /\ Prepared("R") /\ "R" \in Party /\ n \in 1..Len(plans)
        BY <1>3, <1>6, <1>7, <1>12, <1>16, <1>17
    <2>4. [i \in 0..(plans[n].use - 1) |-> Opened(o, g, i)] = TextsOf(h, n)
        BY <1>1, <1>7, <2>1, <2>2, <2>3, TextsRight
    <2> QED BY <1>3, <1>11, <2>4
<1>22. DataAt(r, y)
    <2>1. DOMAIN r.rows = 0..(r.len - 1)
        BY <1>15, <1>17 DEF DataAt
    <2>2. FieldsMoved(r, o, n, plans[n], "R", k)
        BY <1>12, <1>15, <2>1, <1>11 DEF FieldsMoved
    <2>3. Moved(x, y, n, plans[n], "R", k) /\ (k = 5 => api = "not")
        BY <1>12, <1>17 DEF InPlan
    <2> QED BY <1>7, <1>17, <2>2, <2>3, DataMoves
<1>23. DataOfR(y)'
    <2>1. y.pre = x.pre /\ y.of = x.of /\ y.first = x.first
        BY <1>17 DEF Moved
    <2>2. r.r = R.r /\ r.rows = R.rows /\ r.len = R.len
        BY <1>1, <1>15 DEF R
    <2> QED BY <1>7, <1>15, <1>16, <1>17, <2>1, <2>2, SameRowsOfR
<1>24. Outputs(h, st2)'
    <2>1. st["R"] = 7 /\ st2["R"] \in {8, 9} /\ (st2["R"] = 8 <=> api = "not")
        BY <1>10, <1>12 DEF Upon
    <2>2. R = o /\ R' = r /\ Len(o.out) = n - 1
        BY <1>1, <1>15, <1>17 DEF R, Counted
    <2>3. h[n + 1].pre > 0
        BY <1>20, <1>19
    <2>4. R.cnt = n /\ IsSeq(R.out) /\ Len(R.out) = n - 1 /\ R'.out = Append(R.out, z) /\ R'.cnt = n
        BY <1>11, <1>15, <1>17, <2>2
    <2> QED BY <1>7, <1>12, <1>17, <1>21, <2>1, <2>3, <2>4, OutputsAppended
<1>25. IsSeq(r.out) /\ Len(r.out) = r.cnt - Counted(st2["R"] <= 7)
    <2>1. IsSeq(Append(o.out, z)) /\ Len(Append(o.out, z)) = Len(o.out) + 1
        BY <1>17, Appended
    <2>2. Counted(7 <= 7) = 1 /\ Counted(st2["R"] <= 7) = 0
        BY <1>17 DEF Counted
    <2> QED BY <1>15, <1>17, <2>1, <2>2
<1>26. Fresh(h, st, st2, "R", ms)
    BY <1>1, <1>10, <1>11, <1>13, FreshNone
<1> QED BY <1>6, <1>9, <1>14, <1>26, <1>22, <1>23, <1>24, <1>25, Done

\* R opens the item that it has chosen.
ItemOf(o, g) ==
    LET blocks == o.out[o.cnt]
        sealed == g[o.item]
    IN  IF sealed.key = {blocks[j] : j \in DOMAIN blocks} THEN sealed.item ELSE <<>>

LEMMA ItemRight ==
    ASSUME NEW h, History(h), Asked(h), api = "not", NEW n \in 1..Len(plans), "R" \in Party,
           NEW o, NEW k \in {8}, NEW x, x = PlaceAt(h[n], n, plans[n], "R", k),
           DataAt(o, x), o.cnt = n, h[n + 1].pre > 0, o.out[n] = TextsOf(h, n),
           NEW g, GoodItems(n, g)
    PROVE  ItemOf(o, g) = <<n, plans[h[n + 1].pre].item>>
<1>1. PICK z : z = h[n + 1]
    OBVIOUS
<1>2. z.pre = x.pre /\ z.chosen = x.chosen
    <2>1. k \in {7, 8}
        OBVIOUS
    <2> QED BY <1>1, <2>1, LatePlace
<1>3. z.pre \in 1..n /\ n \in Nat /\ z.chosen = z.pre /\ "pre" \in plans[z.pre].new
    <2>1. n + 1 \in 1..Len(h) /\ Len(plans) \in Nat
        BY HistoryFacts
    <2>2. PlaceOK(z, n + 1)
        BY <1>1, <2>1, HistoryFacts
    <2> QED BY <1>1, <2>1, <2>2 DEF PlaceOK
<1>4. PICK plan : plan = plans[z.pre]
    OBVIOUS
<1>5. z.pre \in 1..Len(plans) /\ plan \in Plans /\ plans[n] \in Plans
    <2>1. z.pre \in 1..Len(plans)
        BY <1>3, HistoryFacts
    <2> QED BY <1>4, <2>1, HistoryFacts
<1>6. "not" \in plan.apis /\ plan.items = plans[n].items /\ plans[n].use <= plan.len
    BY <1>1, <1>4, <1>5 DEF Asked
<1>7. /\ plan.item \in 0..(plan.items - 1)
      /\ \A j \in 0..(plan.len - 1) : plan.r[j] = (plan.item \div 2^j % 2 = 1)
    BY <1>3, <1>4, <1>5, <1>6, PlanAssumption
<1>8. o.item = plan.item
    BY <1>1, <1>2, <1>3, <1>4 DEF DataAt
<1>9. g[o.item] = ItemFor(n, plan.item)
    BY <1>6, <1>7, <1>8 DEF GoodItems
<1>10. plans[n].use \in Nat /\ plan.len \in Nat
    BY <1>5, PlanFacts
<1>11. PICK used : used = 0..(plans[n].use - 1)
    OBVIOUS
<1>12. ASSUME NEW j \in used
       PROVE  o.out[n][j] = <<0, j, BitOf(plan.item, j)>>
    <2>1. j \in 0..(plan.len - 1)
        BY <1>6, <1>10, <1>11
    <2>2. Chosen(z, j) = BitOf(plan.item, j)
        BY <1>4, <1>7, <2>1 DEF Chosen, BitOf
    <2>3. o.out[n][j] = <<0, j, Chosen(z, j)>>
        BY <1>1, <1>11 DEF TextsOf
    <2> QED BY <2>2, <2>3
<1>13. DOMAIN o.out[n] = used
    BY <1>11 DEF TextsOf
<1>14. {o.out[n][j] : j \in DOMAIN o.out[n]} = {<<0, j, BitOf(plan.item, j)>> : j \in used}
    BY <1>12, <1>13
<1>15. /\ ItemFor(n, plan.item).key = {<<0, j, BitOf(plan.item, j)>> : j \in used}
       /\ ItemFor(n, plan.item).item = <<n, plan.item>>
    BY <1>11 DEF ItemFor
<1>16. ItemOf(o, g) = <<n, plan.item>>
    BY <1>9, <1>14, <1>15 DEF ItemOf
<1> QED BY <1>1, <1>4, <1>16

LEMMA RNotKeeps ==
    ASSUME NEW h, NEW st, AllHold(h, st), RNot
    PROVE  \E st2 : AllHold(h, st2)'
<1>1. PICK o : o = me["R"]
    OBVIOUS
<1>2. PICK g : g = Head(mail["R"])
    OBVIOUS
<1>3. PICK z : z = ItemOf(R, Given("R"))
    OBVIOUS
<1>4. Takes("R", "not", [R EXCEPT !.out[R.cnt] = z], <<>>)
    BY <1>3 DEF RNot, ItemOf
<1>5. z = ItemOf(o, g)
    BY <1>1, <1>2, <1>3 DEF R, Given
<1>6. Takes("R", "not", [o EXCEPT !.out[o.cnt] = z], <<>>)
    BY <1>1, <1>4 DEF R
<1>7. PICK rec : rec = [o EXCEPT !.out = [o.out EXCEPT ![o.cnt] = z]]
    OBVIOUS
<1>8. PICK ms : ms = <<>>
    OBVIOUS
<1>9. Takes("R", "not", rec, ms) /\ "R" \in Party
    BY <1>1, <1>2, <1>6, <1>7, <1>8 DEF RNot, Party, R, Given
<1>10. api \in Kinds /\ IsObject(o) /\ Outputs(h, st) /\ History(h) /\ Asked(h)
      /\ DataOfR(At(h, st, "R"))
    BY <1>1, <1>9 DEF AllHold, Kinds, Objects
<1>11. IsObject(rec) /\ rec.out = [o.out EXCEPT ![o.cnt] = z]
      /\ \A f \in Fields \ {"out"} : rec[f] = o[f]
    <2>1. o = [f \in Fields |-> o[f]] /\ "out" \in Fields
        BY <1>10 DEF IsObject, Fields
    <2>2. rec = [f \in Fields |-> rec[f]]
        BY <1>7, <2>1
    <2> QED BY <1>7, <2>1, <2>2, ObjectByDomain
<1>12. PICK st2, r, y : Performs(h, st, st2, "R", "not", rec, r, y)
    <2>1. /\ plans' = plans /\ api' = api /\ Doing("R", "not")
          /\ me' = [me EXCEPT !["R"] = [rec EXCEPT !.todo = Tail(@)]]
        BY <1>9 DEF Takes
    <2>2. rec.todo = me["R"].todo /\ rec.cnt = me["R"].cnt
        BY <1>1, <1>11 DEF Fields
    <2> QED BY <1>9, <1>11, <2>1, <2>2, Performed
<1>13. PICK k : k = st["R"]
    OBVIOUS
<1>14. PICK n : n = o.cnt
    OBVIOUS
<1>15. k = 8 /\ n \in 1..Len(plans) /\ st2["R"] = Upon(plans[n], 8) /\ InPlan(plans[n], 8)
       /\ plans[n] \in Plans /\ api = "not"
    BY <1>1, <1>9, <1>10, <1>12, <1>13, <1>14, WhichStage DEF Performs, InPlan
<1>16. ~Sends(plans[n], "R", k) /\ Receives(plans[n], "R", k)
    BY <1>15 DEF Sends, Receives
<1>17. Carries(st, "R", ms)
    <2>1. IsSeq(ms) /\ Len(ms) = Counted(Sends(plans[n], "R", k))
        BY <1>8, <1>16, Empty DEF Counted
    <2> QED BY <1>1, <1>9, <1>13, <1>14, <1>16, <2>1, TakesOne
<1>18. /\ r.start = o.start /\ r.gid = o.gid /\ r.epoch = o.epoch /\ r.pos = o.pos
       /\ r.isSet = o.isSet /\ r.len = o.len /\ r.rows = o.rows /\ r.isSetup = o.isSetup
       /\ r.item = o.item /\ r.out = [o.out EXCEPT ![o.cnt] = z] /\ r.s = o.s /\ r.bb = o.bb
       /\ r.k = o.k /\ r.a = o.a /\ r.r = o.r /\ r.A = o.A
       /\ r.cnt = n /\ r = me'["R"]
    BY <1>11, <1>12, <1>14 DEF Performs, Fields
<1>19. PICK x : x = At(h, st, "R")
    OBVIOUS
<1>20. /\ DataAt(o, x) /\ Moved(x, y, n, plans[n], "R", 8) /\ x \in Places /\ n \in Nat /\ n > 0
       /\ IsSeq(o.out) /\ Len(o.out) = n - Counted(8 <= 7) /\ (st2["R"] <= 7 <=> 8 < 7)
       /\ x = PlaceAt(h[n], n, plans[n], "R", 8) /\ h[n] \in Places
       /\ plans' = plans /\ api' = api
    BY <1>1, <1>9, <1>12, <1>13, <1>14, <1>15, <1>19 DEF Performs, Takes
<1>21. Good(h, st, "S", n, 8, g)
    <2>1. mail["R"] # <<>> /\ PartnerOf("R", k) = 8 /\ Peer("R") = "S" /\ k \in 1..8
        BY <1>9, <1>15 DEF Takes, PartnerOf, Peer
    <2> QED BY <1>1, <1>9, <1>13, <1>14, <1>15, <1>16, <1>2, <2>1, Heads
<1>22. Len(o.out) = n /\ n \in 1..Len(o.out) /\ R = o /\ R' = r
    BY <1>1, <1>18, <1>20 DEF Counted, R
<1>23. h[n + 1].pre > 0 /\ o.out[n] = TextsOf(h, n)
    BY <1>10, <1>13, <1>14, <1>15, <1>22 DEF Outputs
<1>24. z = <<n, plans[h[n + 1].pre].item>>
    <2>1. k \in {8} /\ x = PlaceAt(h[n], n, plans[n], "R", k)
        BY <1>15, <1>20
    <2>2. GoodItems(n, g)
        BY <1>21 DEF Good
    <2>3. DataAt(o, x) /\ "R" \in Party /\ n \in 1..Len(plans) /\ o.cnt = n /\ api = "not"
        BY <1>9, <1>14, <1>15, <1>20
    <2>4. ItemOf(o, g) = <<n, plans[h[n + 1].pre].item>>
        BY <1>10, <1>23, <2>1, <2>2, <2>3, ItemRight
    <2> QED BY <1>5, <2>4
<1>25. /\ IsSeq(r.out) /\ Len(r.out) = n /\ r.out[n] = z
      /\ \A i \in 1..n : i # n => r.out[i] = o.out[i]
    <2>1. PICK out : out = o.out
        OBVIOUS
    <2>2. r.out = [out EXCEPT ![n] = z]
        BY <1>14, <1>18, <2>1
    <2>3. IsSeq(out) /\ n \in 1..Len(out) /\ Len(out) = n
        BY <1>20, <1>22, <2>1
    <2>4. PICK T : out \in Seq(T)
        BY <2>3 DEF IsSeq
    <2>5. PICK V : V = T \cup {z}
        OBVIOUS
    <2>6. [out EXCEPT ![n] = z] \in Seq(V) /\ Len([out EXCEPT ![n] = z]) = Len(out)
        <3>1. out \in Seq(V) /\ z \in V
            BY <2>4, <2>5
        <3> QED BY <2>3, <3>1
    <2>7. r.out \in Seq(V) /\ Len(r.out) = n
        BY <2>2, <2>3, <2>6
    <2>8. DOMAIN out = 1..n
        BY <2>3, IsSeqOf
    <2>9. r.out[n] = z /\ \A i \in 1..n : i # n => r.out[i] = out[i]
        BY <2>2, <2>3, <2>8
    <2> QED BY <2>1, <2>7, <2>9 DEF IsSeq
<1>26. DataAt(r, y)
    <2>1. DOMAIN r.rows = 0..(r.len - 1)
        BY <1>18, <1>20 DEF DataAt
    <2>2. FieldsMoved(r, o, n, plans[n], "R", k)
        BY <1>15, <1>18, <2>1 DEF FieldsMoved
    <2>3. Moved(x, y, n, plans[n], "R", k) /\ (k = 5 => api = "not")
        BY <1>15, <1>20 DEF InPlan
    <2> QED BY <1>10, <1>20, <2>2, <2>3, DataMoves
<1>27. DataOfR(y)'
    <2>1. y.pre = x.pre /\ y.of = x.of /\ y.first = x.first
        BY <1>20 DEF Moved
    <2>2. r.r = R.r /\ r.rows = R.rows /\ r.len = R.len
        BY <1>1, <1>18 DEF R
    <2> QED BY <1>10, <1>18, <1>19, <1>20, <2>1, <2>2, SameRowsOfR
<1>28. Outputs(h, st2)'
    <2>1. st2["R"] = 9
        BY <1>15 DEF Upon
    <2>2. ASSUME NEW i \in 1..n
          PROVE  h[i + 1].pre > 0 /\ r.out[i] = <<i, plans[h[i + 1].pre].item>>
        <3>1. CASE i = n
            BY <1>23, <1>24, <1>25, <3>1
        <3>2. CASE i # n
            <4>1. h[i + 1].pre > 0 /\ o.out[i] = <<i, plans[h[i + 1].pre].item>>
                BY <1>1, <1>10, <1>14, <1>15, <1>22, <3>2 DEF Outputs
            <4> QED BY <1>25, <3>2, <4>1
        <3> QED BY <3>1, <3>2
    <2>3. \A i \in 1..Len(R'.out) : OutputOf(h, st2, i)'
        <3>1. R' = r /\ r.cnt = n /\ Len(r.out) = n /\ plans' = plans /\ api' = "not"
            <4>1. R' = r
                BY <1>22
            <4>2. r.cnt = n
                BY <1>18
            <4>3. Len(r.out) = n
                BY <1>25
            <4>4. plans' = plans /\ api' = "not"
                BY <1>15, <1>20
            <4> QED BY <4>1, <4>2, <4>3, <4>4
        <3> SUFFICES ASSUME NEW i \in 1..n PROVE OutputOf(h, st2, i)'
            BY <3>1
        <3>2. h[i + 1].pre > 0 /\ r.out[i] = <<i, plans[h[i + 1].pre].item>>
            BY <2>2
        <3> QED BY <2>1, <3>1, <3>2 DEF OutputOf
    <2> QED BY <2>3 DEF Outputs, OutputOf
<1>29. IsSeq(r.out) /\ Len(r.out) = r.cnt - Counted(st2["R"] <= 7)
    <2>1. Counted(st2["R"] <= 7) = 0
        BY <1>20 DEF Counted
    <2> QED BY <1>18, <1>25, <2>1
<1>30. Fresh(h, st, st2, "R", ms)
    BY <1>1, <1>13, <1>14, <1>16, FreshNone
<1> QED BY <1>9, <1>12, <1>17, <1>30, <1>26, <1>27, <1>28, <1>29, Done

\* The rows and the message of recvPre
RowsBy(o, plan) == [i \in 0..(plan.len - 1) |-> Row(o.epoch, 0, o.pos + i)]
UBy(o, plan) ==
    [j \in 0..(Blocks(plan.len) - 1) |-> [k \in 0..(Rounded(BlockLen(plan.len, j)) - 1) |->
        URow(o.epoch, o.pos + j * BlockSize + k, BlockR(plan.r, plan.len, j, k))]]

\* Where the row i is among the blocks
LEMMA BlockOf ==
    ASSUME NEW n \in Nat, NEW i \in 0..(n - 1), NEW j, j = i \div BlockSize, NEW k, k = i % BlockSize
    PROVE  /\ j \in 0..(Blocks(n) - 1) /\ k \in 0..(Rounded(BlockLen(n, j)) - 1)
           /\ j * BlockSize + k = i
<1>1. PICK b : b = BlockSize
    OBVIOUS
<1>2. b \in Nat \ {0} /\ i \in Nat
    BY <1>1, MyOtAssumption
<1>3. j \in Nat /\ k \in 0..(b - 1) /\ i = j * b + k
    BY <1>1, <1>2, Divided
<1>4. j \in 0..(Blocks(n) - 1)
    <2>1. PICK q, m : q = (n + b - 1) \div b /\ m = (n + b - 1) % b
        OBVIOUS
    <2>2. n + b - 1 \in Nat
        BY <1>2
    <2>3. q \in Nat /\ m \in 0..(b - 1) /\ n + b - 1 = q * b + m
        BY <1>2, <2>1, <2>2, Divided
    <2>4. PICK x, y : x = j * b /\ y = q * b /\ x \in Int /\ y \in Int
        BY <1>2, <1>3, <2>3, Distribute
    <2>5. x < y
        <3>1. i = x + k /\ n + b - 1 = y + m /\ i < n
            <4>1. i = x + k
                BY <1>3, <2>4
            <4>2. n + b - 1 = y + m
                BY <2>3, <2>4
            <4>3. i < n
                OBVIOUS
            <4> QED BY <4>1, <4>2, <4>3
        <3>2. k >= 0 /\ m < b /\ k \in Int /\ m \in Int
            BY <1>2, <1>3, <2>3
        <3>3. b \in Int
            BY <1>2
        <3> QED BY <2>4, <3>1, <3>2, <3>3
    <2>6. ~(q < j) /\ q # j
        <3>1. ASSUME q < j
              PROVE  FALSE
            <4>1. q * b + b <= j * b
                BY <1>2, <1>3, <2>3, <3>1, TimesMonotone
            <4> QED BY <1>2, <2>4, <2>5, <4>1
        <3>2. ASSUME q = j
              PROVE  FALSE
            BY <2>4, <2>5, <3>2
        <3> QED BY <3>1, <3>2
    <2>7. Blocks(n) = q
        BY <1>1, <2>1 DEF Blocks
    <2> QED BY <1>3, <2>3, <2>6, <2>7
<1>5. k \in 0..(Rounded(BlockLen(n, j)) - 1)
    <2>1. PICK q, m : q = n \div b /\ m = n % b
        OBVIOUS
    <2>2. q \in Nat /\ m \in 0..(b - 1) /\ n = q * b + m
        BY <1>2, <2>1, Divided
    <2>3. CASE j < q
        <3>1. BlockLen(n, j) = b
            BY <1>1, <2>1, <2>3 DEF BlockLen
        <3>2. Rounded(b) \in Nat /\ Rounded(b) >= b
            BY <1>2, RoundedFacts
        <3>3. k \in 0..(Rounded(b) - 1)
            BY <1>2, <1>3, <3>2
        <3> QED BY <3>1, <3>3
    <2>4. CASE ~(j < q)
        <3>1. j = q
            <4>1. ASSUME q < j
                  PROVE  FALSE
                <5>1. q * b + b <= j * b
                    BY <1>2, <1>3, <2>2, <4>1, TimesMonotone
                <5>2. PICK x, y : x = j * b /\ y = q * b /\ x \in Int /\ y \in Int
                    BY <1>2, <1>3, <2>2, Distribute
                <5> QED BY <1>2, <1>3, <2>2, <5>1, <5>2
            <4> QED BY <1>3, <2>2, <2>4, <4>1
        <3>2. k < m
            <4>1. PICK x : x = j * b /\ x \in Int
                BY <1>2, <1>3, Distribute
            <4> QED BY <1>3, <2>2, <3>1, <4>1
        <3>3. BlockLen(n, j) = m
            BY <1>1, <2>1, <2>4 DEF BlockLen
        <3>4. m \in Nat /\ Rounded(m) \in Nat /\ Rounded(m) >= m
            BY <2>2, RoundedFacts
        <3> QED BY <1>3, <3>2, <3>3, <3>4
    <2> QED BY <2>3, <2>4
<1> QED BY <1>1, <1>3, <1>4, <1>5

LEMMA URight ==
    ASSUME NEW plan \in Plans, NEW o, o.pos \in Nat, NEW i \in 0..(plan.len - 1),
           NEW m, m = UBy(o, plan)
    PROVE  m[i \div BlockSize][i % BlockSize] = URow(o.epoch, o.pos + i, plan.r[i])
<1>1. PICK n : n = plan.len
    OBVIOUS
<1>2. n \in Nat /\ plan.r[i] \in BOOLEAN /\ i \in 0..(n - 1) /\ i \in Nat
    BY <1>1, PlanFacts
<1>3. PICK j, k : j = i \div BlockSize /\ k = i % BlockSize
    OBVIOUS
<1>4. j \in 0..(Blocks(n) - 1) /\ k \in 0..(Rounded(BlockLen(n, j)) - 1) /\ j * BlockSize + k = i
    BY <1>2, <1>3, BlockOf
<1>5. m[j] = [l \in 0..(Rounded(BlockLen(n, j)) - 1) |->
                  URow(o.epoch, o.pos + j * BlockSize + l, BlockR(plan.r, n, j, l))]
    BY <1>1, <1>4 DEF UBy
<1>6. m[j][k] = URow(o.epoch, o.pos + j * BlockSize + k, BlockR(plan.r, n, j, k))
    BY <1>4, <1>5
<1>7. BlockR(plan.r, n, j, k) <=> plan.r[i]
    BY <1>2, <1>4 DEF BlockR
<1>8. o.pos + j * BlockSize + k = o.pos + i
    <2>1. PICK x : x = j * BlockSize /\ x \in Int
        BY <1>4, MyOtAssumption, Distribute
    <2> QED BY <1>2, <1>4, <2>1
<1>9. URow(o.epoch, o.pos + i, BlockR(plan.r, n, j, k)) = URow(o.epoch, o.pos + i, plan.r[i])
    BY <1>7 DEF URow
<1> QED BY <1>3, <1>6, <1>8, <1>9

LEMMA RPreKeeps ==
    ASSUME NEW h, NEW st, AllHold(h, st), RPre
    PROVE  \E st2 : AllHold(h, st2)'
<1>1. PICK o : o = me["R"]
    OBVIOUS
<1>2. Returns("R", "pre", [WithRows(R, PlanOf("R").len, RowsBy(R, PlanOf("R"))) EXCEPT !.r = PlanOf("R").r],
            <<UBy(R, PlanOf("R"))>>)
    BY DEF RPre, RowsBy, UBy, URow, Both, Row
<1>3. Returns("R", "pre", [WithRows(o, plans[o.cnt].len, RowsBy(o, plans[o.cnt])) EXCEPT !.r = plans[o.cnt].r],
            <<UBy(o, plans[o.cnt])>>)
    BY <1>1, <1>2 DEF R, PlanOf
<1>4. PICK rec : rec = [o EXCEPT !.rows = RowsBy(o, plans[o.cnt]), !.len = plans[o.cnt].len,
                          !.isSet = TRUE, !.pos = o.pos + Rounded(plans[o.cnt].len), !.r = plans[o.cnt].r]
    OBVIOUS
<1>5. PICK ms : ms = <<UBy(o, plans[o.cnt])>>
    OBVIOUS
<1>6. Returns("R", "pre", rec, ms) /\ "R" \in Party
    BY <1>1, <1>3, <1>4, <1>5 DEF WithRows, Party, R, Marked
<1>7. api \in Kinds /\ IsObject(o) /\ Outputs(h, st) /\ History(h) /\ Asked(h)
      /\ DataOfR(At(h, st, "R"))
    BY <1>1, <1>6 DEF AllHold, Kinds, Objects
<1>8. IsObject(rec) /\ rec.rows = RowsBy(o, plans[o.cnt]) /\ rec.len = plans[o.cnt].len
      /\ rec.isSet = TRUE /\ rec.pos = o.pos + Rounded(plans[o.cnt].len) /\ rec.r = plans[o.cnt].r
      /\ \A f \in Fields \ {"rows", "len", "isSet", "pos", "r"} : rec[f] = o[f]
    <2>1. o = [f \in Fields |-> o[f]] /\ "rows" \in Fields /\ "len" \in Fields
          /\ "isSet" \in Fields /\ "pos" \in Fields /\ "r" \in Fields
        BY <1>7 DEF IsObject, Fields
    <2>2. rec = [f \in Fields |-> rec[f]]
        BY <1>4, <2>1
    <2> QED BY <1>4, <2>1, <2>2, ObjectByDomain
<1>9. PICK st2, r, y : Performs(h, st, st2, "R", "pre", rec, r, y)
    <2>1. /\ plans' = plans /\ api' = api /\ Doing("R", "pre")
          /\ me' = [me EXCEPT !["R"] = [rec EXCEPT !.todo = Tail(@)]]
        BY <1>6 DEF Returns
    <2>2. rec.todo = me["R"].todo /\ rec.cnt = me["R"].cnt
        BY <1>1, <1>8 DEF Fields
    <2> QED BY <1>6, <1>8, <2>1, <2>2, Performed
<1>10. PICK k : k = st["R"]
    OBVIOUS
<1>11. PICK n : n = o.cnt
    OBVIOUS
<1>12. k = 6 /\ n \in 1..Len(plans) /\ st2["R"] = Upon(plans[n], 6) /\ InPlan(plans[n], 6)
       /\ plans[n] \in Plans
    BY <1>1, <1>6, <1>7, <1>9, <1>10, <1>11, WhichStage DEF Performs
<1>13. Sends(plans[n], "R", k) /\ ~Receives(plans[n], "R", k)
    BY <1>12 DEF Sends, Receives
<1>14. Carries(st, "R", ms)
    <2>1. IsSeq(ms) /\ Len(ms) = Counted(Sends(plans[n], "R", k))
        BY <1>5, <1>13, Single DEF Counted
    <2> QED BY <1>1, <1>6, <1>10, <1>11, <1>13, <2>1, ReturnsOne
<1>15. /\ r.start = o.start /\ r.gid = o.gid /\ r.epoch = o.epoch
       /\ r.pos = o.pos + Rounded(plans[o.cnt].len) /\ r.isSet = TRUE
       /\ r.len = plans[o.cnt].len /\ r.rows = RowsBy(o, plans[o.cnt]) /\ r.isSetup = o.isSetup
       /\ r.item = o.item /\ r.out = o.out /\ r.s = o.s /\ r.bb = o.bb /\ r.k = o.k /\ r.a = o.a
       /\ r.r = plans[o.cnt].r /\ r.A = o.A
       /\ r.cnt = n /\ r = me'["R"]
    BY <1>8, <1>9, <1>11 DEF Performs, Fields
<1>16. PICK x : x = At(h, st, "R")
    OBVIOUS
<1>17. /\ DataAt(o, x) /\ Moved(x, y, n, plans[n], "R", 6) /\ x \in Places /\ n \in Nat /\ n > 0
       /\ IsSeq(o.out) /\ Len(o.out) = n - Counted(6 <= 7) /\ (st2["R"] <= 7 <=> 6 < 7)
       /\ x = PlaceAt(h[n], n, plans[n], "R", 6) /\ h[n] \in Places
       /\ plans' = plans /\ api' = api
    BY <1>1, <1>6, <1>9, <1>10, <1>11, <1>12, <1>16 DEF Performs, Returns
<1>18. y.pre = n /\ y.of = o.epoch /\ y.first = o.pos /\ o.pos \in Nat
    BY <1>17 DEF Moved, DataAt, Places
<1>19. DataAt(r, y)
    <2>1. DOMAIN r.rows = 0..(r.len - 1)
        <3>1. PICK plan : plan = plans[n]
            OBVIOUS
        <3>2. r.rows = RowsBy(o, plan) /\ r.len = plan.len
            BY <1>11, <1>15, <3>1
        <3> QED BY <3>2 DEF RowsBy
    <2>2. k # 1 /\ k # 2 /\ k # 4 /\ k # 7 /\ (k = 5 \/ k = 6) /\ ~(k = 5 /\ k = 6)
        BY <1>12
    <2>3. r.isSetup = (IF k = 5 THEN TRUE ELSE o.isSetup)
        BY <1>12, <1>15, <2>2, Zenon
    <2>4. r.isSet = (IF k = 6 THEN TRUE ELSE o.isSet)
        BY <1>12, <1>15, <2>2, Zenon
    <2>5. /\ r.item = (IF k = 5 THEN plans[n].item ELSE o.item)
          /\ r.len = (IF k = 6 THEN plans[n].len ELSE o.len)
        BY <1>11, <1>12, <1>15
    <2>6. /\ r.start = o.start /\ r.gid = o.gid /\ r.epoch = o.epoch
          /\ r.pos = (IF k = 6 THEN o.pos + Rounded(plans[n].len) ELSE o.pos)
        BY <1>11, <1>12, <1>15
    <2>7. FieldsMoved(r, o, n, plans[n], "R", k)
        BY <2>1, <2>2, <2>5, <2>6, <2>3, <2>4 DEF FieldsMoved
    <2>8. Moved(x, y, n, plans[n], "R", k) /\ (k = 5 => api = "not")
        BY <1>12, <1>17 DEF InPlan
    <2> QED BY <1>7, <1>17, <2>7, <2>8, DataMoves
<1>20. DataOfR(y)'
    <2>1. R' = r /\ r.r = plans[n].r /\ r.len = plans[n].len /\ r.rows = RowsBy(o, plans[n])
        BY <1>11, <1>15 DEF R
    <2>2. ASSUME NEW i \in 0..(plans[n].len - 1)
          PROVE  r.rows[i] = RowIn(y, i)
        BY <1>18, <2>1 DEF RowsBy, RowIn
    <2>3. \A i : RowIn(y, i)' = RowIn(y, i)
        BY DEF RowIn, Row, Drawn, PrgKey
    <2> QED BY <1>17, <1>18, <2>1, <2>2, <2>3 DEF DataOfR
<1>21. Outputs(h, st2)'
    <2>1. st2["R"] # 8 /\ st["R"] # 8
        BY <1>10, <1>12, <1>17
    <2> QED BY <1>1, <1>7, <1>11, <1>15, <1>17, <2>1, OutputsKept
<1>22. IsSeq(r.out) /\ Len(r.out) = r.cnt - Counted(st2["R"] <= 7)
    BY <1>15, <1>17 DEF Counted
<1>23. Fresh(h, st, st2, "R", ms)
    <2>1. PICK m : m = ms[1]
        OBVIOUS
    <2>2. m = UBy(o, plans[n])
        BY <1>5, <1>11, <2>1, Single
    <2>3. PICK z : z = h[n + 1]
        OBVIOUS
    <2>4. z.of = o.epoch /\ z.first = o.pos
        <3>1. y = PlaceAt(h[n], n, plans[n], "R", st2["R"]) /\ st2["R"] \in {7, 8}
            <4>1. Method(st, st2, "R") /\ y = At(h, st2, "R")'
                BY <1>9 DEF Performs
            <4>2. y = Here(h, "R", Upon(plans[n], k))
                BY <1>1, <1>6, <1>7, <1>10, <1>11, <4>1, AtMoved
            <4>3. st2["R"] = Upon(plans[n], k) /\ st2["R"] = 7
                BY <1>12 DEF Upon
            <4> QED BY <1>1, <1>11, <4>2, <4>3 DEF Here
        <3>2. n \in 1..Len(plans) /\ "R" \in Party
            BY <1>6, <1>12
        <3>3. z.of = y.of /\ z.first = y.first
            BY <1>7, <2>3, <3>1, <3>2, LatePlace
        <3> QED BY <1>18, <3>3
    <2>5. ASSUME NEW i \in 0..(plans[n].len - 1)
          PROVE  m[i \div BlockSize][i % BlockSize] = URow(z.of, z.first + i, plans[n].r[i])
        BY <1>12, <1>18, <2>2, <2>4, URight
    <2>6. GoodU(h, n, m)
        BY <2>3, <2>5 DEF GoodU
    <2>7. GoodU(h, n, m)'
        BY <1>17, <2>6, SameMessages
    <2>8. Good(h, st2, "R", n, k, m)'
        BY <1>12, <2>7 DEF Good
    <2> QED BY <1>1, <1>10, <1>11, <2>1, <2>8, FreshOne
<1> QED BY <1>6, <1>9, <1>14, <1>23, <1>19, <1>20, <1>21, <1>22, Done

\* The row that S computes from its keys and a row of U
RowOf(s, e, x, u) == SymDiff({Drawn(c, KeyFor(e, c, s), x) : c \in Cols}, {t \in u : t[1] \in s})

LEMMA Terms ==
    ASSUME NEW e, e # 0, NEW x
    PROVE  \A c, d :
               /\ <<c, e, 0, x>>[1] = c /\ <<c, e, 1, x>>[1] = c /\ One(c)[1] = c
               /\ <<c, e, 0, x>> # <<d, e, 1, x>>
               /\ <<c, e, 0, x>> # One(d) /\ <<c, e, 1, x>> # One(d)
               /\ <<c, e, 0, x>> = <<d, e, 0, x>> => c = d
               /\ <<c, e, 1, x>> = <<d, e, 1, x>> => c = d
               /\ One(c) = One(d) => c = d
BY DEF One

LEMMA RowOfS ==
    ASSUME NEW e, e # 0, NEW x, NEW s, s \subseteq Cols, NEW bit \in BOOLEAN
    PROVE  RowOf(s, e, x, URow(e, x, bit)) =
               IF bit THEN SymDiff(Row(e, 0, x), {One(c) : c \in s}) ELSE Row(e, 0, x)
<1>1. PICK keyed : keyed = {Drawn(c, KeyFor(e, c, s), x) : c \in Cols}
    OBVIOUS
<1>2. PICK u : u = URow(e, x, bit)
    OBVIOUS
<1>3. PICK taken : taken = {t \in u : t[1] \in s}
    OBVIOUS
<1>4. PICK row : row = Row(e, 0, x)
    OBVIOUS
<1>5. PICK ones : ones = {One(c) : c \in s}
    OBVIOUS
<1>6. \A t : t \in keyed <=> \E c \in Cols : t = (IF c \in s THEN <<c, e, 1, x>> ELSE <<c, e, 0, x>>)
    BY <1>1 DEF Drawn, KeyFor, PrgKey
<1>7. \A t : t \in row <=> \E c \in Cols : t = <<c, e, 0, x>>
    BY <1>4 DEF Row, Drawn, PrgKey
<1>8. \A t : t \in u <=> \/ \E c \in Cols : t = <<c, e, 0, x>>
                         \/ \E c \in Cols : t = <<c, e, 1, x>>
                         \/ bit /\ \E c \in Cols : t = One(c)
    <2>1. \A t : t \in Both(e, x) <=> \/ \E c \in Cols : t = <<c, e, 0, x>>
                                      \/ \E c \in Cols : t = <<c, e, 1, x>>
        BY DEF Both, Row, Drawn, PrgKey
    <2>2. PICK all : all = {One(c) : c \in Cols}
        OBVIOUS
    <2>3. \A t : t \in all <=> \E c \in Cols : t = One(c)
        BY <2>2
    <2>4. \A t : t \in u <=> \/ t \in Both(e, x) /\ ~(bit /\ t \in all)
                             \/ t \notin Both(e, x) /\ bit /\ t \in all
        BY <1>2, <2>2 DEF URow, SymDiff
    <2>5. \A t : ~(t \in Both(e, x) /\ t \in all)
        BY <2>1, <2>3, Terms
    <2> QED BY <2>1, <2>3, <2>4, <2>5
<1>9. \A t : t \in ones <=> \E c \in s : t = One(c)
    BY <1>5
<1>10. PICK made : made = RowOf(s, e, x, u)
    OBVIOUS
<1>11. \A t : t \in made <=> (t \in keyed <=> t \notin taken)
    BY <1>1, <1>3, <1>10 DEF RowOf, SymDiff
<1>12. \A t : t \in taken <=> t \in u /\ t[1] \in s
    BY <1>3
<1>13. \A t : t \in made <=> (t \in row <=> ~(bit /\ t \in ones))
    <2> SUFFICES ASSUME NEW t
                 PROVE  t \in made <=> (t \in row <=> ~(bit /\ t \in ones))
        OBVIOUS
    <2>1. CASE \E c \in Cols : t = <<c, e, 0, x>>
        <3>1. PICK c \in Cols : t = <<c, e, 0, x>>
            BY <2>1
        <3>2. t \in row /\ t \notin ones /\ t \in u /\ t[1] = c
            <4>1. t \in row /\ t \in u
                BY <1>7, <1>8, <3>1
            <4> QED BY <1>9, <3>1, <4>1, Terms
        <3>3. t \in keyed <=> c \notin s
            BY <1>6, <3>1, Terms
        <3> QED BY <1>11, <1>12, <3>2, <3>3
    <2>2. CASE \E c \in Cols : t = <<c, e, 1, x>>
        <3>1. PICK c \in Cols : t = <<c, e, 1, x>>
            BY <2>2
        <3>2. t \notin row /\ t \notin ones /\ t \in u /\ t[1] = c
            <4>1. t \in u
                BY <1>8, <3>1
            <4>2. t \notin row
                BY <1>7, <3>1, Terms
            <4> QED BY <1>9, <3>1, <4>1, <4>2, Terms
        <3>3. t \in keyed <=> c \in s
            BY <1>6, <3>1, Terms
        <3> QED BY <1>11, <1>12, <3>2, <3>3
    <2>3. CASE \E c \in Cols : t = One(c)
        <3>1. PICK c \in Cols : t = One(c)
            BY <2>3
        <3>2. t \notin row /\ (t \in ones <=> c \in s) /\ (t \in u <=> bit) /\ t[1] = c
            BY <1>7, <1>8, <1>9, <3>1, Terms
        <3>3. t \notin keyed
            BY <1>6, <3>1, Terms
        <3> QED BY <1>11, <1>12, <3>2, <3>3
    <2>4. CASE ~\E c \in Cols : t = <<c, e, 0, x>> \/ t = <<c, e, 1, x>> \/ t = One(c)
        <3>1. t \notin row /\ t \notin ones /\ t \notin u /\ t \notin keyed
            BY <1>6, <1>7, <1>8, <1>9, <2>4
        <3> QED BY <1>11, <1>12, <3>1
    <2> QED BY <2>1, <2>2, <2>3, <2>4
<1>14. \A t : t \in SymDiff(row, ones) <=> (t \in row <=> t \notin ones)
    BY DEF SymDiff
<1>15. made = IF bit THEN SymDiff(row, ones) ELSE row
    <2>1. CASE bit
        <3>1. \A t : t \in made <=> t \in SymDiff(row, ones)
            BY <1>13, <1>14, <2>1
        <3>2. made = SymDiff(row, ones)
            BY <3>1
        <3> QED BY <2>1, <3>2
    <2>2. CASE ~bit
        <3>1. \A t : t \in made <=> t \in row
            BY <1>13, <2>2
        <3>2. made = row
            BY <3>1
        <3> QED BY <2>2, <3>2
    <2> QED BY <2>1, <2>2
<1> QED BY <1>2, <1>4, <1>5, <1>10, <1>15

\* The rows of sendPre
RowFrom(o, i, u) == SymDiff({Drawn(c, o.k[c], o.pos + i) : c \in Cols}, {t \in u : t[1] \in o.s})
RowsFrom(o, plan, g) == [i \in 0..(plan.len - 1) |-> RowFrom(o, i, g[i \div BlockSize][i % BlockSize])]

LEMMA KeysGive ==
    ASSUME NEW o, NEW e, o.k = KeysFor(e, o.s), NEW i, NEW u
    PROVE  RowFrom(o, i, u) = RowOf(o.s, e, o.pos + i, u)
<1>1. \A c \in Cols : o.k[c] = KeyFor(e, c, o.s)
    BY DEF KeysFor
<1>2. {Drawn(c, o.k[c], o.pos + i) : c \in Cols} = {Drawn(c, KeyFor(e, c, o.s), o.pos + i) : c \in Cols}
    BY <1>1
<1> QED BY <1>2 DEF RowFrom, RowOf

LEMMA SPreKeeps ==
    ASSUME NEW h, NEW st, AllHold(h, st), SPre
    PROVE  \E st2 : AllHold(h, st2)'
<1>1. PICK o : o = me["S"]
    OBVIOUS
<1>2. PICK g : g = Head(mail["S"])
    OBVIOUS
<1>3. Takes("S", "pre", WithRows(S, PlanOf("S").len, RowsFrom(S, PlanOf("S"), Given("S"))), <<>>)
    BY DEF SPre, RowsFrom, RowFrom
<1>4. Takes("S", "pre", WithRows(o, plans[o.cnt].len, RowsFrom(o, plans[o.cnt], g)), <<>>)
    BY <1>1, <1>2, <1>3 DEF S, PlanOf, Given
<1>5. PICK rec : rec = [o EXCEPT !.rows = RowsFrom(o, plans[o.cnt], g), !.len = plans[o.cnt].len,
                          !.isSet = TRUE, !.pos = o.pos + Rounded(plans[o.cnt].len)]
    OBVIOUS
<1>6. PICK ms : ms = <<>>
    OBVIOUS
<1>7. Takes("S", "pre", rec, ms) /\ "S" \in Party
    BY <1>1, <1>2, <1>4, <1>5, <1>6 DEF WithRows, Party, S, Given, Marked
<1>8. api \in Kinds /\ IsObject(o) /\ Outputs(h, st) /\ History(h) /\ Asked(h)
      /\ DataOfS(st, At(h, st, "S"))
    BY <1>1, <1>7 DEF AllHold, Kinds, Objects
<1>9. IsObject(rec) /\ rec.rows = RowsFrom(o, plans[o.cnt], g) /\ rec.len = plans[o.cnt].len
      /\ rec.isSet = TRUE /\ rec.pos = o.pos + Rounded(plans[o.cnt].len)
      /\ \A f \in Fields \ {"rows", "len", "isSet", "pos"} : rec[f] = o[f]
    <2>1. o = [f \in Fields |-> o[f]] /\ "rows" \in Fields /\ "len" \in Fields
          /\ "isSet" \in Fields /\ "pos" \in Fields
        BY <1>8 DEF IsObject, Fields
    <2>2. rec = [f \in Fields |-> rec[f]]
        BY <1>5, <2>1
    <2> QED BY <1>5, <2>1, <2>2, ObjectByDomain
<1>10. PICK st2, r, y : Performs(h, st, st2, "S", "pre", rec, r, y)
    <2>1. /\ plans' = plans /\ api' = api /\ Doing("S", "pre")
          /\ me' = [me EXCEPT !["S"] = [rec EXCEPT !.todo = Tail(@)]]
        BY <1>7 DEF Takes
    <2>2. rec.todo = me["S"].todo /\ rec.cnt = me["S"].cnt
        BY <1>1, <1>9 DEF Fields
    <2> QED BY <1>7, <1>9, <2>1, <2>2, Performed
<1>11. PICK k : k = st["S"]
    OBVIOUS
<1>12. PICK n : n = o.cnt
    OBVIOUS
<1>13. k = 6 /\ n \in 1..Len(plans) /\ st2["S"] = Upon(plans[n], 6) /\ InPlan(plans[n], 6)
       /\ plans[n] \in Plans
    BY <1>1, <1>7, <1>8, <1>10, <1>11, <1>12, WhichStage DEF Performs
<1>14. ~Sends(plans[n], "S", k) /\ Receives(plans[n], "S", k)
    BY <1>13 DEF Sends, Receives
<1>15. Carries(st, "S", ms)
    <2>1. IsSeq(ms) /\ Len(ms) = Counted(Sends(plans[n], "S", k))
        BY <1>6, <1>14, Empty DEF Counted
    <2> QED BY <1>1, <1>7, <1>11, <1>12, <1>14, <2>1, TakesOne
<1>16. /\ r.start = o.start /\ r.gid = o.gid /\ r.epoch = o.epoch
       /\ r.pos = o.pos + Rounded(plans[o.cnt].len) /\ r.isSet = TRUE
       /\ r.len = plans[o.cnt].len /\ r.rows = RowsFrom(o, plans[o.cnt], g)
       /\ r.isSetup = o.isSetup /\ r.item = o.item /\ r.out = o.out /\ r.s = o.s /\ r.bb = o.bb
       /\ r.k = o.k /\ r.a = o.a /\ r.r = o.r /\ r.A = o.A
       /\ r.cnt = n /\ r = me'["S"]
    BY <1>9, <1>10, <1>12 DEF Performs, Fields
<1>17. PICK x : x = At(h, st, "S")
    OBVIOUS
<1>18. /\ DataAt(o, x) /\ Moved(x, y, n, plans[n], "S", 6) /\ x \in Places /\ n \in Nat /\ n > 0
       /\ IsSeq(o.out) /\ Len(o.out) = n - Counted(6 <= 7) /\ (st2["S"] <= 7 <=> 6 < 7)
       /\ x = PlaceAt(h[n], n, plans[n], "S", 6) /\ h[n] \in Places
       /\ plans' = plans /\ api' = api
    BY <1>1, <1>7, <1>10, <1>11, <1>12, <1>13, <1>17 DEF Performs, Takes
<1>19. Good(h, st, "R", n, 6, g)
    <2>1. mail["S"] # <<>> /\ PartnerOf("S", k) = 6 /\ Peer("S") = "R" /\ k \in 1..8
        BY <1>7, <1>13 DEF Takes, PartnerOf, Peer
    <2> QED BY <1>1, <1>7, <1>11, <1>12, <1>13, <1>14, <1>2, <2>1, Heads
<1>20. /\ y.pre = n /\ y.of = x.epoch /\ y.first = x.pos /\ y.epoch = x.epoch /\ o.pos = x.pos
       /\ x.pos \in Nat /\ x.epoch \in Nat
    BY <1>18 DEF Moved, DataAt, Places
<1>21. x.epoch > 0
    <2>1. h[n].epoch \in Nat /\ x.epoch = EpochAt(h[n], plans[n], "S", 6)
        BY <1>18, PlaceFields DEF Places
    <2>2. "setup" \notin plans[n].new => h[n].epoch > 0
        BY <1>8, <1>13 DEF Asked, InPlan
    <2> QED BY <2>1, <2>2 DEF EpochAt, Renewed
<1>22. o.s \subseteq Cols /\ o.k = KeysFor(x.epoch, o.s)
    <2>1. st["S"] \notin 3..4 /\ S = o
        BY <1>1, <1>11, <1>13 DEF S
    <2> QED BY <1>8, <1>17, <1>21, <2>1 DEF DataOfS
<1>23. \A i \in 0..(plans[n].len - 1) :
          g[i \div BlockSize][i % BlockSize] = URow(x.epoch, x.pos + i, plans[n].r[i])
    <2>1. PICK z : z = h[n + 1]
        OBVIOUS
    <2>2. y = PlaceAt(h[n], n, plans[n], "S", st2["S"]) /\ st2["S"] \in {7, 8}
        <3>1. Method(st, st2, "S") /\ y = At(h, st2, "S")'
            BY <1>10 DEF Performs
        <3>2. y = Here(h, "S", Upon(plans[n], k))
            BY <1>1, <1>7, <1>8, <1>11, <1>12, <3>1, AtMoved
        <3>3. st2["S"] = Upon(plans[n], k) /\ st2["S"] = 7
            BY <1>13 DEF Upon
        <3> QED BY <1>1, <1>12, <3>2, <3>3 DEF Here
    <2>3. n \in 1..Len(plans) /\ "S" \in Party
        BY <1>7, <1>13
    <2>4. z.of = y.of /\ z.first = y.first
        BY <1>8, <2>1, <2>2, <2>3, LatePlace
    <2>5. GoodU(h, n, g)
        BY <1>19 DEF Good
    <2> QED BY <1>20, <2>1, <2>4, <2>5 DEF GoodU
<1>24. DataAt(r, y)
    <2>1. DOMAIN r.rows = 0..(r.len - 1)
        <3>1. PICK plan : plan = plans[n]
            OBVIOUS
        <3>2. r.rows = RowsFrom(o, plan, g) /\ r.len = plan.len
            BY <1>12, <1>16, <3>1
        <3> QED BY <3>2 DEF RowsFrom
    <2>2. k # 1 /\ k # 2 /\ k # 4 /\ k # 7 /\ (k = 5 \/ k = 6) /\ ~(k = 5 /\ k = 6)
        BY <1>13
    <2>3. r.isSetup = (IF k = 5 THEN TRUE ELSE o.isSetup)
        BY <1>13, <1>16, <2>2, Zenon
    <2>4. r.isSet = (IF k = 6 THEN TRUE ELSE o.isSet)
        BY <1>13, <1>16, <2>2, Zenon
    <2>5. /\ r.item = (IF k = 5 THEN plans[n].item ELSE o.item)
          /\ r.len = (IF k = 6 THEN plans[n].len ELSE o.len)
        BY <1>12, <1>13, <1>16
    <2>6. /\ r.start = o.start /\ r.gid = o.gid /\ r.epoch = o.epoch
          /\ r.pos = (IF k = 6 THEN o.pos + Rounded(plans[n].len) ELSE o.pos)
        BY <1>12, <1>13, <1>16
    <2>7. FieldsMoved(r, o, n, plans[n], "S", k)
        BY <2>1, <2>2, <2>5, <2>6, <2>3, <2>4 DEF FieldsMoved
    <2>8. Moved(x, y, n, plans[n], "S", k) /\ (k = 5 => api = "not")
        BY <1>13, <1>18 DEF InPlan
    <2> QED BY <1>8, <1>18, <2>7, <2>8, DataMoves
<1>25. DataOfS(st2, y)'
    <2>1. /\ S' = r /\ r.s = o.s /\ r.k = o.k /\ r.len = plans[n].len
          /\ r.rows = RowsFrom(o, plans[n], g)
        BY <1>12, <1>16 DEF S
    <2>2. PICK delta : delta = {One(c) : c \in o.s}
        OBVIOUS
    <2>3. Delta' = delta
        BY <2>1, <2>2 DEF Delta, One
    <2>4. \A i : RowIn(y, i)' = RowIn(y, i) /\ RowIn(y, i) = Row(x.epoch, 0, x.pos + i)
        BY <1>20 DEF RowIn, Row, Drawn, PrgKey
    <2>5. ASSUME NEW i \in 0..(plans[n].len - 1)
          PROVE  r.rows[i] = IF Chosen(y, i)' THEN SymDiff(RowIn(y, i), delta) ELSE RowIn(y, i)
        <3>1. PICK b : b = plans[n].r[i]
            OBVIOUS
        <3>2. b \in BOOLEAN
            BY <1>13, <3>1, PlanFacts
        <3>3. r.rows[i] = RowFrom(o, i, URow(x.epoch, x.pos + i, b))
            BY <1>23, <2>1, <3>1 DEF RowsFrom
        <3>4. RowFrom(o, i, URow(x.epoch, x.pos + i, b)) =
                  RowOf(o.s, x.epoch, x.pos + i, URow(x.epoch, x.pos + i, b))
            <4>1. PICK u : u = URow(x.epoch, x.pos + i, b)
                OBVIOUS
            <4>2. o.k = KeysFor(x.epoch, o.s) /\ o.pos = x.pos
                BY <1>20, <1>22
            <4>3. RowFrom(o, i, u) = RowOf(o.s, x.epoch, o.pos + i, u)
                BY <4>2, KeysGive
            <4> QED BY <4>1, <4>2, <4>3
        <3>5. x.epoch # 0
            BY <1>20, <1>21
        <3>6. r.rows[i] = IF b THEN SymDiff(RowIn(y, i), delta) ELSE RowIn(y, i)
            <4>1. PICK e, l, s : e = x.epoch /\ l = x.pos + i /\ s = o.s
                OBVIOUS
            <4>2. e # 0 /\ s \subseteq Cols
                BY <1>22, <3>5, <4>1
            <4>3. RowOf(s, e, l, URow(e, l, b)) =
                      IF b THEN SymDiff(Row(e, 0, l), {One(c) : c \in s}) ELSE Row(e, 0, l)
                BY <3>2, <4>2, RowOfS
            <4>4. r.rows[i] = RowOf(s, e, l, URow(e, l, b))
                BY <1>20, <3>3, <3>4, <4>1
            <4>5. RowIn(y, i) = Row(e, 0, l) /\ delta = {One(c) : c \in s}
                BY <2>2, <2>4, <4>1
            <4> QED BY <4>3, <4>4, <4>5
        <3>7. Chosen(y, i)' = b
            BY <1>20, <1>18, <3>1 DEF Chosen
        <3> QED BY <3>6, <3>7
    <2>6. KeysFor(y.epoch, r.s)' = KeysFor(x.epoch, o.s)
        BY <1>20, <2>1 DEF KeysFor, KeyFor, PrgKey
    <2>7. st2["S"] = 7
        BY <1>13 DEF Upon
    <2> QED BY <1>22, <2>1, <2>3, <2>4, <2>5, <2>6, <2>7 DEF DataOfS
<1>26. Outputs(h, st2)'
    <2>1. Method(st, st2, "S") /\ Peer("S") = "R"
        BY <1>10 DEF Performs, Peer
    <2> QED BY <1>8, <2>1, OutputsKept DEF Method
<1>27. IsSeq(r.out) /\ Len(r.out) = r.cnt - Counted(st2["S"] <= 7)
    BY <1>16, <1>18 DEF Counted
<1>28. Fresh(h, st, st2, "S", ms)
    BY <1>1, <1>11, <1>12, <1>14, FreshNone
<1> QED BY <1>7, <1>10, <1>15, <1>28, <1>24, <1>25, <1>26, <1>27, Done

(*------------------------- steps without a message ----------------------*)
\* The rounds that have begun stay, and the history of them; a new one may follow.
Extends(h, h2) ==
    /\ Len(plans) \in Nat /\ Len(plans') \in Nat /\ Len(plans) <= Len(plans')
    /\ \A n \in 1..Len(plans) : plans'[n] = plans[n]
    /\ \A n \in 1..(Len(plans) + 1) : h2[n] = h[n]
    /\ api' = api

\* Within a round p sends at the end what it has not sent before.
LEMMA SentGrows ==
    ASSUME NEW a \in Places, NEW n \in Nat, NEW plan \in Plans, NEW p \in Party, NEW k \in Stages
    PROVE  /\ Sent(a, p) \in Nat /\ Sent(PlaceAt(a, n, plan, p, k), p) \in Nat
           /\ Sent(a, p) <= Sent(PlaceAt(a, n, plan, p, k), p)
           /\ Sent(PlaceAt(a, n, plan, p, k), p) <= Sent(PlaceAt(a, n, plan, "S", 9), p)
<1>1. a.s \in Nat /\ a.r \in Nat
    BY DEF Places
<1>2. Sent(PlaceAt(a, n, plan, p, k), p) = SentBy(a, plan, p, k)
    <2>1. p = "S" \/ p = "R"
        BY DEF Party
    <2> QED BY <2>1, PlaceFields DEF Sent, SentBy
<1>3. Sent(PlaceAt(a, n, plan, "S", 9), p) = SentBy(a, plan, p, 9)
    BY PlaceFields DEF Sent, SentBy
<1>4. CASE p = "S"
    <2>1. a.s <= ByS(a, plan, "S", k) /\ ByS(a, plan, "S", k) <= ByS(a, plan, "S", 9)
          /\ ByS(a, plan, "S", k) \in Nat
        BY <1>1 DEF ByS, Counted, Stages
    <2> QED BY <1>1, <1>2, <1>3, <1>4, <2>1 DEF SentBy, Sent
<1>5. CASE p # "S"
    <2>1. a.r <= ByR(a, plan, k) /\ ByR(a, plan, k) <= ByR(a, plan, 9)
          /\ ByR(a, plan, k) \in Nat
        BY <1>1 DEF ByR, Counted, Stages
    <2> QED BY <1>1, <1>2, <1>3, <1>5, <2>1 DEF SentBy, Sent
<1> QED BY <1>4, <1>5

\* No party has sent more than in all the rounds that have begun.
LEMMA SentUpTo ==
    ASSUME NEW h, NEW st, History(h), Objects(h, st), NEW q \in Party
    PROVE  Sent(At(h, st, q), q) <= Sent(h[Len(plans) + 1], q)
<1>1. PICK n : n = me[q].cnt
    OBVIOUS
<1>2. /\ n \in 0..Len(plans) /\ st[q] \in Stages /\ Len(plans) \in Nat /\ Len(h) = Len(plans) + 1
      /\ st[q] # 9 => n > 0
    BY <1>1, HistoryFacts DEF Objects, Staged
<1>3. Sent(At(h, st, q), q) <= Sent(h[n + 1], q) /\ Sent(At(h, st, q), q) \in Nat
    <2>1. n + 1 \in 1..Len(h)
        BY <1>2
    <2>2. h[n + 1] \in Places
        BY <2>1, HistoryFacts
    <2>3. CASE st[q] = 9
        BY <1>1, <2>2, <2>3 DEF At, Sent, Places
    <2>4. CASE st[q] # 9
        <3>1. At(h, st, q) = PlaceAt(h[n], n, plans[n], q, st[q])
            BY <1>1, <2>4 DEF At
        <3>2. n \in 1..Len(plans) /\ n \in Nat
            BY <1>2, <2>4
        <3>3. h[n] \in Places /\ plans[n] \in Plans /\ h[n + 1] = PlaceAt(h[n], n, plans[n], "S", 9)
            BY <3>2, HistoryFacts
        <3> QED BY <1>2, <3>1, <3>2, <3>3, SentGrows
    <2> QED BY <2>3, <2>4
<1>4. Sent(h[n + 1], q) <= Sent(h[Len(plans) + 1], q) /\ Sent(h[n + 1], q) \in Nat
      /\ Sent(h[Len(plans) + 1], q) \in Nat
    <2>1. PICK l : l = Len(plans) + 1
        OBVIOUS
    <2>2. n + 1 \in 1..Len(h) /\ l \in 1..Len(h) /\ n + 1 <= l
        BY <1>2, <2>1
    <2>3. h[n + 1].s <= h[l].s /\ h[n + 1].r <= h[l].r
        BY <2>2 DEF History
    <2>4. h[n + 1] \in Places /\ h[l] \in Places
        BY <2>2, HistoryFacts
    <2> QED BY <2>1, <2>3, <2>4 DEF Sent, Places
<1> QED BY <1>3, <1>4

LEMMA PlaceBounds ==
    ASSUME NEW h, NEW st, History(h), Objects(h, st), NEW q \in Party, NEW x, x = At(h, st, q)
    PROVE  x.pre \in 0..Len(plans) /\ x.chosen \in 0..Len(plans) /\ x \in Places
<1>1. PICK n : n = me[q].cnt
    OBVIOUS
<1>2. /\ n \in 0..Len(plans) /\ st[q] \in Stages /\ Len(plans) \in Nat /\ Len(h) = Len(plans) + 1
      /\ st[q] # 9 => n > 0
    BY <1>1, HistoryFacts DEF Objects, Staged
<1>3. ASSUME NEW m \in 1..Len(h)
      PROVE  h[m].pre \in 0..(m - 1) /\ h[m].chosen \in 0..(m - 1) /\ h[m] \in Places
    BY <1>3, HistoryFacts DEF PlaceOK
<1>4. CASE st[q] = 9
    <2>1. x = h[n + 1] /\ n + 1 \in 1..Len(h)
        BY <1>1, <1>2, <1>4 DEF At
    <2> QED BY <1>2, <1>3, <2>1
<1>5. CASE st[q] # 9
    <2>1. x = PlaceAt(h[n], n, plans[n], q, st[q]) /\ n \in 1..Len(plans) /\ n \in 1..Len(h) /\ n \in Nat
        BY <1>1, <1>2, <1>5 DEF At
    <2>2. x \in Places
        BY <2>1, HistoryFacts, PlaceType
    <2>3. x.pre \in {n, h[n].pre} /\ x.chosen \in {n, h[n].chosen}
        BY <2>1, PlaceFields
    <2> QED BY <1>2, <1>3, <2>1, <2>2, <2>3
<1> QED BY <1>4, <1>5

LEMMA ExtendsAt ==
    ASSUME NEW h, NEW h2, Extends(h, h2), NEW n \in 0..Len(plans)
    PROVE  /\ h2[n + 1] = h[n + 1] /\ n \in 0..Len(plans')
           /\ n > 0 => h2[n] = h[n] /\ plans'[n] = plans[n]
<1>1. PICK l, m : l = Len(plans) /\ m = Len(plans')
    OBVIOUS
<1>2. l \in Nat /\ m \in Nat /\ l <= m /\ (\A i \in 1..l : plans'[i] = plans[i])
      /\ (\A i \in 1..(l + 1) : h2[i] = h[i])
    BY <1>1 DEF Extends
<1>3. n \in 0..l
    BY <1>1
<1>4. n + 1 \in 1..(l + 1) /\ n \in 0..m /\ (n > 0 => n \in 1..l /\ n \in 1..(l + 1))
    BY <1>2, <1>3
<1> QED BY <1>1, <1>2, <1>4

\* Others, for a party that does nothing while the other may begin a round
LEMMA OthersLater ==
    ASSUME NEW h, NEW st, History(h), Objects(h, st), NEW q \in Party, NEW h2, Extends(h, h2), NEW st2,
           me'[q] = me[q], st2[q] = st[q]
    PROVE  /\ At(h2, st2, q)' = At(h, st, q)
           /\ IsObject(me[q])' /\ Staged(st2, q)' /\ DataAt(me[q], At(h2, st2, q))'
           /\ q = "R" => DataOfR(At(h2, st2, q))'
           /\ q = "S" => DataOfS(st2, At(h2, st2, q))'
<1>1. PICK r : r = me[q]
    OBVIOUS
<1>2. PICK x : x = At(h, st, q)
    OBVIOUS
<1>3. IsObject(r) /\ Staged(st, q) /\ DataAt(r, x) /\ api' = api
    BY <1>1, <1>2 DEF Objects, Extends
<1>4. x.pre \in 0..Len(plans) /\ x.chosen \in 0..Len(plans) /\ x \in Places
    BY <1>2, PlaceBounds
<1>5. PICK m : m = r.cnt
    OBVIOUS
<1>6. /\ m \in 0..Len(plans) /\ st[q] \in Stages
      /\ st[q] # 9 => m > 0
      /\ Len(plans) \in Nat /\ Len(plans') \in Nat /\ Len(plans) <= Len(plans')
    BY <1>1, <1>3, <1>5 DEF Staged, Extends
<1>7. PICK plan : plan = plans[m]
    OBVIOUS
<1>8. /\ h2[m + 1] = h[m + 1]
      /\ m > 0 => h2[m] = h[m] /\ plans'[m] = plan
      /\ x.pre > 0 => plans'[x.pre] = plans[x.pre]
      /\ x.chosen > 0 => plans'[x.chosen] = plans[x.chosen]
    <2>1. h2[m + 1] = h[m + 1] /\ (m > 0 => h2[m] = h[m] /\ plans'[m] = plan)
        BY <1>6, <1>7, ExtendsAt
    <2>2. PICK i, j : i = x.pre /\ j = x.chosen
        OBVIOUS
    <2>3. (i > 0 => plans'[i] = plans[i]) /\ (j > 0 => plans'[j] = plans[j])
        BY <1>4, <2>2, ExtendsAt
    <2> QED BY <2>1, <2>2, <2>3
<1>9. At(h2, st2, q)' = x
    <2>1. CASE st[q] = 9
        BY <1>1, <1>2, <1>5, <1>8, <2>1 DEF At
    <2>2. CASE st[q] # 9
        <3>1. PICK a : a = h[m]
            OBVIOUS
        <3>2. PlaceAt(a, m, plan, q, st[q])' = PlaceAt(a, m, plan, q, st[q])
            BY <1>3, PlaceSame
        <3>3. x = PlaceAt(a, m, plan, q, st[q])
            BY <1>1, <1>2, <1>5, <1>7, <2>2, <3>1 DEF At
        <3>4. h2[m] = a /\ plans'[m] = plan
            <4>1. m > 0
                BY <1>6, <2>2
            <4> QED BY <1>8, <3>1, <4>1
        <3>5. At(h2, st2, q)' = PlaceAt(h2[m], m, plans[m], q, st[q])'
            BY <1>1, <1>5, <2>2 DEF At
        <3> QED BY <3>2, <3>3, <3>4, <3>5
    <2> QED BY <2>1, <2>2
<1>10. DataAt(r, x)'
    BY <1>3, <1>4, <1>8 DEF DataAt
<1>11. IsObject(r)'
    BY <1>3 DEF IsObject
<1>12. Staged(st2, q)'
    <2>1. TodoAt(plan, q, st[q])' = TodoAt(plan, q, st[q]) /\ (InPlan(plan, st[q])' <=> InPlan(plan, st[q]))
        BY <1>3, SamePlan
    <2>2. Prepared(q)' <=> Prepared(q)
        BY <1>3 DEF Prepared
    <2>3. me'[q] = r /\ me[q] = r
        BY <1>1
    <2>4. m > 0 => plans'[m] = plan
        BY <1>8
    <2>5. m \in 0..Len(plans')
        BY <1>6, ExtendsAt
    <2> QED BY <1>3, <1>5, <1>6, <1>7, <2>1, <2>2, <2>3, <2>4, <2>5 DEF Staged, Counted, IsSeq
<1>13. ASSUME q = "R" PROVE DataOfR(x)'
    <2>1. DataOfR(x)
        BY <1>2, <1>13 DEF Objects
    <2>2. R' = R
        BY <1>13 DEF R
    <2> QED BY <1>4, <1>8, <2>1, <2>2 DEF DataOfR, RowIn, Row, Drawn, PrgKey
<1>14. ASSUME q = "S" PROVE DataOfS(st2, x)'
    <2>1. DataOfS(st, x)
        BY <1>2, <1>14 DEF Objects
    <2>2. S = r /\ S' = r
        BY <1>1, <1>14 DEF S
    <2>3. Renews(st2)' <=> Renews(st)
        <3>1. st["S"] \in 3..6 => plans'[m] = plan
            <4>1. st["S"] \in 3..6 => m > 0
                BY <1>6, <1>14
            <4> QED BY <1>8, <4>1
        <3> QED BY <1>5, <1>7, <1>14, <2>2, <3>1 DEF Renews
    <2>4. /\ \A i : RowIn(x, i)' = RowIn(x, i)
          /\ x.pre > 0 => \A i : Chosen(x, i)' = Chosen(x, i)
        BY <1>8 DEF Chosen, RowIn, Row, Drawn, PrgKey
    <2>5. Delta' = Delta
        BY <2>2 DEF Delta, One
    <2>6. \A e, s : KeysFor(e, s)' = KeysFor(e, s)
        BY DEF KeysFor, KeyFor, PrgKey
    <2> QED BY <1>14, <2>1, <2>2, <2>3, <2>4, <2>5, <2>6 DEF DataOfS
<1> QED BY <1>1, <1>2, <1>9, <1>10, <1>11, <1>12, <1>13, <1>14

\* What is right of a message stays so while no party is at the end of the base OTs.
LEMMA GoodLater ==
    ASSUME NEW h, NEW st, History(h), NEW h2, Extends(h, h2), NEW st2, NEW p \in Party,
           st[p] # 4, me'[Peer(p)] = me[Peer(p)], st2[Peer(p)] = st[Peer(p)],
           NEW q \in Party, NEW n \in 1..Len(plans), NEW k \in 1..8, NEW m, Good(h, st, q, n, k, m)
    PROVE  Good(h2, st2, q, n, k, m)'
<1>1. /\ h2[n] = h[n] /\ h2[n + 1] = h[n + 1] /\ plans'[n] = plans[n] /\ api' = api
      /\ n \in Nat /\ n > 0
    <2>1. Len(plans) \in Nat /\ api' = api
        BY DEF Extends
    <2>2. n \in 0..Len(plans) /\ n > 0 /\ n \in Nat
        BY <2>1
    <2> QED BY <2>1, <2>2, ExtendsAt
<1>2. PICK z : z = h[n + 1]
    OBVIOUS
<1>3. z.pre \in 0..n /\ (z.pre > 0 => plans'[z.pre] = plans[z.pre])
    <2>1. PlaceOK(z, n + 1)
        BY <1>2, HistoryFacts
    <2>2. z.pre \in 0..n
        BY <1>1, <2>1 DEF PlaceOK
    <2>3. z.pre \in 0..Len(plans)
        BY <2>2, HistoryFacts
    <2> QED BY <2>2, <2>3, ExtendsAt
<1>4. CASE k \notin {3, 4}
    <2>1. z.pre > 0 => \A i : Chosen(z, i)' = Chosen(z, i)
        BY <1>3 DEF Chosen
    <2>2. z.pre > 0 => TextsOf(h2, n)' = TextsOf(h, n)
        BY <1>1, <1>2, <2>1 DEF TextsOf
    <2>3. z.pre > 0 => \A i : PadFor(h2, n, i)' = PadFor(h, n, i)
        BY <1>1, <1>2, <2>2 DEF PadFor, RowIn, Row, Drawn, PrgKey
    <2>4. GoodPads(h, n, m) => GoodPads(h2, n, m)'
        BY <1>1, <1>2, <2>1, <2>3 DEF GoodPads
    <2>5. GoodItems(n, m) => GoodItems(n, m)'
        BY <1>1 DEF GoodItems, ItemFor, BitOf
    <2>6. GoodU(h, n, m) => GoodU(h2, n, m)'
        <3>1. \A e, x, b : URow(e, x, b)' = URow(e, x, b)
            BY DEF URow, Both, Row, Drawn, PrgKey, One
        <3> QED BY <1>1, <1>2, <3>1 DEF GoodU
    <2> QED BY <1>4, <2>4, <2>5, <2>6 DEF Good
<1>5. CASE k = 3 /\ q = "R"
    <2>1. GoodA(st, n, m)
        BY <1>5 DEF Good
    <2>2. p = "S" /\ Peer(p) = "R"
        BY <2>1 DEF GoodA, Party, Peer
    <2>3. GoodA(st2, n, m)'
        BY <2>1, <2>2 DEF GoodA, R, MulGen
    <2> QED BY <1>5, <2>3 DEF Good
<1>6. CASE k = 3 /\ q = "S"
    <2>1. GoodB(st, n, m)
        BY <1>6 DEF Good
    <2> QED BY <2>1 DEF GoodB, BothAt, Party
<1>7. CASE k = 4 /\ q = "R"
    <2>1. GoodE(h, st, n, m)
        BY <1>7 DEF Good
    <2>2. p = "R" /\ Peer(p) = "S"
        BY <2>1 DEF GoodE, Party, Peer
    <2>3. GoodE(h2, st2, n, m)'
        BY <1>1, <2>1, <2>2 DEF GoodE, S, SealedFor, KeyFor, PrgKey, Mul
    <2> QED BY <1>7, <2>3 DEF Good
<1>8. CASE k = 4 /\ q = "S"
    <2>1. GoodItems(n, m)
        BY <1>8 DEF Good
    <2>2. GoodItems(n, m)'
        BY <1>1, <2>1 DEF GoodItems, ItemFor, BitOf
    <2> QED BY <1>8, <2>2 DEF Good
<1> QED BY <1>4, <1>5, <1>6, <1>7, <1>8 DEF Party

\* While nothing is returned or taken, what is on its way stays right.
LEMMA MailsLater ==
    ASSUME api \in Kinds, NEW h, NEW st, History(h), Objects(h, st), Mailed(h, st),
           NEW h2, Extends(h, h2), plans' \in Seq(Plans), Len(plans') <= Len(plans) + 1,
           NEW st2, NEW p \in Party, st[p] # 4, mail' = mail,
           me'[Peer(p)] = me[Peer(p)], st2[Peer(p)] = st[Peer(p)],
           \A q \in Party : /\ Sent(At(h2, st2, q)', q) = Sent(At(h, st, q), q)
                            /\ Got(At(h2, st2, q)', q) = Got(At(h, st, q), q)
    PROVE  Mailed(h2, st2)'
<1>1. PICK l : l = Len(plans) /\ l \in Nat /\ Len(plans') \in Nat
    BY DEF Extends
<1>2. /\ \A q \in Party : Peer(q) \in Party
      /\ api' = api
    BY Peers DEF Extends
<1>3. ASSUME NEW q \in Party, NEW n \in 1..Len(plans'), NEW k \in 1..8, Sends(plans[n], q, k)',
             NEW i, i = Number(h2, q, n, k)',
             i > Got(At(h2, st2, Peer(q))', Peer(q)), i <= Sent(At(h2, st2, q)', q)
      PROVE  Good(h2, st2, q, n, k, Waiting(h2, st2, q, i))'
    <2>1. PICK plan : plan = plans'[n]
        OBVIOUS
    <2>2. plan \in Plans /\ n \in Nat /\ n > 0
        BY <1>1, <2>1
    <2>3. PICK a : a = h2[n]
        OBVIOUS
    <2>4. i = Sent(PlaceAt(a, n, plan, q, k), q) + 1
        <3>1. PlaceAt(a, n, plan, q, k)' = PlaceAt(a, n, plan, q, k)
            BY <1>2, PlaceSame
        <3> QED BY <1>3, <2>1, <2>3, <3>1 DEF Number, Sent
    <2>5. CASE n \in 1..l
        <3>1. h2[n] = h[n] /\ plans'[n] = plans[n]
            <4>1. n \in 0..Len(plans) /\ n > 0
                BY <1>1, <2>2, <2>5
            <4> QED BY <4>1, ExtendsAt
        <3>2. i = Number(h, q, n, k)
            BY <2>1, <2>3, <2>4, <3>1 DEF Number
        <3>3. Sends(plans[n], q, k)
            BY <1>2, <1>3, <3>1 DEF Sends, InPlan
        <3>4. PICK m : m = mail[Peer(q)][i - Got(At(h, st, Peer(q)), Peer(q))]
            OBVIOUS
        <3>5. i > Got(At(h, st, Peer(q)), Peer(q)) /\ i <= Sent(At(h, st, q), q)
            BY <1>2, <1>3
        <3>6. Good(h, st, q, n, k, Waiting(h, st, q, Number(h, q, n, k)))
            BY <1>1, <2>5, <3>2, <3>3, <3>5 DEF Mailed
        <3>7. Good(h, st, q, n, k, m)
            BY <3>2, <3>4, <3>6 DEF Waiting
        <3>8. n \in 1..Len(plans)
            BY <1>1, <2>5
        <3>9. Good(h2, st2, q, n, k, m)'
            BY <3>7, <3>8, GoodLater
        <3>10. Waiting(h2, st2, q, i)' = m
            BY <1>2, <3>4 DEF Waiting
        <3> QED BY <3>9, <3>10
    <2>6. CASE n \notin 1..l
        <3>1. n = l + 1
            BY <1>1, <2>2, <2>6
        <3>2. a = h[l + 1] /\ l + 1 \in 1..Len(h)
            <4>1. l \in 0..Len(plans)
                BY <1>1
            <4> QED BY <1>1, <2>3, <3>1, <4>1, ExtendsAt, HistoryFacts
        <3>3. a \in Places
            BY <3>2, HistoryFacts
        <3>4. k \in Stages
            BY DEF Stages
        <3>5. Sent(a, q) \in Nat /\ Sent(a, q) <= Sent(PlaceAt(a, n, plan, q, k), q)
              /\ Sent(PlaceAt(a, n, plan, q, k), q) \in Nat
            BY <2>2, <3>3, <3>4, SentGrows
        <3>6. Sent(At(h, st, q), q) <= Sent(a, q)
            BY <1>1, <3>2, SentUpTo
        <3>7. i <= Sent(At(h, st, q), q) /\ Sent(At(h, st, q), q) \in Nat
            BY <1>3, PlacesOf
        <3> QED BY <2>4, <3>5, <3>6, <3>7
    <2> QED BY <2>5, <2>6
<1>4. /\ mail' = [q \in Party |-> mail'[q]]
      /\ \A q \in Party : /\ IsSeq(mail[q])'
                          /\ Len(mail'[Peer(q)]) = Sent(At(h2, st2, q)', q) - Got(At(h2, st2, Peer(q))', Peer(q))
    BY <1>2 DEF Mailed, IsSeq
<1> QED BY <1>3, <1>4 DEF Mailed, Sent, Got

\* What is left to show of a step of p without a message
LEMMA Settles ==
    ASSUME NEW h, NEW st, AllHold(h, st), NEW h2, Extends(h, h2), History(h2)', Asked(h2)',
           Len(plans') <= Len(plans) + 1, NEW st2, NEW p \in Party, st[p] # 4, mail' = mail,
           me' = [q \in Party |-> me'[q]], me'[Peer(p)] = me[Peer(p)], st2[Peer(p)] = st[Peer(p)],
           IsObject(me[p])', Staged(st2, p)', NEW y, y = At(h2, st2, p)', DataAt(me[p], y)',
           p = "R" => DataOfR(y)', p = "S" => DataOfS(st2, y)',
           Sent(y, p) = Sent(At(h, st, p), p), Got(y, p) = Got(At(h, st, p), p), Outputs(h2, st2)'
    PROVE  AllHold(h2, st2)'
<1>1. PICK q : q = Peer(p)
    OBVIOUS
<1>2. q \in Party /\ q # p /\ \A x \in Party : x = p \/ x = q
    BY <1>1, Peers
<1>3. /\ api \in Kinds /\ History(h) /\ Objects(h, st) /\ Mailed(h, st) /\ api' = api
    BY DEF AllHold, Kinds, Extends
<1>4. /\ At(h2, st2, q)' = At(h, st, q)
      /\ IsObject(me[q])' /\ Staged(st2, q)' /\ DataAt(me[q], At(h2, st2, q))'
      /\ q = "R" => DataOfR(At(h2, st2, q))'
      /\ q = "S" => DataOfS(st2, At(h2, st2, q))'
    BY <1>1, <1>2, <1>3, OthersLater
<1>5. Objects(h2, st2)'
    <2>1. \A x \in Party : (IsObject(me[x]) /\ Staged(st2, x) /\ DataAt(me[x], At(h2, st2, x)))'
        BY <1>2, <1>4
    <2>2. DataOfR(At(h2, st2, "R"))' /\ DataOfS(st2, At(h2, st2, "S"))'
        BY <1>2, <1>4 DEF Party
    <2> QED BY <2>1, <2>2 DEF Objects
<1>6. Mailed(h2, st2)'
    <2>1. \A x \in Party : /\ Sent(At(h2, st2, x)', x) = Sent(At(h, st, x), x)
                           /\ Got(At(h2, st2, x)', x) = Got(At(h, st, x), x)
        BY <1>2, <1>4
    <2>2. plans' \in Seq(Plans)
        BY DEF History
    <2> QED BY <1>3, <2>1, <2>2, MailsLater
<1> QED BY <1>3, <1>5, <1>6 DEF AllHold, Kinds

\* error() changes nothing but what the program does next.
LEMMA RefuseKeeps ==
    ASSUME NEW h, NEW st, AllHold(h, st), NEW p \in Party, Refuse(p)
    PROVE  AllHold(h, st)'
<1>1. PICK o, r : o = me[p] /\ r = [o EXCEPT !.todo = <<"error">>]
    OBVIOUS
<1>2. /\ api \in Kinds /\ History(h) /\ Asked(h) /\ Objects(h, st) /\ Outputs(h, st)
      /\ plans' = plans /\ api' = api /\ mail' = mail /\ ~Prepared(p)
      /\ me' = [me EXCEPT ![p].todo = <<"error">>]
    BY DEF AllHold, Kinds, Refuse
<1>3. me = [q \in Party |-> me[q]] /\ IsObject(o) /\ Staged(st, p) /\ DataAt(o, At(h, st, p))
    BY <1>1, <1>2 DEF Objects
<1>4. /\ me' = [q \in Party |-> me'[q]] /\ me'[p] = r
      /\ \A q \in Party : q # p => me'[q] = me[q]
    BY <1>1, <1>2, <1>3
<1>5. IsObject(r) /\ r.todo = <<"error">> /\ \A f \in Fields : f # "todo" => r[f] = o[f]
    <2>1. o = [f \in Fields |-> o[f]] /\ "todo" \in Fields
        BY <1>3 DEF IsObject, Fields
    <2>2. r = [f \in Fields |-> r[f]]
        BY <1>1, <2>1
    <2> QED BY <1>1, <2>1, <2>2, ObjectByDomain
<1>6. /\ r.cnt = o.cnt /\ r.start = o.start /\ r.gid = o.gid /\ r.epoch = o.epoch /\ r.pos = o.pos
      /\ r.isSet = o.isSet /\ r.len = o.len /\ r.rows = o.rows /\ r.isSetup = o.isSetup
      /\ r.item = o.item /\ r.out = o.out /\ r.s = o.s /\ r.bb = o.bb /\ r.k = o.k /\ r.r = o.r
    BY <1>5 DEF Fields
<1>7. st[p] = 7 /\ o.cnt \in 1..Len(plans)
    <2>1. PICK m \in {"ot", "rot"} : Doing(p, m)
        BY DEF Refuse
    <2>2. plans \in Seq(Plans) /\ m # "error"
        BY <1>2 DEF History
    <2>3. st[p] \in 1..8 /\ m = Name(p, st[p]) /\ me[p].cnt \in 1..Len(plans)
        BY <1>2, <1>3, <2>1, <2>2, StageOf
    <2>4. PICK k : k = st[p]
        OBVIOUS
    <2>5. k = 7
        BY <1>2, <2>3, <2>4, WhichStage
    <2> QED BY <1>1, <2>3, <2>4, <2>5
<1>8. PICK x : x = At(h, st, p)
    OBVIOUS
<1>9. At(h, st, p)' = x
    <2>1. PICK n, plan, a : n = o.cnt /\ plan = plans[n] /\ a = h[n]
        OBVIOUS
    <2>2. PlaceAt(a, n, plan, p, 7)' = PlaceAt(a, n, plan, p, 7)
        BY <1>2, PlaceSame
    <2>3. x = PlaceAt(a, n, plan, p, 7)
        BY <1>1, <1>7, <1>8, <2>1 DEF At
    <2>4. At(h, st, p)' = PlaceAt(a, n, plan, p, 7)'
        BY <1>1, <1>2, <1>4, <1>6, <1>7, <2>1 DEF At
    <2> QED BY <2>2, <2>3, <2>4
<1>10. DataAt(r, x)'
    BY <1>2, <1>3, <1>6, <1>8 DEF DataAt
<1>11. Staged(st, p)'
    <2>1. Prepared(p)' <=> Prepared(p)
        BY <1>1, <1>2, <1>4, <1>6 DEF Prepared
    <2>2. PICK n, plan, k : n = o.cnt /\ plan = plans[n] /\ k = st[p]
        OBVIOUS
    <2>3. /\ n \in 1..Len(plans) /\ Len(plans) \in Nat /\ k = 7 /\ IsSeq(o.out)
          /\ Len(o.out) = n - Counted(k <= 7)
        BY <1>1, <1>2, <1>3, <1>7, <2>2, HistoryFacts DEF Staged
    <2>4. InPlan(plan, k)'
        BY <2>3 DEF InPlan
    <2>5. InPlan(plans[n], st[p])'
        BY <1>2, <2>2, <2>4
    <2>6. /\ me'[p] = r /\ r.cnt = n /\ n \in 0..Len(plans') /\ n > 0 /\ st[p] \in Stages /\ st[p] < 9
          /\ st[p] = 7 /\ r.todo = <<"error">> /\ ~Prepared(p)' /\ IsSeq(r.out)'
          /\ Len(r.out) = n - Counted(st[p] <= 7)
        BY <1>2, <1>4, <1>5, <1>6, <1>7, <2>1, <2>2, <2>3 DEF Stages, IsSeq
    <2> QED BY <2>5, <2>6 DEF Staged, Counted
<1>12. History(h)' /\ Asked(h)' /\ Extends(h, h) /\ Len(plans') <= Len(plans) + 1
    <2>1. Len(plans) \in Nat
        BY <1>2, HistoryFacts
    <2> QED BY <1>2, <2>1, SameHistory DEF Extends
<1>13. p = "R" => DataOfR(x)'
    <2>1. ASSUME p = "R" PROVE DataOfR(x)'
        <3>1. DataOfR(x) /\ R = o /\ R' = r
            BY <1>1, <1>2, <1>4, <1>8, <2>1 DEF Objects, R
        <3>2. PICK v : v = me'["R"]
            OBVIOUS
        <3>3. v.r = R.r /\ v.rows = R.rows /\ v.len = R.len
            BY <1>6, <3>1, <3>2 DEF R
        <3> QED BY <1>2, <3>1, <3>2, <3>3, SameRowsOfR
    <2> QED BY <2>1
<1>14. p = "S" => DataOfS(st, x)'
    <2>1. ASSUME p = "S" PROVE DataOfS(st, x)'
        <3>1. DataOfS(st, x) /\ S = o /\ S' = r
            BY <1>1, <1>2, <1>4, <1>8, <2>1 DEF Objects, S
        <3>2. PICK v : v = me'["S"]
            OBVIOUS
        <3>3. v.s = S.s /\ v.rows = S.rows /\ v.len = S.len /\ v.k = S.k /\ v.bb = S.bb /\ v.cnt = S.cnt
            BY <1>6, <3>1, <3>2 DEF S
        <3> QED BY <1>2, <3>1, <3>2, <3>3, SameRowsOfS
    <2> QED BY <2>1
<1>15. Outputs(h, st)'
    <2>1. me'["R"].out = me["R"].out /\ me'["R"].cnt = me["R"].cnt
        BY <1>1, <1>4, <1>6 DEF Party
    <2> QED BY <1>2, <2>1, OutputsKept
<1>16. /\ me'[Peer(p)] = me[Peer(p)] /\ IsObject(me[p])' /\ DataAt(me[p], x)' /\ st[p] # 4
    BY <1>4, <1>5, <1>7, <1>10, Peers DEF IsObject
<1> QED BY <1>2, <1>4, <1>8, <1>9, <1>11, <1>12, <1>13, <1>14, <1>15, <1>16, Settles

\* What a new round, that makes sense to a party at z, leaves of the history
LEMMA PlaceGrows ==
    ASSUME NEW z \in Places, NEW l \in Nat, PlaceOK(z, l + 1), NEW plan \in Plans,
           "pre" \in plan.new => z.epoch > 0 \/ "setup" \in plan.new,
           NEW n, n = l + 1, NEW y, y = PlaceAt(z, n, plan, "S", 9),
           plans' = Append(plans, plan), plans \in Seq(Plans), Len(plans) = l
    PROVE  PlaceOK(y, n + 1)' /\ y \in Places
<1>1. /\ y.start = (IF "setS" \in plan.new THEN n ELSE z.start)
      /\ y.pos = (IF "pre" \in plan.new THEN FirstAt(z, plan, "S", 9) + Rounded(plan.len)
                  ELSE FirstAt(z, plan, "S", 9))
      /\ y.pre = (IF "pre" \in plan.new THEN n ELSE z.pre)
      /\ y.chosen = (IF "pre" \in plan.new THEN n ELSE z.chosen)
      /\ y.of = (IF "pre" \in plan.new THEN EpochAt(z, plan, "S", 9) ELSE z.of)
    BY PlaceFields
<1>2. n \in Nat /\ n > 0 /\ y \in Places
    BY PlaceType
<1>3. z.pos \in Nat /\ z.epoch \in Nat /\ z.pre \in 0..l /\ z.chosen = z.pre /\ z.start \in Nat
    BY DEF Places, PlaceOK
<1>4. plans'[n] = plan /\ \A m \in 1..l : plans'[m] = plans[m]
    OBVIOUS
<1>5. y.pos % Width = 0
    <2>1. z.pos % Width = 0 /\ Width \in Nat \ {0} /\ 0 % Width = 0
        BY MyOtAssumption DEF PlaceOK
    <2>2. FirstAt(z, plan, "S", 9) \in Nat /\ FirstAt(z, plan, "S", 9) % Width = 0
        BY <1>3, <2>1 DEF FirstAt
    <2>3. Rounded(plan.len) \in Nat /\ Rounded(plan.len) % Width = 0
        BY PlanFacts, RoundedFacts
    <2>4. (FirstAt(z, plan, "S", 9) + Rounded(plan.len)) % Width = 0
        BY <2>1, <2>2, <2>3, MultipleSum
    <2> QED BY <1>1, <2>2, <2>4
<1>6. y.pre \in 0..n /\ y.chosen = y.pre
    BY <1>1, <1>2, <1>3
<1>7. y.start = 0 => \A m \in 1..n : "setS" \notin plans'[m].new
    <2>1. z.start = 0 => \A m \in 1..l : "setS" \notin plans[m].new
        BY DEF PlaceOK
    <2>2. \A m \in 1..n : m \in 1..l \/ m = n
        OBVIOUS
    <2> QED BY <1>1, <1>2, <1>4, <2>1, <2>2
<1>8. \A m \in (y.pre + 1)..n : "pre" \notin plans'[m].new
    <2>1. \A m \in (z.pre + 1)..l : "pre" \notin plans[m].new
        BY DEF PlaceOK
    <2>2. CASE "pre" \in plan.new
        BY <1>1, <1>2, <2>2
    <2>3. CASE "pre" \notin plan.new
        <3>1. \A m \in (z.pre + 1)..n : (m \in (z.pre + 1)..l /\ m \in 1..l) \/ m = n
            BY <1>3
        <3> QED BY <1>1, <1>4, <2>1, <2>3, <3>1
    <2> QED BY <2>2, <2>3
<1>9. y.pre > 0 => "pre" \in plans'[y.pre].new /\ y.of > 0
    <2>1. CASE "pre" \in plan.new
        <3>1. EpochAt(z, plan, "S", 9) > 0
            BY <1>3, <2>1 DEF EpochAt, Renewed
        <3> QED BY <1>1, <1>4, <2>1, <3>1
    <2>2. CASE "pre" \notin plan.new
        <3>1. y.pre = z.pre /\ y.of = z.of
            BY <1>1, <2>2
        <3>2. z.pre > 0 => z.pre \in 1..l
            BY <1>3
        <3>3. z.pre > 0 => "pre" \in plans[z.pre].new /\ z.of > 0
            BY DEF PlaceOK
        <3>4. z.pre > 0 => plans'[z.pre] = plans[z.pre]
            BY <1>4, <3>2
        <3> QED BY <3>1, <3>3, <3>4
    <2> QED BY <2>1, <2>2
<1>10. (n + 1) - 1 = n
    BY <1>2
<1> QED BY <1>2, <1>5, <1>6, <1>7, <1>8, <1>9, <1>10 DEF PlaceOK

LEMMA HistoryGrows ==
    ASSUME NEW h, History(h), Asked(h), NEW plan \in Plans, plans' = Append(plans, plan), api' = api,
           NEW z, z = h[Len(plans) + 1], api \in plan.apis, plans # <<>> => plan.items = plans[1].items,
           "pre" \in plan.new => z.epoch > 0 \/ "setup" \in plan.new,
           "pre" \notin plan.new /\ z.pre > 0 => plan.use <= plans[z.pre].len
    PROVE  \E h2 : /\ Extends(h, h2) /\ History(h2)' /\ Asked(h2)'
                   /\ Len(plans') = Len(plans) + 1 /\ plans'[Len(plans) + 1] = plan
<1>1. PICK l, n : l = Len(plans) /\ n = l + 1
    OBVIOUS
<1>2. PICK y : y = PlaceAt(z, n, plan, "S", 9)
    OBVIOUS
<1>3. PICK h2 : h2 = Append(h, y)
    OBVIOUS
<1>4. /\ l \in Nat /\ n \in Nat /\ n \in 1..Len(h) /\ Len(h) = n /\ z = h[n] /\ plans \in Seq(Plans)
      /\ h \in Seq(Places) /\ Len(plans) = l
    BY <1>1, HistoryFacts DEF History
<1>5. z \in Places /\ PlaceOK(z, n)
    BY <1>4, HistoryFacts
<1>6. PlaceOK(y, n + 1)' /\ y \in Places
    BY <1>1, <1>2, <1>4, <1>5, PlaceGrows
<1>7. /\ plans' \in Seq(Plans) /\ Len(plans') = n /\ plans'[n] = plan
      /\ \A m \in 1..l : plans'[m] = plans[m]
    BY <1>1, <1>4
<1>8. /\ h2 \in Seq(Places) /\ Len(h2) = n + 1 /\ h2[n + 1] = y
      /\ \A m \in 1..n : h2[m] = h[m]
    BY <1>3, <1>4, <1>6
<1>9. Extends(h, h2)
    BY <1>1, <1>4, <1>7, <1>8 DEF Extends
<1>10. \A a, m, q : PlaceAt(a, m, q, "S", 9)' = PlaceAt(a, m, q, "S", 9)
    BY DEF PlaceAt, EpochAt, FirstAt, Renewed, ByS, ByR
<1>11. \A m \in 1..n : h2[m + 1] = PlaceAt(h2[m], m, plans[m], "S", 9)'
    <2> SUFFICES ASSUME NEW m \in 1..n
                 PROVE  h2[m + 1] = PlaceAt(h2[m], m, plans[m], "S", 9)'
        OBVIOUS
    <2>1. CASE m = n
        BY <1>2, <1>4, <1>7, <1>8, <1>10, <2>1
    <2>2. CASE m # n
        <3>1. m \in 1..l /\ m \in 1..n /\ m + 1 \in 1..n
            BY <1>1, <1>4, <2>2
        <3>2. h[m + 1] = PlaceAt(h[m], m, plans[m], "S", 9)
            BY <1>4, <3>1, HistoryFacts
        <3> QED BY <1>7, <1>8, <1>10, <3>1, <3>2
    <2> QED BY <2>1, <2>2
<1>12. \A m \in 1..(n + 1) : PlaceOK(h2[m], m)'
    <2> SUFFICES ASSUME NEW m \in 1..(n + 1)
                 PROVE  PlaceOK(h2[m], m)'
        OBVIOUS
    <2>1. CASE m = n + 1
        BY <1>6, <1>8, <2>1
    <2>2. CASE m # n + 1
        <3>1. PICK a : a = h[m]
            OBVIOUS
        <3>2. m \in 1..n /\ m \in 1..Len(h)
            BY <1>4, <2>2
        <3>3. PlaceOK(a, m) /\ h2[m] = a
            BY <1>8, <3>1, <3>2, HistoryFacts
        <3>4. \A i \in 1..(m - 1) : plans'[i] = plans[i]
            BY <1>1, <1>4, <1>7, <3>2
        <3>5. a.pre \in 0..(m - 1)
            BY <3>3 DEF PlaceOK
        <3>6. \A i \in (a.pre + 1)..(m - 1) : i \in 1..(m - 1)
            BY <3>5
        <3>7. PlaceOK(a, m)'
            <4>1. a.start = 0 => \A i \in 1..(m - 1) : "setS" \notin plans'[i].new
                BY <3>3, <3>4 DEF PlaceOK
            <4>2. \A i \in (a.pre + 1)..(m - 1) : "pre" \notin plans'[i].new
                <5> SUFFICES ASSUME NEW i \in (a.pre + 1)..(m - 1)
                             PROVE  "pre" \notin plans'[i].new
                    OBVIOUS
                <5>1. "pre" \notin plans[i].new
                    BY <3>3 DEF PlaceOK
                <5>2. plans'[i] = plans[i]
                    BY <3>4, <3>6
                <5> QED BY <5>1, <5>2
            <4>3. a.pre > 0 => "pre" \in plans'[a.pre].new /\ a.of > 0
                <5>1. a.pre > 0 => a.pre \in 1..(m - 1)
                    BY <3>2, <3>5
                <5> QED BY <3>3, <3>4, <5>1 DEF PlaceOK
            <4>4. a.pos % Width = 0 /\ a.chosen = a.pre
                BY <3>3 DEF PlaceOK
            <4> QED BY <3>5, <4>1, <4>2, <4>3, <4>4 DEF PlaceOK
        <3> QED BY <3>3, <3>7
    <2> QED BY <2>1, <2>2
<1>13. \A i, j \in 1..(n + 1) : i <= j => h2[i].s <= h2[j].s /\ h2[i].r <= h2[j].r
    <2>1. \A i, j \in 1..n : i <= j => h[i].s <= h[j].s /\ h[i].r <= h[j].r
        BY <1>4 DEF History
    <2>2. z.s <= y.s /\ z.r <= y.r
        <3>1. /\ Sent(z, "S") <= Sent(PlaceAt(z, n, plan, "S", 9), "S")
              /\ Sent(PlaceAt(z, n, plan, "R", 9), "R") <= Sent(PlaceAt(z, n, plan, "S", 9), "R")
              /\ Sent(z, "R") <= Sent(PlaceAt(z, n, plan, "R", 9), "R")
            BY <1>4, <1>5, SentGrows DEF Party, Stages
        <3>2. PlaceAt(z, n, plan, "R", 9) = y
            BY <1>2, <1>4, <1>5, PlaceEnds DEF Party
        <3> QED BY <1>2, <3>1, <3>2 DEF Sent
    <2>3. y.s \in Nat /\ y.r \in Nat /\ \A i \in 1..n : h[i].s \in Nat /\ h[i].r \in Nat
        BY <1>4, <1>6, HistoryFacts DEF Places
    <2>4. \A i \in 1..n : h[i].s <= y.s /\ h[i].r <= y.r
        <3> SUFFICES ASSUME NEW i \in 1..n
                     PROVE  h[i].s <= y.s /\ h[i].r <= y.r
            OBVIOUS
        <3>1. n \in 1..n /\ i <= n
            BY <1>4
        <3>2. h[i].s <= h[n].s /\ h[i].r <= h[n].r
            BY <2>1, <3>1
        <3>3. h[i].s <= z.s /\ h[i].r <= z.r
            BY <1>4, <3>2
        <3>4. {h[i].s, h[i].r, z.s, z.r, y.s, y.r} \subseteq Nat
            BY <1>4, <2>3, <3>1
        <3> QED BY <2>2, <3>3, <3>4
    <2> SUFFICES ASSUME NEW i \in 1..(n + 1), NEW j \in 1..(n + 1), i <= j
                 PROVE  h2[i].s <= h2[j].s /\ h2[i].r <= h2[j].r
        OBVIOUS
    <2>5. CASE j # n + 1
        <3>1. i \in 1..n /\ j \in 1..n
            BY <1>4, <2>5
        <3>2. h2[i] = h[i] /\ h2[j] = h[j]
            BY <1>8, <3>1
        <3> QED BY <2>1, <3>1, <3>2
    <2>6. CASE j = n + 1 /\ i # n + 1
        <3>1. i \in 1..n
            BY <1>4, <2>6
        <3>2. h2[i] = h[i] /\ h2[j] = y
            BY <1>8, <2>6, <3>1
        <3> QED BY <2>4, <3>1, <3>2
    <2>7. CASE j = n + 1 /\ i = n + 1
        BY <1>8, <2>3, <2>7
    <2> QED BY <2>5, <2>6, <2>7
<1>14. History(h2)'
    <2>1. h2[1] = Origin
        BY <1>4, <1>8, HistoryFacts
    <2> QED BY <1>7, <1>8, <1>11, <1>12, <1>13, <2>1 DEF History
<1>15. Asked(h2)'
    <2> SUFFICES ASSUME NEW m \in 1..n
                 PROVE  /\ api \in plans'[m].apis /\ plans'[m].items = plans'[1].items
                        /\ h2[m + 1].pre > 0 => plans'[m].use <= plans'[h2[m + 1].pre].len
                        /\ "pre" \in plans'[m].new /\ "setup" \notin plans'[m].new => h2[m].epoch > 0
        BY <1>7 DEF Asked
    <2>1. CASE m = n
        <3>1. plans'[m].items = plans'[1].items
            <4>1. CASE l = 0
                BY <1>1, <1>7, <2>1, <4>1
            <4>2. CASE l # 0
                <5>1. plans # <<>> /\ plans'[1] = plans[1]
                    BY <1>4, <1>7, <4>2
                <5> QED BY <1>7, <2>1, <5>1
            <4> QED BY <4>1, <4>2
        <3>2. y.pre = IF "pre" \in plan.new THEN n ELSE z.pre
            BY <1>2, PlaceFields
        <3>3. y.pre > 0 => plan.use <= plans'[y.pre].len
            <4>1. CASE "pre" \in plan.new
                BY <1>7, <3>2, <4>1, PlanFacts
            <4>2. CASE "pre" \notin plan.new
                <5>1. z.pre \in 0..l
                    BY <1>1, <1>4, <1>5 DEF PlaceOK
                <5>2. z.pre > 0 => plans'[z.pre] = plans[z.pre]
                    BY <1>4, <1>7, <5>1
                <5> QED BY <3>2, <4>2, <5>2
            <4> QED BY <4>1, <4>2
        <3>4. h2[m + 1] = y /\ plans'[m] = plan /\ h2[m] = z
            BY <1>4, <1>7, <1>8, <2>1
        <3> QED BY <3>1, <3>3, <3>4
    <2>2. CASE m # n
        <3>1. m \in 1..l /\ m \in 1..n /\ m + 1 \in 1..n /\ 1 \in 1..l
            BY <1>1, <1>4, <2>2
        <3>2. PICK a : a = h[m + 1]
            OBVIOUS
        <3>3. plans'[m] = plans[m] /\ plans'[1] = plans[1] /\ h2[m + 1] = a /\ h2[m] = h[m]
            BY <1>7, <1>8, <3>1, <3>2
        <3>4. a.pre \in 0..m
            <4>1. m + 1 \in 1..Len(h) /\ m \in Nat /\ (m + 1) - 1 = m
                BY <1>4, <3>1
            <4>2. PlaceOK(a, m + 1)
                BY <3>2, <4>1, HistoryFacts
            <4> QED BY <4>1, <4>2 DEF PlaceOK
        <3>5. a.pre > 0 => plans'[a.pre] = plans[a.pre]
            BY <1>7, <3>1, <3>4
        <3>6. /\ api \in plans[m].apis /\ plans[m].items = plans[1].items
              /\ a.pre > 0 => plans[m].use <= plans[a.pre].len
              /\ "pre" \in plans[m].new /\ "setup" \notin plans[m].new => h[m].epoch > 0
            BY <1>4, <3>1, <3>2 DEF Asked
        <3> QED BY <3>3, <3>5, <3>6
    <2> QED BY <2>1, <2>2
<1> QED BY <1>1, <1>7, <1>9, <1>14, <1>15

\* What R has got stays right, as its round or its stage goes on.
LEMMA OutputsLater ==
    ASSUME NEW h, NEW st, History(h), Objects(h, st), Outputs(h, st), NEW h2, Extends(h, h2), NEW st2,
           me'["R"].out = me["R"].out,
           \A n \in 1..Len(R.out) :
               (n = me'["R"].cnt /\ st2["R"] = 8) <=> (n = me["R"].cnt /\ st["R"] = 8)
    PROVE  Outputs(h2, st2)'
<1> SUFFICES ASSUME NEW n \in 1..Len(me["R"].out)
             PROVE  /\ h2[n + 1].pre > 0
                    /\ api' = "ot" \/ (api' = "not" /\ n = me'["R"].cnt /\ st2["R"] = 8) =>
                           me'["R"].out[n] = TextsOf(h2, n)'
                    /\ api' = "not" /\ ~(n = me'["R"].cnt /\ st2["R"] = 8) =>
                           me'["R"].out[n] = <<n, plans'[h2[n + 1].pre].item>>
    BY DEF Outputs, R
<1>1. PICK v : v = me["R"].out[n]
    OBVIOUS
<1>2. /\ me["R"].cnt \in 0..Len(plans) /\ IsSeq(me["R"].out) /\ st["R"] \in Stages
      /\ Len(me["R"].out) = me["R"].cnt - Counted(st["R"] <= 7)
    BY DEF Objects, Staged, Party
<1>3. n \in 1..Len(plans) /\ Len(plans) \in Nat /\ n + 1 \in 1..(Len(plans) + 1)
    <2>1. Len(plans) \in Nat /\ Counted(st["R"] <= 7) \in Nat /\ Len(me["R"].out) \in Nat
        BY <1>2, HistoryFacts, CountedIs, IsSeqOf
    <2> QED BY <1>2, <2>1
<1>4. PICK b : b = h[n + 1].pre
    OBVIOUS
<1>5. b \in 0..n
    <2>1. n + 1 \in 1..Len(h) /\ (n + 1) - 1 = n
        BY <1>3, HistoryFacts
    <2>2. PlaceOK(h[n + 1], n + 1)
        BY <2>1, HistoryFacts
    <2> QED BY <1>4, <2>1, <2>2 DEF PlaceOK
<1>6. plans'[n] = plans[n] /\ h2[n + 1] = h[n + 1] /\ api' = api /\ (b > 0 => plans'[b] = plans[b])
    <2>1. b > 0 => b \in 1..Len(plans)
        BY <1>3, <1>5
    <2> QED BY <1>3, <2>1 DEF Extends
<1>7. /\ b > 0
      /\ api = "ot" \/ (api = "not" /\ n = me["R"].cnt /\ st["R"] = 8) => v = TextsOf(h, n)
      /\ api = "not" /\ ~(n = me["R"].cnt /\ st["R"] = 8) => v = <<n, plans[b].item>>
    BY <1>1, <1>4 DEF Outputs, R
<1>8. TextsOf(h2, n)' = TextsOf(h, n)
    <2>1. plans'[b] = plans[b] /\ h2[n + 1].pre = b /\ plans'[n] = plans[n] /\ api' = api
        BY <1>4, <1>6, <1>7
    <2>2. \A i : Chosen(h2[n + 1], i)' <=> Chosen(h[n + 1], i)
        BY <1>4, <2>1 DEF Chosen
    <2>3. \A i : Chosen(h2[n + 1], i)' = Chosen(h[n + 1], i)
        BY <1>4, <2>1 DEF Chosen
    <2> QED BY <2>1, <2>3 DEF TextsOf
<1>9. (n = me'["R"].cnt /\ st2["R"] = 8) <=> (n = me["R"].cnt /\ st["R"] = 8)
    BY DEF R
<1> QED BY <1>1, <1>4, <1>6, <1>7, <1>8, <1>9

\* A program with nothing to do is between rounds.
LEMMA AtRest ==
    ASSUME NEW h, NEW st, AllHold(h, st), NEW p \in Party, me[p].todo = <<>>
    PROVE  st[p] = 9
<1>1. PICK k, n, plan : k = st[p] /\ n = me[p].cnt /\ plan = plans[n]
    OBVIOUS
<1>2. api \in Kinds /\ Staged(st, p) /\ History(h)
    BY DEF AllHold, Kinds, Objects
<1>3. SUFFICES ASSUME k < 9 PROVE FALSE
    BY <1>1, <1>2 DEF Staged, Stages
<1>4. n \in 1..Len(plans) /\ k \in 1..8 /\ InPlan(plan, k) /\ me[p].todo = TodoAt(plan, p, k)
    <2>1. <<"error">> # <<>>
        OBVIOUS
    <2>2. /\ n \in 0..Len(plans) /\ k \in Stages /\ n > 0 /\ InPlan(plan, k)
          /\ me[p].todo = TodoAt(plan, p, k) \/ me[p].todo = <<"error">>
        BY <1>1, <1>2, <1>3 DEF Staged
    <2>3. Len(plans) \in Nat
        BY <1>2, HistoryFacts
    <2> QED BY <1>3, <2>1, <2>2, <2>3 DEF Stages
<1>5. plan \in Plans
    BY <1>1, <1>2, <1>4, HistoryFacts
<1> QED BY <1>2, <1>4, <1>5, HeadOfTodo

BeginsWith(p, plan) ==
    mail' = mail /\ me' = [me EXCEPT ![p].cnt = @ + 1, ![p].todo = Methods(plan, p)]

\* A program begins its next round, which the other may have begun before it.
LEMMA BeginsRound ==
    ASSUME NEW h, NEW st, AllHold(h, st), NEW p \in Party, st[p] = 9,
           NEW h2, Extends(h, h2), History(h2)', Asked(h2)', Len(plans') <= Len(plans) + 1,
           NEW n, n = me[p].cnt + 1, n \in 1..Len(plans'), NEW plan \in Plans, plans'[n] = plan,
           BeginsWith(p, plan)
    PROVE  \E st2 : AllHold(h2, st2)'
<1>1. PICK o, todo : o = me[p] /\ todo = Methods(plan, p)
    OBVIOUS
<1>2. PICK r : r = [o EXCEPT !.cnt = @ + 1, !.todo = todo]
    OBVIOUS
<1>3. /\ api \in Kinds /\ History(h) /\ Asked(h) /\ Objects(h, st) /\ Outputs(h, st) /\ api' = api
    BY DEF AllHold, Kinds, Extends
<1>4. me = [q \in Party |-> me[q]] /\ IsObject(o) /\ Staged(st, p) /\ DataAt(o, At(h, st, p))
    BY <1>1, <1>3 DEF Objects
<1>5. /\ me' = [q \in Party |-> me'[q]] /\ me'[p] = r
      /\ (\A q \in Party : q # p => me'[q] = me[q]) /\ mail' = mail
    BY <1>1, <1>2, <1>4 DEF BeginsWith
<1>6. IsObject(r) /\ r.todo = todo /\ r.cnt = n /\ \A f \in Fields \ {"todo", "cnt"} : r[f] = o[f]
    <2>1. o = [f \in Fields |-> o[f]] /\ "todo" \in Fields /\ "cnt" \in Fields
        BY <1>4 DEF IsObject, Fields
    <2>2. r = [f \in Fields |-> r[f]]
        BY <1>2, <2>1
    <2> QED BY <1>1, <1>2, <2>1, <2>2, ObjectByDomain
<1>7. /\ r.start = o.start /\ r.gid = o.gid /\ r.epoch = o.epoch /\ r.pos = o.pos
      /\ r.isSet = o.isSet /\ r.len = o.len /\ r.rows = o.rows /\ r.isSetup = o.isSetup
      /\ r.item = o.item /\ r.out = o.out /\ r.s = o.s /\ r.bb = o.bb /\ r.k = o.k /\ r.r = o.r
    BY <1>6 DEF Fields
<1>8. PICK x : x = At(h, st, p)
    OBVIOUS
<1>9. o.cnt \in 0..Len(plans) /\ Len(plans) \in Nat /\ n \in 1..(Len(plans) + 1) /\ n \in Nat
      /\ o.cnt = n - 1 /\ x = h[n] /\ h2[n] = x /\ x \in Places /\ IsSeq(o.out) /\ Len(o.out) = n - 1
    <2>1. o.cnt \in 0..Len(plans) /\ Len(plans) \in Nat /\ IsSeq(o.out)
          /\ Len(o.out) = o.cnt - Counted(st[p] <= 7)
        BY <1>1, <1>3, <1>4, HistoryFacts DEF Staged
    <2>2. Counted(st[p] <= 7) = 0
        BY DEF Counted
    <2>3. n \in 1..(Len(plans) + 1) /\ n \in Nat /\ o.cnt = n - 1
        BY <1>1, <2>1
    <2>4. x = h[n]
        BY <1>1, <1>8 DEF At
    <2>5. h2[n] = h[n]
        BY <2>3 DEF Extends
    <2>6. x \in Places
        BY <1>3, <2>1, <2>3, <2>4, HistoryFacts
    <2> QED BY <2>1, <2>2, <2>3, <2>4, <2>5, <2>6
<1>10. PICK k : k = Upon(plan, 0)
    OBVIOUS
<1>11. k \in 1..7 /\ InPlan(plan, k) /\ todo = TodoAt(plan, p, k)
    BY <1>1, <1>3, <1>10, FirstStage
<1>12. PICK st2 : st2 = [q \in Party |-> IF q = p THEN k ELSE st[q]]
    OBVIOUS
<1>13. st2[p] = k /\ st2[Peer(p)] = st[Peer(p)] /\ me'[Peer(p)] = me[Peer(p)]
    BY <1>5, <1>12, Peers
<1>14. PICK y : y = PlaceAt(x, n, plan, p, k)
    OBVIOUS
<1>15. /\ y.start = x.start /\ y.gid = x.gid /\ y.epoch = x.epoch /\ y.pos = x.pos
       /\ y.pre = x.pre /\ (api = "not" => y.chosen = x.chosen) /\ y.of = x.of
       /\ y.first = x.first /\ y.s = x.s /\ y.r = x.r
    <2>1. x \in Places /\ n \in Nat
        BY <1>9
    <2>2. y = PlaceAt(x, n, plan, p, Upon(plan, 0))
        BY <1>10, <1>14
    <2> QED BY <2>1, <2>2, PlaceBegins
<1>16. y = At(h2, st2, p)'
    <2>1. At(h2, st2, p)' = PlaceAt(x, n, plan, p, k)'
        <3>1. me'[p].cnt = n /\ st2[p] = k /\ k # 9 /\ h2[n] = x /\ plans'[n] = plan
            BY <1>5, <1>6, <1>9, <1>11, <1>13
        <3>2. At(h2, st2, p)' = PlaceAt(h2[me[p].cnt], me[p].cnt, plans[me[p].cnt], p, st2[p])'
            BY <3>1 DEF At
        <3> QED BY <3>1, <3>2
    <2>2. PlaceAt(x, n, plan, p, k)' = PlaceAt(x, n, plan, p, k)
        BY <1>3, PlaceSame
    <2> QED BY <1>14, <2>1, <2>2
<1>17. /\ x.pre \in 0..Len(plans) /\ x.chosen \in 0..Len(plans)
       /\ x.pre > 0 => plans'[x.pre] = plans[x.pre]
       /\ x.chosen > 0 => plans'[x.chosen] = plans[x.chosen]
    <2>1. x.pre \in 0..Len(plans) /\ x.chosen \in 0..Len(plans)
        BY <1>3, <1>8, PlaceBounds
    <2>2. x.pre > 0 => x.pre \in 1..Len(plans)
        BY <1>9, <2>1
    <2>3. x.chosen > 0 => x.chosen \in 1..Len(plans)
        BY <1>9, <2>1
    <2>4. \A m \in 1..Len(plans) : plans'[m] = plans[m]
        BY DEF Extends
    <2> QED BY <2>1, <2>2, <2>3, <2>4
<1>18. DataAt(r, y)'
    <2>1. DataAt(o, x)
        BY <1>4, <1>8
    <2> QED BY <1>3, <1>7, <1>15, <1>17, <2>1 DEF DataAt
<1>19. Staged(st2, p)'
    <2>1. TodoAt(plan, p, k)' = TodoAt(plan, p, k) /\ InPlan(plan, k)'
        BY <1>3, <1>11, SamePlan
    <2>2. /\ me'[p] = r /\ r.cnt = n /\ n \in 0..Len(plans') /\ n > 0 /\ st2[p] = k /\ k \in Stages /\ k < 9
          /\ r.todo = TodoAt(plan, p, k)' /\ IsSeq(r.out)' /\ Len(r.out) = n - Counted(k <= 7)
          /\ plans'[n] = plan
        <3>1. Counted(k <= 7) = 1
            BY <1>11 DEF Counted
        <3>2. IsSeq(r.out)'
            BY <1>7, <1>9 DEF IsSeq
        <3>3. n \in 0..Len(plans') /\ n > 0 /\ k \in Stages /\ k < 9
            BY <1>9, <1>11 DEF Stages, Extends
        <3>4. Len(r.out) = n - 1 /\ r.cnt = n /\ r.todo = TodoAt(plan, p, k)'
            BY <1>6, <1>7, <1>9, <1>11, <2>1
        <3> QED BY <1>5, <1>13, <3>1, <3>2, <3>3, <3>4
    <2> QED BY <2>1, <2>2 DEF Staged, Counted
<1>20. p = "R" => DataOfR(y)'
    <2>1. ASSUME p = "R" PROVE DataOfR(y)'
        <3>1. DataOfR(x) /\ R = o /\ R' = r
            BY <1>1, <1>3, <1>5, <1>8, <2>1 DEF Objects, R
        <3>2. \A i : RowIn(y, i)' = RowIn(x, i)
            BY <1>15 DEF RowIn, Row, Drawn, PrgKey
        <3> QED BY <1>7, <1>15, <1>17, <3>1, <3>2 DEF DataOfR
    <2> QED BY <2>1
<1>21. p = "S" => DataOfS(st2, y)'
    <2>1. ASSUME p = "S" PROVE DataOfS(st2, y)'
        <3>1. DataOfS(st, x) /\ S = o /\ S' = r /\ st["S"] = 9 /\ st2["S"] = k
            BY <1>1, <1>3, <1>5, <1>8, <1>13, <2>1 DEF Objects, S
        <3>2. ~Renews(st) /\ st["S"] \notin 3..4
            BY <3>1 DEF Renews
        <3>3. k \notin 3..4
            BY <1>10 DEF Upon
        <3>4. \A i : RowIn(y, i)' = RowIn(x, i)
            BY <1>15 DEF RowIn, Row, Drawn, PrgKey
        <3>5. Delta' = Delta
            BY <1>7, <3>1 DEF Delta, One
        <3>6. \A e, s : KeysFor(e, s)' = KeysFor(e, s)
            BY DEF KeysFor, KeyFor, PrgKey
        <3>7. x.pre > 0 => \A i \in 0..(o.len - 1) :
                  o.rows[i] = IF Chosen(x, i) THEN SymDiff(RowIn(x, i), Delta) ELSE RowIn(x, i)
            BY <3>1, <3>2 DEF DataOfS
        <3>8. x.pre > 0 => \A i : Chosen(y, i)' = Chosen(x, i)
            BY <1>15, <1>17 DEF Chosen
        <3>9. y.pre > 0 => \A i \in 0..(r.len - 1) :
                  r.rows[i] = IF Chosen(y, i)' THEN SymDiff(RowIn(y, i)', Delta') ELSE RowIn(y, i)'
            BY <1>7, <1>15, <3>4, <3>5, <3>7, <3>8
        <3>10. y.epoch > 0 => r.k = KeysFor(y.epoch, r.s)'
            BY <1>7, <1>15, <3>1, <3>2, <3>6 DEF DataOfS
        <3>11. r.s \subseteq Cols /\ k # 4
            BY <1>7, <3>1, <3>3 DEF DataOfS
        <3>12. \A s, t : SymDiff(s, t)' = SymDiff(s, t)
            OBVIOUS
        <3> QED BY <3>1, <3>9, <3>10, <3>11, <3>12 DEF DataOfS
    <2> QED BY <2>1
<1>22. Outputs(h2, st2)'
    <2>1. me'["R"].out = me["R"].out
        BY <1>1, <1>5, <1>7 DEF Party
    <2>2. \A m \in 1..Len(R.out) :
               (m = me'["R"].cnt /\ st2["R"] = 8) <=> (m = me["R"].cnt /\ st["R"] = 8)
        <3>1. CASE p = "R"
            <4>1. k # 8 /\ st2["R"] = k /\ st["R"] = 9
                BY <1>11, <1>13, <3>1
            <4> QED BY <4>1
        <3>2. CASE p # "R"
            BY <1>5, <1>12, <3>2 DEF Party
        <3> QED BY <3>1, <3>2
    <2> QED BY <1>3, <2>1, <2>2, OutputsLater
<1>23. Sent(y, p) = Sent(At(h, st, p), p) /\ Got(y, p) = Got(At(h, st, p), p)
    BY <1>8, <1>15 DEF Sent, Got
<1>24. IsObject(me[p])' /\ DataAt(me[p], y)' /\ st[p] # 4
    <2>1. IsObject(r)' /\ me'[p] = r
        BY <1>5, <1>6 DEF IsObject
    <2> QED BY <1>18, <2>1
<1>25. me' = [q \in Party |-> me'[q]] /\ me'[Peer(p)] = me[Peer(p)] /\ st2[Peer(p)] = st[Peer(p)]
          /\ mail' = mail /\ st[p] # 4
    BY <1>5, <1>13
<1>26. AllHold(h2, st2)'
    BY <1>25, <1>16, <1>19, <1>20, <1>21, <1>22, <1>23, <1>24, Settles
<1> QED BY <1>26

LEMMA BeginKeeps ==
    ASSUME NEW h, NEW st, AllHold(h, st), NEW p \in Party, Begin(p)
    PROVE  \E h2, st2 : AllHold(h2, st2)'
<1>1. /\ api \in Kinds /\ History(h) /\ Asked(h) /\ Objects(h, st) /\ Len(plans) \in Nat
    BY HistoryFacts DEF AllHold, Kinds
<1>2. PICK plan \in Plans :
          /\ me[p].todo = <<>>
          /\ IF me[p].cnt < Len(plans) THEN plan = plans[me[p].cnt + 1] /\ UNCHANGED plans
             ELSE /\ Len(plans) < MaxRounds /\ Sensible(me[p], plan)
                  /\ plans' = Append(plans, plan)
          /\ me' = [me EXCEPT ![p].cnt = @ + 1, ![p].todo = Methods(plan, p)]
          /\ UNCHANGED <<api, mail>>
    BY DEF Begin
<1>3. PICK n : n = me[p].cnt + 1
    OBVIOUS
<1>4. st[p] = 9
    BY <1>2, AtRest
<1>5. me[p].cnt \in 0..Len(plans) /\ n \in Nat /\ n > 0 /\ me[p].cnt = n - 1
    BY <1>1, <1>3 DEF Objects, Staged
<1>6. CASE me[p].cnt < Len(plans)
    <2>1. plan = plans[n] /\ plans' = plans /\ n \in 1..Len(plans) /\ api' = api /\ mail' = mail
        BY <1>1, <1>2, <1>3, <1>5, <1>6
    <2>2. Extends(h, h) /\ History(h)' /\ Asked(h)' /\ Len(plans') <= Len(plans) + 1
        BY <1>1, <2>1, SameHistory DEF Extends
    <2>3. n \in 1..Len(plans') /\ plans'[n] = plan /\ BeginsWith(p, plan)
        BY <1>2, <2>1 DEF BeginsWith
    <2>4. \E st2 : AllHold(h, st2)'
        BY <1>3, <1>4, <2>2, <2>3, BeginsRound
    <2> QED BY <2>4
<1>7. CASE ~(me[p].cnt < Len(plans))
    <2>1. n = Len(plans) + 1 /\ Sensible(me[p], plan)
          /\ plans' = Append(plans, plan) /\ api' = api /\ mail' = mail
        BY <1>1, <1>2, <1>3, <1>5, <1>7
    <2>2. PICK z : z = h[n]
        OBVIOUS
    <2>3. DataAt(me[p], z) /\ z.pre \in 0..Len(plans)
        <3>1. z = At(h, st, p)
            BY <1>3, <1>4, <2>2 DEF At
        <3> QED BY <1>1, <3>1, PlaceBounds DEF Objects
    <2>4. /\ api \in plan.apis /\ (plans # <<>> => plan.items = plans[1].items)
          /\ "pre" \in plan.new => z.epoch > 0 \/ "setup" \in plan.new
          /\ "pre" \notin plan.new /\ z.pre > 0 => plan.use <= plans[z.pre].len
        BY <2>1, <2>3 DEF Sensible, DataAt
    <2>5. z = h[Len(plans) + 1]
        BY <2>1, <2>2
    <2>6. PICK h2 : /\ Extends(h, h2) /\ History(h2)' /\ Asked(h2)'
                    /\ Len(plans') = Len(plans) + 1 /\ plans'[Len(plans) + 1] = plan
        BY <1>1, <2>1, <2>4, <2>5, HistoryGrows
    <2>7. n \in 1..Len(plans') /\ plans'[n] = plan /\ Len(plans') <= Len(plans) + 1
        BY <1>1, <2>1, <2>6
    <2> BeginsWith(p, plan)
        BY <1>2, <2>1 DEF BeginsWith
    <2>8. \E st2 : AllHold(h2, st2)'
        BY <1>3, <1>4, <2>6, <2>7, BeginsRound
    <2> QED BY <2>8
<1> QED BY <1>6, <1>7

LEMMA StutterKeeps ==
    ASSUME NEW h, NEW st, AllHold(h, st), UNCHANGED vars
    PROVE  AllHold(h, st)'
<1>1. plans' = plans /\ api' = api /\ me' = me /\ mail' = mail
    BY DEF vars
<1>2. History(h)' /\ Asked(h)'
    BY <1>1, SameHistory DEF AllHold
<1>3. Objects(h, st) /\ Outputs(h, st) /\ Mailed(h, st)
    BY DEF AllHold
<1>4. \A p \in Party : /\ IsObject(me[p])' /\ Staged(st, p)' /\ DataAt(me[p], At(h, st, p))'
                       /\ (p = "R" => DataOfR(At(h, st, p))')
                       /\ (p = "S" => DataOfS(st, At(h, st, p))')
    BY <1>1, <1>3, Others
<1>5. Objects(h, st)'
    <2>1. me' = [p \in Party |-> me'[p]]
        BY <1>1, <1>3 DEF Objects
    <2>2. DataOfR(At(h, st, "R"))' /\ DataOfS(st, At(h, st, "S"))'
        BY <1>4 DEF Party
    <2> QED BY <1>4, <2>1, <2>2 DEF Objects
<1>6. Outputs(h, st)'
    BY <1>1, <1>3, OutputsKept
<1>7. Mailed(h, st)'
    <2>1. S' = S /\ R' = R
        BY <1>1 DEF S, R
    <2>2. \A n, k, p : PlaceAt(h[n], n, plans[n], p, k)' = PlaceAt(h[n], n, plans[n], p, k)
        BY <1>1 DEF PlaceAt, EpochAt, FirstAt, Renewed, ByS, ByR
    <2>3. \A p : At(h, st, p)' = At(h, st, p)
        BY <1>1, <2>2 DEF At
    <2>4. \A n, k, p : Number(h, p, n, k)' = Number(h, p, n, k)
        BY <2>2 DEF Number
    <2>5. \A p, i : Waiting(h, st, p, i)' = Waiting(h, st, p, i)
        BY <1>1, <2>3 DEF Waiting
    <2>6. \A p, n, k, m : Good(h, st, p, n, k, m)' <=> Good(h, st, p, n, k, m)
        BY <1>1, <2>1 DEF Good, GoodA, GoodB, GoodE, GoodU, GoodPads, GoodItems, BothAt, SealedFor,
               PadFor, TextsOf, Chosen, URow, Both, Row, RowIn, ItemFor
    <2>7. \A p, n, k : Sends(plans[n], p, k)' <=> Sends(plans[n], p, k)
        BY <1>1 DEF Sends, InPlan
    <2>8. mail' = [p \in Party |-> mail'[p]] /\ \A p \in Party : IsSeq(mail[p])'
        BY <1>1, <1>3 DEF Mailed, IsSeq
    <2>9. \A p \in Party :
              Len(mail'[Peer(p)]) = Sent(At(h, st, p)', p) - Got(At(h, st, Peer(p))', Peer(p))
        <3> SUFFICES ASSUME NEW p \in Party
                     PROVE  Len(mail'[Peer(p)]) = Sent(At(h, st, p)', p) - Got(At(h, st, Peer(p))', Peer(p))
            OBVIOUS
        <3>1. PICK q, x, y : q = Peer(p) /\ x = At(h, st, p) /\ y = At(h, st, q)
            OBVIOUS
        <3>2. Len(mail[q]) = Sent(x, p) - Got(y, q)
            BY <1>3, <3>1 DEF Mailed
        <3>3. At(h, st, p)' = x /\ At(h, st, q)' = y
            BY <2>3, <3>1
        <3> QED BY <1>1, <3>1, <3>2, <3>3
    <2>10. \A p \in Party : \A n \in 1..Len(plans) : \A k \in 1..8 :
            (/\ Sends(plans[n], p, k)
             /\ Number(h, p, n, k) > Got(At(h, st, Peer(p)), Peer(p))
             /\ Number(h, p, n, k) <= Sent(At(h, st, p), p)
             => Good(h, st, p, n, k, Waiting(h, st, p, Number(h, p, n, k))))'
        <3> SUFFICES ASSUME NEW p \in Party, NEW n \in 1..Len(plans), NEW k \in 1..8,
                            Sends(plans[n], p, k)',
                            Number(h, p, n, k)' > Got(At(h, st, Peer(p))', Peer(p)),
                            Number(h, p, n, k)' <= Sent(At(h, st, p)', p)
                     PROVE  Good(h, st, p, n, k, Waiting(h, st, p, Number(h, p, n, k)))'
            BY <1>1 DEF Got, Sent
        <3>1. PICK m : m = Waiting(h, st, p, Number(h, p, n, k))
            OBVIOUS
        <3>2. PICK i : i = Number(h, p, n, k)
            OBVIOUS
        <3>3. Sends(plans[n], p, k) /\ i > Got(At(h, st, Peer(p)), Peer(p)) /\ i <= Sent(At(h, st, p), p)
            <4>1. At(h, st, p)' = At(h, st, p) /\ At(h, st, Peer(p))' = At(h, st, Peer(p))
                BY <2>3
            <4>2. Number(h, p, n, k)' = i
                BY <2>4, <3>2
            <4> QED BY <1>1, <2>7, <4>1, <4>2
        <3>4. Good(h, st, p, n, k, m)
            BY <1>3, <3>1, <3>2, <3>3 DEF Mailed
        <3>5. Waiting(h, st, p, Number(h, p, n, k))' = m
            <4>1. Waiting(h, st, p, i)' = m
                BY <2>5, <3>1, <3>2
            <4>2. Number(h, p, n, k)' = i
                BY <2>4, <3>2
            <4> QED BY <4>1, <4>2
        <3> QED BY <2>6, <3>4, <3>5
    <2> QED BY <1>1, <2>8, <2>9, <2>10 DEF Mailed, Sent, Got
<1> QED BY <1>1, <1>2, <1>5, <1>6, <1>7 DEF AllHold

(*--------------------------- the invariant holds ------------------------*)
LEMMA ApiIsKind == Apis \subseteq Kinds
BY MyOtAssumption DEF Kinds

LEMMA InitInv == Init => IndInv
<1> SUFFICES ASSUME Init PROVE IndInv
    OBVIOUS
<1>1. PICK h, st : h = <<Origin>> /\ st = [p \in Party |-> 9]
    OBVIOUS
<1>2. api \in Kinds /\ plans = <<>> /\ me = [p \in Party |-> Object] /\ mail = [p \in Party |-> <<>>]
    BY ApiIsKind DEF Init
<1>3. Len(plans) = 0 /\ plans \in Seq(Plans) /\ Origin \in Places /\ h \in Seq(Places) /\ Len(h) = 1
      /\ h[1] = Origin
    BY <1>1, <1>2 DEF Origin, Places
<1>4. PlaceOK(Origin, 1)
    <2>1. Width \in Nat \ {0}
        BY MyOtAssumption
    <2>2. 0 % Width = 0
        BY <2>1
    <2> QED BY <2>2 DEF PlaceOK, Origin
<1>5. History(h)
    <2>1. \A n \in 1..Len(h) : n = 1
        BY <1>3
    <2>2. \A n \in 1..Len(h) : PlaceOK(h[n], n)
        BY <1>3, <1>4, <2>1
    <2>3. \A m, n \in 1..Len(h) : m <= n => h[m].s <= h[n].s /\ h[m].r <= h[n].r
        BY <1>3, <2>1 DEF Origin
    <2>4. \A n \in 1..Len(plans) : h[n + 1] = PlaceAt(h[n], n, plans[n], "S", 9)
        BY <1>3
    <2> QED BY <1>3, <2>2, <2>3, <2>4 DEF History
<1>6. Asked(h)
    BY <1>3 DEF Asked
<1>7. \A p \in Party : me[p] = Object /\ st[p] = 9 /\ mail[p] = <<>>
    BY <1>1, <1>2
<1>8. \A p \in Party : At(h, st, p) = Origin
    <2>1. Object.cnt + 1 = 1
        BY DEF Object
    <2> QED BY <1>3, <1>7, <2>1 DEF At
<1>9. IsObject(Object)
    BY DEF IsObject, Object
<1>10. \A p \in Party : Staged(st, p)
    <2>1. Object.cnt = 0 /\ Object.out = <<>> /\ Object.todo = <<>>
        BY DEF Object
    <2> QED BY <1>3, <1>7, <2>1, Empty DEF Staged, Stages, Counted
<1>11. DataAt(Object, Origin)
    BY DEF DataAt, Object, Origin
<1>12. Objects(h, st)
    <2>1. "R" \in Party /\ "S" \in Party
        BY DEF Party
    <2>2. DataOfR(At(h, st, "R"))
        BY <1>8, <2>1 DEF DataOfR, Origin
    <2>3. DataOfS(st, At(h, st, "S"))
        BY <1>7, <1>8, <2>1 DEF DataOfS, Origin, S, Object
    <2> QED BY <1>2, <1>7, <1>8, <1>9, <1>10, <1>11, <2>2, <2>3 DEF Objects
<1>13. Outputs(h, st)
    <2>1. R.out = <<>>
        BY <1>7 DEF R, Object, Party
    <2> QED BY <2>1, Empty DEF Outputs
<1>14. Mailed(h, st)
    <2>1. \A p \in Party : IsSeq(mail[p])
        BY <1>7, Empty
    <2>2. ASSUME NEW p \in Party
          PROVE  Len(mail[Peer(p)]) = Sent(At(h, st, p), p) - Got(At(h, st, Peer(p)), Peer(p))
        <3>1. Peer(p) \in Party
            BY Peers
        <3>2. Sent(Origin, p) = 0 /\ Got(Origin, Peer(p)) = 0
            BY DEF Sent, Got, Origin
        <3> QED BY <1>7, <1>8, <3>1, <3>2, Empty
    <2> QED BY <1>2, <1>3, <2>1, <2>2 DEF Mailed
<1> QED BY <1>2, <1>5, <1>6, <1>12, <1>13, <1>14 DEF AllHold, IndInv, Kinds

LEMMA MethodsKeep ==
    ASSUME NEW h, NEW st, AllHold(h, st), StepS \/ StepR
    PROVE  \E st2 : AllHold(h, st2)'
<1>1. CASE SSetS
    BY <1>1, SSetSKeeps
<1>2. CASE SSetup
    BY <1>2, SSetupKeeps
<1>3. CASE SBaseB
    BY <1>3, SBaseBKeeps
<1>4. CASE SBaseData
    BY <1>4, SBaseDataKeeps
<1>5. CASE SPre
    BY <1>5, SPreKeeps
<1>6. CASE SRot
    BY <1>6, SRotKeeps
<1>7. CASE SOt
    BY <1>7, SOtKeeps
<1>8. CASE SNot
    BY <1>8, SNotKeeps
<1>9. CASE RSetS
    BY <1>9, RSetSKeeps
<1>10. CASE RSetup
    BY <1>10, RSetupKeeps
<1>11. CASE RBaseA
    BY <1>11, RBaseAKeeps
<1>12. CASE RBaseE
    BY <1>12, RBaseEKeeps
<1>13. CASE RPre
    BY <1>13, RPreKeeps
<1>14. CASE RRot
    BY <1>14, RRotKeeps
<1>15. CASE ROt
    BY <1>15, ROtKeeps
<1>16. CASE RNot
    BY <1>16, RNotKeeps
<1> QED BY <1>1, <1>2, <1>3, <1>4, <1>5, <1>6, <1>7, <1>8, <1>9, <1>10, <1>11, <1>12, <1>13,
           <1>14, <1>15, <1>16 DEF StepS, StepR

LEMMA NextInv == IndInv /\ [Next]_vars => IndInv'
<1> SUFFICES ASSUME IndInv, [Next]_vars PROVE IndInv'
    OBVIOUS
<1>1. PICK h, st : AllHold(h, st)
    BY DEF IndInv
<1>2. SUFFICES \E h2, st2 : AllHold(h2, st2)'
    BY DEF IndInv
<1>3. CASE StepS \/ StepR
    <2>1. \E st2 : AllHold(h, st2)'
        BY <1>1, <1>3, MethodsKeep
    <2> QED BY <2>1
<1>4. ASSUME NEW p \in Party, Begin(p) PROVE \E h2, st2 : AllHold(h2, st2)'
    BY <1>1, <1>4, BeginKeeps
<1>5. ASSUME NEW p \in Party, Choose(p) PROVE \E h2, st2 : AllHold(h2, st2)'
    <2>1. Choose("S") \/ Choose("R")
        BY <1>5 DEF Party
    <2>2. \E st2 : AllHold(h, st2)'
        BY <1>1, <2>1, ChooseSKeeps, ChooseRKeeps
    <2> QED BY <2>2
<1>6. ASSUME NEW p \in Party, Refuse(p) PROVE \E h2, st2 : AllHold(h2, st2)'
    <2>1. AllHold(h, st)'
        BY <1>1, <1>6, RefuseKeeps
    <2> QED BY <2>1
<1>7. CASE UNCHANGED vars
    <2>1. AllHold(h, st)'
        BY <1>1, <1>7, StutterKeeps
    <2> QED BY <2>1
<1> QED BY <1>3, <1>4, <1>5, <1>6, <1>7 DEF Next

LEMMA AlwaysInv == Spec => []IndInv
<1>1. Init => IndInv
    BY InitInv
<1>2. IndInv /\ [Next]_vars => IndInv'
    BY NextInv
<1> QED BY <1>1, <1>2, PTL DEF Spec

(*------------------------ what the invariant implies --------------------*)
LEMMA TypeIs == IndInv => TypeOK
<1> SUFFICES ASSUME NEW h, NEW st, AllHold(h, st), NEW p \in Party
             PROVE  /\ me[p].cnt \in 0..Len(plans)
                    /\ DOMAIN me[p].rows = 0..(me[p].len - 1)
                    /\ me[p].pos % Width = 0
                    /\ me[p].todo = <<>> => Len(me[p].out) = me[p].cnt
    BY DEF IndInv, TypeOK
<1>1. PICK o, x, n, k : o = me[p] /\ x = At(h, st, p) /\ n = o.cnt /\ k = st[p]
    OBVIOUS
<1>2. History(h) /\ Staged(st, p) /\ DataAt(o, x)
    BY <1>1 DEF AllHold, Objects
<1>3. /\ n \in 0..Len(plans) /\ k \in Stages /\ Len(plans) \in Nat /\ (k # 9 => n > 0)
      /\ IsSeq(o.out) /\ Len(o.out) = n - Counted(k <= 7)
    BY <1>1, <1>2, HistoryFacts DEF Staged
<1>4. x.pos % Width = 0
    <2>1. CASE k = 9
        <3>1. n + 1 \in 1..Len(h) /\ x = h[n + 1]
            BY <1>1, <1>2, <1>3, <2>1, HistoryFacts DEF At
        <3> QED BY <1>2, <3>1, HistoryFacts DEF PlaceOK
    <2>2. CASE k # 9
        <3>1. PICK a, plan : a = h[n] /\ plan = plans[n]
            OBVIOUS
        <3>2. /\ n \in 1..Len(plans) /\ x = PlaceAt(a, n, plan, p, k) /\ a \in Places /\ PlaceOK(a, n)
              /\ plan \in Plans
            BY <1>1, <1>2, <1>3, <2>2, <3>1, HistoryFacts DEF At
        <3>3. PICK f : f = FirstAt(a, plan, p, k)
            OBVIOUS
        <3>4. Width \in Nat \ {0} /\ 0 % Width = 0
            BY MyOtAssumption
        <3>5. f \in Nat /\ f % Width = 0
            BY <3>2, <3>3, <3>4 DEF FirstAt, Places, PlaceOK
        <3>6. Rounded(plan.len) \in Nat /\ Rounded(plan.len) % Width = 0
            BY <3>2, PlanFacts, RoundedFacts
        <3>7. (f + Rounded(plan.len)) % Width = 0
            BY <3>4, <3>5, <3>6, MultipleSum
        <3>8. x.pos = f + Rounded(plan.len) \/ x.pos = f
            BY <3>2, <3>3, PlaceFields
        <3> QED BY <3>5, <3>7, <3>8
    <2> QED BY <2>1, <2>2
<1>5. o.todo = <<>> => Len(o.out) = n
    <2>1. ASSUME o.todo = <<>> PROVE Len(o.out) = n
        <3>1. k = 9
            BY <1>1, <2>1, AtRest
        <3>2. Counted(k <= 7) = 0
            BY <3>1 DEF Counted
        <3> QED BY <1>3, <3>2
    <2> QED BY <2>1
<1>6. o.pos = x.pos /\ DOMAIN o.rows = 0..(o.len - 1)
    BY <1>2 DEF DataAt
<1> QED BY <1>1, <1>3, <1>4, <1>5, <1>6

LEMMA InStepIs == IndInv => InStep
<1> SUFFICES ASSUME NEW h, NEW st, AllHold(h, st), S.cnt = R.cnt, Idle
             PROVE  /\ S.pos = R.pos /\ S.epoch = R.epoch /\ S.gid = R.gid /\ S.start = R.start
                    /\ \A p \in Party : mail[p] = <<>>
    BY DEF IndInv, InStep
<1>1. History(h) /\ Objects(h, st) /\ Mailed(h, st) /\ "S" \in Party /\ "R" \in Party
    BY DEF AllHold, Party
<1>2. \A p \in Party : st[p] = 9
    BY AtRest DEF Idle
<1>3. PICK n, x : n = S.cnt /\ x = h[n + 1]
    OBVIOUS
<1>4. \A p \in Party : me[p].cnt = n
    BY <1>3 DEF Party, S, R
<1>5. \A p \in Party : At(h, st, p) = x
    BY <1>2, <1>3, <1>4 DEF At
<1>6. x \in Places
    BY <1>1, <1>5, PlaceBounds
<1>7. DataAt(S, x) /\ DataAt(R, x)
    BY <1>1, <1>5 DEF Objects, S, R
<1>8. ASSUME NEW p \in Party PROVE mail[p] = <<>>
    <2>1. PICK q : q = Peer(p)
        OBVIOUS
    <2>2. q \in Party /\ Peer(q) = p /\ q # p
        BY <2>1, Peers
    <2>3. Len(mail[Peer(q)]) = Sent(At(h, st, q), q) - Got(At(h, st, Peer(q)), Peer(q)) /\ IsSeq(mail[p])
        BY <1>1, <2>2 DEF Mailed
    <2>4. Len(mail[p]) = Sent(x, q) - Got(x, p)
        BY <1>5, <2>2, <2>3
    <2>5. Sent(x, q) = Got(x, p)
        BY <2>2 DEF Sent, Got, Party
    <2>6. Sent(x, q) \in Nat
        BY <1>6 DEF Sent, Places
    <2> QED BY <2>3, <2>4, <2>5, <2>6, IsSeqOf
<1> QED BY <1>7, <1>8 DEF DataAt

\* error() has ended p at its OT, which is not prepared.
LEMMA ErrorAt ==
    ASSUME NEW h, NEW st, AllHold(h, st), NEW p \in Party, Stopped(p)
    PROVE  st[p] = 7 /\ ~Prepared(p) /\ me[p].cnt \in 1..Len(plans)
<1>1. PICK k, n, plan : k = st[p] /\ n = me[p].cnt /\ plan = plans[n]
    OBVIOUS
<1>2. api \in Kinds /\ Staged(st, p) /\ History(h) /\ Len(plans) \in Nat
    BY HistoryFacts DEF AllHold, Kinds, Objects
<1>3. me[p].todo # <<>> /\ Head(me[p].todo) = "error"
    BY DEF Stopped, Doing
<1>4. /\ n \in 1..Len(plans) /\ k \in 1..8 /\ InPlan(plan, k)
      /\ me[p].todo = TodoAt(plan, p, k) \/ (k = 7 /\ ~Prepared(p))
    BY <1>1, <1>2, <1>3 DEF Staged, Stages
<1>5. me[p].todo # TodoAt(plan, p, k)
    <2>1. plan \in Plans
        BY <1>1, <1>2, <1>4, HistoryFacts
    <2>2. Name(p, k) # "error"
        BY <1>2 DEF Name, Kinds
    <2> QED BY <1>2, <1>3, <1>4, <2>1, <2>2, HeadOfTodo
<1> QED BY <1>1, <1>4, <1>5

LEMMA NoErrorIs == IndInv => NoFalseError
<1> SUFFICES ASSUME NEW h, NEW st, AllHold(h, st), NEW p \in Party, Stopped(p)
             PROVE  \E x \in {"setS", "pre"} : \A n \in 1..me[p].cnt : x \notin plans[n].new
    BY DEF IndInv, NoFalseError
<1>1. PICK o, x, n, k : o = me[p] /\ x = At(h, st, p) /\ n = o.cnt /\ k = st[p]
    OBVIOUS
<1>2. /\ History(h) /\ DataAt(o, x) /\ ~Prepared(p) /\ k = 7 /\ n \in 1..Len(plans)
      /\ Len(plans) \in Nat
    BY <1>1, ErrorAt, HistoryFacts DEF AllHold, Objects
<1>3. PICK a, plan : a = h[n] /\ plan = plans[n]
    OBVIOUS
<1>4. x = PlaceAt(a, n, plan, p, 7) /\ a \in Places /\ PlaceOK(a, n) /\ n \in Nat /\ n > 0
    BY <1>1, <1>2, <1>3, HistoryFacts DEF At
<1>5. /\ x.start = (IF "setS" \in plan.new THEN n ELSE a.start)
      /\ x.pre = (IF "pre" \in plan.new THEN n ELSE a.pre)
      /\ x.chosen = (IF "pre" \in plan.new THEN n ELSE a.chosen)
    BY <1>4, PlaceFields
<1>6. \A m \in 1..n : m = n \/ m \in 1..(n - 1)
    BY <1>4
<1>7. a.pre \in Nat /\ a.chosen = a.pre
    BY <1>4 DEF PlaceOK
<1>8. x.start = 0 \/ x.pre = 0
    <2>1. o.start = 0 \/ ~o.isSet \/ (api = "not" /\ ~o.isSetup)
        BY <1>1, <1>2 DEF Prepared
    <2>2. o.start = x.start /\ (o.isSet <=> x.pre > 0) /\ (o.isSetup <=> api = "not" /\ x.chosen > 0)
        BY <1>2 DEF DataAt
    <2>3. x.pre \in Nat /\ x.chosen = x.pre
        BY <1>4, <1>5, <1>7
    <2> QED BY <2>1, <2>2, <2>3
<1>9. CASE x.start = 0
    <2>1. "setS" \notin plan.new /\ a.start = 0
        BY <1>4, <1>5, <1>9
    <2>2. \A m \in 1..(n - 1) : "setS" \notin plans[m].new
        BY <1>4, <2>1 DEF PlaceOK
    <2>3. \A m \in 1..n : "setS" \notin plans[m].new
        BY <1>3, <1>6, <2>1, <2>2
    <2> QED BY <1>1, <2>3
<1>10. CASE x.pre = 0
    <2>1. "pre" \notin plan.new /\ a.pre = 0
        BY <1>4, <1>5, <1>10
    <2>2. \A m \in 1..(n - 1) : "pre" \notin plans[m].new
        BY <1>4, <2>1 DEF PlaceOK
    <2>3. \A m \in 1..n : "pre" \notin plans[m].new
        BY <1>3, <1>6, <2>1, <2>2
    <2> QED BY <1>1, <2>3
<1> QED BY <1>8, <1>9, <1>10

\* The history names the round whose rows round n uses.
LEMMA LastPreIs ==
    ASSUME NEW h, History(h), NEW n \in 1..Len(plans), NEW b, b = h[n + 1].pre, b > 0
    PROVE  LastPre(n) = plans[b]
<1>1. n + 1 \in 1..Len(h) /\ n \in Nat /\ (n + 1) - 1 = n
    BY HistoryFacts
<1>2. PlaceOK(h[n + 1], n + 1)
    BY <1>1, HistoryFacts
<1>3. b \in 0..n /\ "pre" \in plans[b].new /\ \A m \in (b + 1)..n : "pre" \notin plans[m].new
    BY <1>1, <1>2 DEF PlaceOK
<1>4. PICK T : T = {m \in 1..n : "pre" \in plans[m].new}
    OBVIOUS
<1>5. b \in T /\ \A m \in T : m \in Nat /\ b >= m
    <2>1. b \in T
        BY <1>1, <1>3, <1>4
    <2>2. ASSUME NEW m \in T PROVE m \in Nat /\ b >= m
        <3>1. m \in 1..n /\ "pre" \in plans[m].new
            BY <1>4
        <3>2. m \notin (b + 1)..n
            BY <1>3, <3>1
        <3> QED BY <1>1, <1>3, <3>1, <3>2
    <2> QED BY <2>1, <2>2
<1>6. Max(T) = b
    <2>1. \A m \in T : (\A i \in T : m >= i) => m = b
        BY <1>5
    <2> QED BY <1>5, <2>1 DEF Max
<1> QED BY <1>4, <1>6 DEF LastPre

LEMMA OutputsAre == IndInv => OutputsRight
<1> SUFFICES ASSUME NEW h, NEW st, AllHold(h, st), NEW n \in 1..Len(R.out),
                    n < R.cnt \/ R.todo = <<>>
             PROVE  CASE api = "ot" -> R.out[n] = [i \in 0..(plans[n].use - 1) |-> <<n, i, LastPre(n).r[i]>>]
                      [] api = "not" -> R.out[n] = <<n, LastPre(n).item>>
                      [] api = "rot" -> TRUE
    BY DEF IndInv, OutputsRight
<1>1. PICK b, v : b = h[n + 1].pre /\ v = R.out[n]
    OBVIOUS
<1>2. api \in Kinds /\ History(h) /\ Staged(st, "R") /\ Outputs(h, st) /\ "R" \in Party
    BY DEF AllHold, Kinds, Objects, Party
<1>3. n \in 1..Len(plans)
    <2>1. Len(plans) \in Nat /\ Counted(st["R"] <= 7) \in Nat /\ Len(R.out) \in Nat
        BY <1>2, HistoryFacts, CountedIs, IsSeqOf DEF Staged, R
    <2>2. R.cnt \in 0..Len(plans) /\ Len(R.out) = R.cnt - Counted(st["R"] <= 7)
        BY <1>2 DEF Staged, R
    <2> QED BY <2>1, <2>2
<1>4. ~(n = R.cnt /\ st["R"] = 8)
    <2>1. R.todo = <<>> => st["R"] = 9
        BY <1>2, AtRest DEF R
    <2>2. n < R.cnt => n # R.cnt
        <3>1. R.cnt \in 0..Len(plans) /\ Len(plans) \in Nat
            BY <1>2, HistoryFacts DEF Staged, R
        <3> QED BY <1>3, <3>1
    <2> QED BY <2>1, <2>2
<1>5. /\ b > 0
      /\ api = "ot" => v = TextsOf(h, n)
      /\ api = "not" => v = <<n, plans[b].item>>
    BY <1>1, <1>2, <1>4 DEF Outputs
<1>6. LastPre(n) = plans[b]
    BY <1>1, <1>2, <1>3, <1>5, LastPreIs
<1>7. CASE api = "ot"
    <2>1. \A i : Chosen(h[n + 1], i) = plans[b].r[i]
        BY <1>1 DEF Chosen
    <2>2. TextsOf(h, n) = [i \in 0..(plans[n].use - 1) |-> <<n, i, plans[b].r[i]>>]
        BY <1>7, <2>1 DEF TextsOf
    <2> QED BY <1>1, <1>5, <1>6, <1>7, <2>2
<1>8. CASE api = "not"
    BY <1>1, <1>5, <1>6, <1>8
<1>9. CASE api = "rot"
    BY <1>9
<1> QED BY <1>2, <1>7, <1>8, <1>9 DEF Kinds

(*------------------------------- theorems -------------------------------*)
(* Whatever the programs do in their rounds, and however far one is ahead of the
   other, an object has as many rows as its last recvPre or sendPre was asked for,
   its PRGs are read in whole transfer units, and each round has left one result
   (myIKNP.h:85-216, myROT.h:39-166). *)
THEOREM TypeCorrect == Spec => []TypeOK
BY AlwaysInv, TypeIs, PTL

(* After the same number of rounds the two objects have read as much of their
   PRGs and used as many keys of the same hash, and no result is left over: that
   of which the classes keep no record is true for all rounds that the programs
   may ask for (myIKNP.h:85-98, 183-192, myROT.h:29-35, 57, 159). *)
THEOREM StaysInStep == Spec => []InStep
BY AlwaysInv, InStepIs, PTL

(* A program is refused an OT only if it has never made rows, or never set the
   seed of the hash (myIKNP.h:36-41, 107-112, myROT.h:39-41, 114-116). *)
THEOREM RefusedForAReason == Spec => []NoFalseError
BY AlwaysInv, NoErrorIs, PTL

(* The receiver gets what its bits choose of what the sender gave in the same
   round, or the item that it asked for, whichever steps the two left out in this
   round and however many rounds ago the rows were made (myROT.h:63-166,
   myNOT.h:66-252). *)
THEOREM OutputsBelong == Spec => []OutputsRight
BY AlwaysInv, OutputsAre, PTL
=============================================================================
