--------------------------- MODULE FerretExtendProofs ---------------------------
(***************************************************************************)
(* Proofs about FerretExtend, for any number of trees, levels, threads and *)
(* extensions, and whatever the choice bits.  The heart of the argument is *)
(* that the messages on a channel have an order of their own, which no     *)
(* interleaving of the threads changes: what is on its way is always the   *)
(* stretch of that order between the place where BOB reads and the place   *)
(* where ALICE writes.                                                     *)
(***************************************************************************)
EXTENDS FerretExtend, TLAPS

(*------------------------------- the shares -----------------------------*)
\* Multiplication by a natural number keeps the order of natural numbers.
LEMMA TimesMono ==
    ASSUME NEW a \in Nat, NEW b \in Nat, NEW w \in Nat, a < b
    PROVE  a * w \in Nat /\ b * w \in Nat /\ a * w + w <= b * w
<1> DEFINE d == b - a - 1
<1>1. d \in Nat /\ b = a + (1 + d)
    OBVIOUS
<1>2. a * w \in Nat /\ d * w \in Nat /\ b * w \in Nat
    BY <1>1
<1>3. b * w = a * w + (w + d * w)
    <2> HIDE DEF d
    <2>1. (a + (1 + d)) * w = a * w + (w + d * w)
        BY <1>1
    <2> QED BY <1>1, <2>1
<1> HIDE DEF d
<1> QED BY <1>2, <1>3

\* What the widths of the shares add up to
LEMMA WidthFacts ==
    ASSUME NEW a \in Nat, NEW d \in Nat \ {0}
    PROVE  /\ a \div d \in Nat
           /\ d * (a \div d) <= a
           /\ a < d * (a \div d) + d
OBVIOUS

\* The sizes of an object are natural numbers.
LEMMA ShapeFacts ==
    ASSUME shape \in Shapes
    PROVE  /\ shape.trees \in Nat \ {0} /\ shape.height \in Nat \ {0}
           /\ shape.threads \in Nat \ {0} /\ shape.malicious \in BOOLEAN
           /\ Main \in Nat /\ shape.threads = Main + 1
           /\ Thread = 0..Main /\ Tree = 0..(shape.trees - 1)
           /\ Main \in Thread /\ 0 \in Thread
<1>1. /\ shape.trees \in Nat \ {0} /\ shape.height \in Nat \ {0}
      /\ shape.threads \in Nat \ {0} /\ shape.malicious \in BOOLEAN
    BY ExtendAssumption
<1> QED BY <1>1 DEF Main, Thread, Tree

(* The shares lie between the first tree and the last, none overlaps another,
   and every tree is in one of them, also with more threads than trees. *)
LEMMA Shares ==
    ASSUME shape \in Shapes
    PROVE  /\ \A t \in Thread : /\ First(t) \in Nat /\ End(t) \in Nat
                                /\ First(t) <= End(t) /\ End(t) <= shape.trees
           /\ \A t, u \in Thread : t < u => End(t) <= First(u)
           /\ \A j \in Tree : \E t \in Thread : First(t) <= j /\ j < End(t)
<1> DEFINE n == shape.trees
           k == shape.threads
           w == n \div k
           last == Main
<1>1. /\ n \in Nat \ {0} /\ k \in Nat \ {0} /\ last \in Nat /\ k = last + 1
      /\ Thread = 0..last /\ Tree = 0..(n - 1)
    BY ShapeFacts
<1>2. w \in Nat /\ k * w <= n
    <2> HIDE DEF n, k
    <2> QED BY <1>1, WidthFacts DEF w
<1>3. \A t \in Thread : t \in Nat /\ t <= last
    BY <1>1
<1>4. /\ \A t : First(t) = t * w
      /\ \A t \in Thread : End(t) = IF t = last THEN n ELSE (t + 1) * w
    BY DEF First, End
<1> HIDE DEF n, k, w, last
<1>5. last * w \in Nat /\ last * w + w = k * w
    <2>1. (last + 1) * w = last * w + w /\ last * w \in Nat
        BY <1>1, <1>2
    <2> QED BY <1>1, <2>1
<1>6. ASSUME NEW t \in Thread
      PROVE  /\ First(t) \in Nat /\ End(t) \in Nat
             /\ First(t) <= End(t) /\ End(t) <= n
    <2>1. CASE t = last
        <3>1. First(t) = last * w /\ End(t) = n
            BY <1>4, <2>1
        <3> DEFINE v == last * w
        <3>2. v <= n /\ v \in Nat
            BY <1>1, <1>2, <1>5
        <3>3. First(t) = v
            BY <3>1
        <3> HIDE DEF v
        <3> QED BY <1>1, <3>1, <3>2, <3>3
    <2>2. CASE t # last
        <3>1. t \in Nat /\ t < last /\ t + 1 \in Nat /\ t + 1 <= last
            BY <1>1, <1>3, <2>2
        <3>2. t * w \in Nat /\ t * w + w <= last * w
            BY <1>1, <1>2, <3>1, TimesMono
        <3>3. (t + 1) * w = t * w + w
            BY <1>2, <3>1
        <3> DEFINE v == t * w
                   z == last * w
        <3>4. First(t) = v /\ End(t) = v + w
            BY <1>4, <2>2, <3>3
        <3>5. v \in Nat /\ v + w <= z /\ z \in Nat /\ z <= n
            BY <1>1, <1>2, <1>5, <3>2
        <3> HIDE DEF v, z
        <3> QED BY <1>1, <1>2, <3>4, <3>5
    <2> QED BY <2>1, <2>2
<1>7. ASSUME NEW t \in Thread, NEW u \in Thread, t < u
      PROVE  End(t) <= First(u)
    <2>1. t \in Nat /\ u \in Nat /\ t # last
        BY <1>1, <1>3, <1>7
    <2>2. (t + 1) * w = t * w + w
        BY <1>2, <2>1
    <2>3. t * w + w <= u * w
        BY <1>2, <1>7, <2>1, TimesMono
    <2> QED BY <1>4, <2>1, <2>2, <2>3
<1>8. ASSUME NEW j \in Tree
      PROVE  \E t \in Thread : First(t) <= j /\ j < End(t)
    <2>1. j \in Nat /\ j < n
        BY <1>1
    <2>2. CASE j >= last * w
        <3>1. last \in Thread /\ First(last) <= j /\ j < End(last)
            BY <1>1, <1>4, <2>1, <2>2
        <3> QED BY <3>1
    <2>3. CASE j < last * w
        <3>1. w # 0
            BY <1>1, <2>1, <2>3
        <3> DEFINE t == j \div w
        <3>2. t \in Nat /\ w * t <= j /\ j < w * t + w
            BY <1>2, <2>1, <3>1, WidthFacts
        <3> HIDE DEF t
        <3>3. w * t = t * w /\ (t + 1) * w = t * w + w
            BY <1>2, <3>2
        <3>4. t < last
            <4>1. SUFFICES ASSUME last <= t PROVE FALSE
                BY <1>1, <3>2
            <4>2. CASE last = t
                BY <1>2, <1>5, <2>1, <2>3, <3>2, <3>3, <4>2
            <4>3. CASE last < t
                <5>1. last * w + w <= t * w
                    BY <1>1, <1>2, <3>2, <4>3, TimesMono
                <5> QED BY <1>2, <1>5, <2>1, <2>3, <3>2, <3>3, <5>1
            <4> QED BY <1>1, <3>2, <4>1, <4>2, <4>3
        <3>5. t \in Thread /\ t # last
            BY <1>1, <3>2, <3>4
        <3> QED BY <1>4, <3>2, <3>3, <3>5
    <2> QED BY <1>1, <1>5, <2>1, <2>2, <2>3
<1> QED BY <1>6, <1>7, <1>8 DEF n

\* A tree belongs to one thread.
LEMMA OneShare ==
    ASSUME shape \in Shapes, NEW t \in Thread, NEW u \in Thread, NEW i \in Nat,
           First(t) <= i, i < End(t), First(u) <= i, i < End(u)
    PROVE  t = u
<1>1. /\ t \in Int /\ u \in Int /\ First(t) \in Nat /\ End(t) \in Nat
      /\ First(u) \in Nat /\ End(u) \in Nat
    BY Shares, ShapeFacts
<1>2. ~(t < u) /\ ~(u < t)
    BY <1>1, Shares
<1> QED BY <1>1, <1>2

\* The shape of an object never changes, nor does what depends on it only.
LEMMA Rigid ==
    ASSUME shape' = shape
    PROVE  /\ Thread' = Thread /\ Tree' = Tree /\ Level' = Level /\ Main' = Main
           /\ \A t : First(t)' = First(t) /\ End(t)' = End(t)
BY DEF Thread, Tree, Level, Main, First, End

(*---------------------------- places in a channel -----------------------*)
(* What ALICE writes on channel c, in order: <<r, i, s>> is message s of tree i
   of extension r; on channel 0 the digest <<r, End(0), 0>> and the seed of the
   matrix <<r, End(0), 1>> follow the trees of extension r. *)
Place == Nat \X Nat \X Nat

\* The place of step s of tree i on channel c, or the one behind the trees of c
PlaceOf(r, c, i, s) ==
    IF i < End(c) THEN <<r, i, s>>
    ELSE IF c = 0 THEN <<r, End(0), IF shape.malicious THEN 0 ELSE 1>>
    ELSE IF First(c) < End(c) THEN <<r + 1, First(c), 0>>
    ELSE <<0, First(c), 0>>

\* The place where extension r begins
FirstPlace(r, c) == PlaceOf(r, c, First(c), 0)

NextPlace(c, x) ==
    IF x[2] < End(c)
    THEN IF x[3] < shape.height THEN <<x[1], x[2], x[3] + 1>>
                                ELSE PlaceOf(x[1], c, x[2] + 1, 0)
    ELSE IF x[3] = 0 THEN <<x[1], x[2], 1>> ELSE FirstPlace(x[1] + 1, c)

MsgAt(c, x) ==
    IF x[2] < End(c)
    THEN IF x[3] < shape.height THEN Pads(x[1], x[2], x[3]) ELSE SumMsg(x[1], x[2])
    ELSE IF x[3] = 0 THEN Digest(x[1], Tree) ELSE SeedMsg(x[1])

\* Where p is on channel c
Cursor(p, c) ==
    LET r == me[p].run
    IN  CASE me[p].pc = "idle" -> FirstPlace(r + 1, c)
          [] me[p].pc = "init" -> FirstPlace(r, c)
          [] c = 0 /\ me[p].pc \in {"check", "compare"} -> <<r, End(0), 0>>
          [] c = 0 /\ me[p].pc = "seed" -> <<r, End(0), 1>>
          [] OTHER -> PlaceOf(r, c, me[p].tree[c], me[p].step[c])

Before(x, y) ==
    x[1] < y[1] \/ (x[1] = y[1] /\ (x[2] < y[2] \/ (x[2] = y[2] /\ x[3] < y[3])))

\* The messages of q are those of the places from x up to y.
Linked(c, x, y, q) ==
    \E s \in Seq(Place) :
        /\ Len(s) = Len(q) + 1 /\ s[1] = x /\ s[Len(q) + 1] = y
        /\ \A i \in 1..Len(q) : /\ s[i + 1] = NextPlace(c, s[i])
                                /\ q[i] = MsgAt(c, s[i])
                                /\ Before(s[i], y)

(* What is on its way on a channel are the messages from the place where BOB
   is up to the place where ALICE is. *)
ChanInv ==
    \A c \in Thread : Linked(c, Cursor("BOB", c), Cursor("ALICE", c), wire[c] \o sent[c])

(*--------------------------- the inductive invariant --------------------*)
Message == [kind : {"pads", "sum", "dig", "seed"}, run : Nat, tree : Nat \cup SUBSET Nat,
            level : Nat, key : Nat]

Pc == {"idle", "init", "fork", "own", "check", "compare", "seed"}
PartyRec == [pc : Pc, run : Nat, queued : Nat, tree : [Thread -> Nat],
             step : [Thread -> Nat], vw : SUBSET Tree, seed : Message]
\* Between two steps count is 0: reset has always started it over.
BobRec == [bits : FlipSets \cup {{}}, count : {0}, b : [Tree -> SUBSET Level],
           good : SUBSET Tree, alarm : BOOLEAN]

TypeInv ==
    /\ shape \in Shapes
    /\ me \in [Party -> PartyRec]
    /\ bob \in BobRec
    /\ sent \in [Thread -> Seq(Message)] /\ wire \in [Thread -> Seq(Message)]
    /\ back \in Seq(Nat)

\* Tree i has been dealt with by a thread of p.
Done(p, i) == \E t \in Thread : First(t) <= i /\ i < me[p].tree[t]

\* A thread of BOB has begun tree i.
Begun(i) == \E t \in Thread : /\ First(t) <= i /\ i = me["BOB"].tree[t] /\ i < End(t)
                              /\ me["BOB"].step[t] > 0

\* p is between the start of its trees and the end of the extension.
InTrees(p) == me[p].pc \notin {"idle", "init"}

(* The threads of p keep to their shares and start each tree afresh; the main
   thread goes on when all shares are done. *)
PartyInv(p) ==
    /\ me[p].run <= MaxRuns /\ me[p].queued <= Main
    /\ \A t \in Thread :
          /\ First(t) <= me[p].tree[t] /\ me[p].tree[t] <= End(t)
          /\ me[p].step[t] <= shape.height
          /\ (me[p].tree[t] = End(t) \/ ~InTrees(p)) => me[p].step[t] = 0
          /\ Joined(p) => me[p].tree[t] = End(t)
    /\ shape.malicious /\ InTrees(p) => me[p].vw = {i \in Tree : Done(p, i)}
    /\ ~shape.malicious => me[p].pc \notin {"check", "compare"}

(* The trees that BOB has dealt with or begun are good; the choice bits of the
   trees are those of the OTs. *)
BobInv ==
    /\ InTrees("BOB") =>
          /\ bob.good = {i \in Tree : Done("BOB", i) \/ Begun(i)}
          /\ \A i \in Tree : \A l \in Level : (l \in bob.b[i]) = (Key(i, l) \in bob.bits)
    /\ B.pc = "idle" => B.seed = SeedMsg(B.run)
    /\ ~bob.alarm

\* Checks that ALICE has answered, and that BOB has begun
Answered == IF A.pc \in {"idle", "seed"} THEN A.run ELSE A.run - 1
Asked == IF B.pc \in {"idle", "seed", "compare"} THEN B.run ELSE B.run - 1

\* ALICE answers each check once, and BOB waits for the answer.
CheckInv ==
    /\ A.pc # "compare"
    /\ ~shape.malicious => back = <<>>
    /\ shape.malicious =>
          \/ back = <<>> /\ Asked = Answered
          \/ back = <<B.run>> /\ B.pc = "compare" /\ Asked = Answered + 1

ExtInv == TypeInv /\ (\A p \in Party : PartyInv(p)) /\ BobInv /\ CheckInv /\ ChanInv

(*-------------------------- lemmas about channels -----------------------*)
\* Places are triples of natural numbers, in lexicographic order.
LEMMA PlaceType ==
    ASSUME shape \in Shapes, NEW c \in Thread, NEW r \in Nat, NEW i \in Nat, NEW s \in Nat
    PROVE  PlaceOf(r, c, i, s) \in Place
<1>1. First(c) \in Nat /\ End(0) \in Nat
    BY Shares, ShapeFacts
<1> QED BY <1>1 DEF PlaceOf, Place

\* The order of places is transitive.
LEMMA BeforeTrans ==
    ASSUME NEW x \in Place, NEW y \in Place, NEW z \in Place, Before(x, y), Before(y, z)
    PROVE  Before(x, z)
BY DEF Before, Place

\* Every place comes before the next one.
LEMMA NextBefore ==
    ASSUME shape \in Shapes, NEW c \in Thread, NEW x \in Place,
           c = 0 \/ (First(c) <= x[2] /\ x[2] < End(c))
    PROVE  NextPlace(c, x) \in Place /\ Before(x, NextPlace(c, x))
<1> DEFINE r == x[1]
           i == x[2]
           s == x[3]
           f == First(c)
           e == End(c)
           h == shape.height
           y == PlaceOf(r, c, i + 1, 0)
           z == FirstPlace(r + 1, c)
<1>1. /\ r \in Nat /\ i \in Nat /\ s \in Nat /\ f \in Nat /\ e \in Nat /\ h \in Nat \ {0}
      /\ x = <<r, i, s>>
    BY Shares, ShapeFacts DEF Place
<1>2. NextPlace(c, x) = IF i < e THEN IF s < h THEN <<r, i, s + 1>> ELSE y
                        ELSE IF s = 0 THEN <<r, i, 1>> ELSE z
    BY DEF NextPlace
<1>3. y \in Place /\ z \in Place /\ <<r, i, s + 1>> \in Place /\ <<r, i, 1>> \in Place
    <2>1. i + 1 \in Nat /\ r + 1 \in Nat /\ s + 1 \in Nat /\ 0 \in Nat /\ 1 \in Nat
        BY <1>1
    <2> HIDE DEF r, i, s
    <2>2. <<r, i, s + 1>> \in Place /\ <<r, i, 1>> \in Place
        BY <1>1, <2>1 DEF Place
    <2>3. y \in Place
        BY <1>1, <2>1, PlaceType
    <2>4. z \in Place
        BY <1>1, <2>1, PlaceType DEF FirstPlace
    <2> QED BY <2>2, <2>3, <2>4
<1>4. i < e => y[1] > r \/ (y[1] = r /\ y[2] > i)
    <2>1. CASE c = 0
        BY <1>1, <2>1 DEF PlaceOf
    <2>2. CASE c # 0
        BY <1>1, <2>2 DEF PlaceOf
    <2> QED BY <2>1, <2>2
<1>5. c = 0 => z[1] = r + 1
    BY <1>1 DEF FirstPlace, PlaceOf
<1> HIDE DEF y, z, r, i, s, f, e, h
<1>6. Before(x, <<r, i, s + 1>>) /\ (s = 0 => Before(x, <<r, i, 1>>))
    BY <1>1 DEF Before
<1>7. i < e => Before(x, y)
    BY <1>1, <1>3, <1>4 DEF Before, Place
<1>8. c = 0 => Before(x, z)
    BY <1>1, <1>3, <1>5 DEF Before, Place
<1>9. i >= e => c = 0
    BY <1>1 DEF f, e, i
<1> QED BY <1>1, <1>2, <1>3, <1>6, <1>7, <1>8, <1>9

\* An empty channel links a place to itself.
LEMMA LinkEmpty ==
    ASSUME NEW c, NEW x \in Place
    PROVE  Linked(c, x, x, <<>>)
<1> DEFINE s == <<x>>
<1>1. s \in Seq(Place) /\ Len(s) = 1 /\ s[1] = x
    OBVIOUS
<1> HIDE DEF s
<1> QED BY <1>1 DEF Linked

\* A message that is written at the place where ALICE is brings her to the next.
LEMMA LinkAppend ==
    ASSUME shape \in Shapes, NEW c \in Thread, NEW x, NEW y, NEW q \in Seq(Message),
           Linked(c, x, y, q), MsgAt(c, y) \in Message,
           y \in Place, c = 0 \/ (First(c) <= y[2] /\ y[2] < End(c))
    PROVE  Linked(c, x, NextPlace(c, y), Append(q, MsgAt(c, y)))
<1> DEFINE n == Len(q)
           z == NextPlace(c, y)
           m == MsgAt(c, y)
           p == Append(q, m)
<1>1. PICK s \in Seq(Place) :
        /\ Len(s) = n + 1 /\ s[1] = x /\ s[n + 1] = y
        /\ \A i \in 1..n : /\ s[i + 1] = NextPlace(c, s[i]) /\ q[i] = MsgAt(c, s[i])
                           /\ Before(s[i], y)
    BY DEF Linked
<1>2. z \in Place /\ Before(y, z)
    BY NextBefore
<1> DEFINE t == Append(s, z)
<1>3. /\ n \in Nat /\ Len(p) = n + 1 /\ p[n + 1] = m /\ \A i \in 1..n : p[i] = q[i]
    OBVIOUS
<1> HIDE DEF z
<1>4. /\ t \in Seq(Place) /\ Len(t) = n + 2 /\ t[n + 2] = z
      /\ \A i \in 1..(n + 1) : t[i] = s[i] /\ s[i] \in Place
    BY <1>1, <1>2, <1>3
<1> HIDE DEF t, n, p, m
<1>5. ASSUME NEW i \in 1..(n + 1)
      PROVE  /\ t[i + 1] = NextPlace(c, t[i]) /\ p[i] = MsgAt(c, t[i])
             /\ Before(t[i], z)
    <2>1. CASE i <= n
        <3>1. i \in 1..n /\ i + 1 \in 1..(n + 1) /\ i \in 1..(n + 1)
            BY <1>3, <2>1
        <3>2. t[i + 1] = s[i + 1] /\ t[i] = s[i] /\ p[i] = q[i] /\ s[i] \in Place
            BY <1>3, <1>4, <3>1
        <3>3. Before(s[i], z)
            BY <1>1, <1>2, <3>1, <3>2, BeforeTrans
        <3> QED BY <1>1, <3>1, <3>2, <3>3
    <2>2. CASE i = n + 1
        <3>1. t[i] = y /\ t[i + 1] = z /\ p[i] = m
            BY <1>1, <1>3, <1>4, <2>2
        <3> QED BY <1>2, <3>1 DEF z, m
    <2> QED BY <1>3, <2>1, <2>2
<1>6. t[1] = x /\ Len(p) + 1 = n + 2 /\ t[Len(p) + 1] = z
    BY <1>1, <1>3, <1>4
<1> QED BY <1>3, <1>4, <1>5, <1>6 DEF Linked, p, z, m

\* The first message on its way is the one of the place where BOB is.
LEMMA LinkTail ==
    ASSUME NEW c, NEW x, NEW y, NEW q \in Seq(Message), Linked(c, x, y, q), q # <<>>
    PROVE  /\ Head(q) = MsgAt(c, x) /\ Before(x, y)
           /\ Linked(c, NextPlace(c, x), y, Tail(q))
<1> DEFINE n == Len(q)
           p == Tail(q)
<1>1. PICK s \in Seq(Place) :
        /\ Len(s) = n + 1 /\ s[1] = x /\ s[n + 1] = y
        /\ \A i \in 1..n : /\ s[i + 1] = NextPlace(c, s[i]) /\ q[i] = MsgAt(c, s[i])
                           /\ Before(s[i], y)
    BY DEF Linked
<1> DEFINE t == Tail(s)
<1>2. /\ n \in Nat /\ n > 0 /\ Len(p) = n - 1 /\ Head(q) = q[1]
      /\ \A i \in 1..(n - 1) : p[i] = q[i + 1]
    OBVIOUS
<1>3. /\ t \in Seq(Place) /\ Len(t) = n /\ \A i \in 1..n : t[i] = s[i + 1]
    BY <1>1, <1>2
<1> HIDE DEF n, p, t
<1>4. Head(q) = MsgAt(c, x) /\ Before(x, y) /\ t[1] = NextPlace(c, x) /\ t[n] = y
    <2>1. 1 \in 1..n /\ n \in 1..n
        BY <1>2
    <2> QED BY <1>1, <1>2, <1>3, <2>1
<1>5. ASSUME NEW i \in 1..(n - 1)
      PROVE  /\ t[i + 1] = NextPlace(c, t[i]) /\ p[i] = MsgAt(c, t[i])
             /\ Before(t[i], y)
    <2>1. i \in 1..n /\ i + 1 \in 1..n
        BY <1>2
    <2>2. t[i] = s[i + 1] /\ t[i + 1] = s[(i + 1) + 1] /\ p[i] = q[i + 1]
        BY <1>2, <1>3, <2>1
    <2> QED BY <1>1, <2>1, <2>2
<1>6. Len(t) = Len(p) + 1 /\ t[Len(p) + 1] = y
    BY <1>2, <1>3, <1>4
<1> QED BY <1>2, <1>3, <1>4, <1>5, <1>6 DEF Linked, p

\* How what is on its way and what is not flushed go together.
LEMMA ConcatFacts ==
    ASSUME NEW w \in Seq(Message), NEW s \in Seq(Message), NEW m \in Message
    PROVE  /\ w \o s \in Seq(Message) /\ s \o <<m>> \in Seq(Message)
           /\ (w \o s) \o <<m>> \in Seq(Message)
           /\ w \o (s \o <<m>>) = Append(w \o s, m)
           /\ ((w \o s) \o <<m>>) \o <<>> = Append(w \o s, m)
           /\ w # <<>> => /\ w \o s # <<>> /\ Head(w \o s) = Head(w)
                          /\ Tail(w) \o s = Tail(w \o s) /\ Tail(w) \in Seq(Message)
OBVIOUS

(*-------------------------- steps on the channels -----------------------*)
\* The parties, and the types of what a party has
LEMMA Typing ==
    ASSUME TypeInv, NEW p \in Party
    PROVE  /\ "ALICE" \in Party /\ "BOB" \in Party
           /\ p = "ALICE" \/ p = "BOB"
           /\ shape \in Shapes /\ me[p] \in PartyRec
           /\ me[p].pc \in Pc /\ me[p].run \in Nat /\ me[p].queued \in Nat
           /\ me[p].tree \in [Thread -> Nat] /\ me[p].step \in [Thread -> Nat]
           /\ me[p].vw \in SUBSET Tree /\ me[p].seed \in Message
           /\ \A t \in Thread : me[p].tree[t] \in Nat /\ me[p].step[t] \in Nat
BY DEF TypeInv, PartyRec, Party

\* A step of one party replaces the record of that party.
LEMMA Becomes ==
    ASSUME TypeInv, NEW p \in Party, NEW rec, Become(p, rec)
    PROVE  /\ shape' = shape /\ me'[p] = rec
           /\ \A q \in Party : q # p => me'[q] = me[q]
           /\ rec \in PartyRec => me' \in [Party -> PartyRec]
BY DEF Become, TypeInv

\* Where a party is depends on its record only.
LEMMA CursorIf ==
    ASSUME NEW p, NEW c
    PROVE  Cursor(p, c) =
             IF me[p].pc = "idle" THEN FirstPlace(me[p].run + 1, c)
             ELSE IF me[p].pc = "init" THEN FirstPlace(me[p].run, c)
             ELSE IF c = 0 /\ me[p].pc \in {"check", "compare"}
                  THEN <<me[p].run, End(0), 0>>
             ELSE IF c = 0 /\ me[p].pc = "seed" THEN <<me[p].run, End(0), 1>>
             ELSE PlaceOf(me[p].run, c, me[p].tree[c], me[p].step[c])
BY DEF Cursor

\* A place of a channel does not move.
LEMMA PlacesRigid ==
    ASSUME shape' = shape
    PROVE  /\ \A r, c, i, s : PlaceOf(r, c, i, s)' = PlaceOf(r, c, i, s)
           /\ \A r, c : FirstPlace(r, c)' = FirstPlace(r, c)
           /\ \A c, x : NextPlace(c, x)' = NextPlace(c, x)
           /\ \A c, x : MsgAt(c, x)' = MsgAt(c, x)
<1> USE Rigid
<1>1. \A r, c, i, s : PlaceOf(r, c, i, s)' = PlaceOf(r, c, i, s)
    BY DEF PlaceOf
<1>2. \A r, c : FirstPlace(r, c)' = FirstPlace(r, c)
    BY <1>1 DEF FirstPlace
<1>3. \A c, x : NextPlace(c, x)' = NextPlace(c, x)
    BY <1>1, <1>2 DEF NextPlace
<1>4. \A c, x : MsgAt(c, x)' = MsgAt(c, x)
    BY DEF MsgAt, Pads, SumMsg, Digest, SeedMsg, Key
<1> QED BY <1>1, <1>2, <1>3, <1>4

\* The cursor of a party that takes no step stays.
LEMMA OtherCursor ==
    ASSUME shape' = shape, NEW q \in Party, me'[q] = me[q], NEW c
    PROVE  Cursor(q, c)' = Cursor(q, c)
BY PlacesRigid, Rigid, CursorIf DEF Cursor

\* The place of a party whose record becomes rec
LEMMA CursorNext ==
    ASSUME shape' = shape, NEW p \in Party, NEW rec, me'[p] = rec, NEW c
    PROVE  Cursor(p, c)' =
             IF rec.pc = "idle" THEN FirstPlace(rec.run + 1, c)
             ELSE IF rec.pc = "init" THEN FirstPlace(rec.run, c)
             ELSE IF c = 0 /\ rec.pc \in {"check", "compare"}
                  THEN <<rec.run, End(0), 0>>
             ELSE IF c = 0 /\ rec.pc = "seed" THEN <<rec.run, End(0), 1>>
             ELSE PlaceOf(rec.run, c, rec.tree[c], rec.step[c])
<1> USE Rigid
<1>1. CASE rec.pc = "idle"
    BY <1>1 DEF Cursor, FirstPlace, PlaceOf
<1>2. CASE rec.pc = "init"
    BY <1>2 DEF Cursor, FirstPlace, PlaceOf
<1>3. CASE c = 0 /\ rec.pc \in {"check", "compare"}
    BY <1>3 DEF Cursor
<1>4. CASE c = 0 /\ rec.pc = "seed"
    BY <1>4 DEF Cursor
<1>5. CASE /\ rec.pc # "idle" /\ rec.pc # "init"
           /\ ~(c = 0 /\ rec.pc \in {"check", "compare"}) /\ ~(c = 0 /\ rec.pc = "seed")
    BY <1>5 DEF Cursor, PlaceOf
<1> QED BY <1>1, <1>2, <1>3, <1>4, <1>5

\* Every party is at a place.
LEMMA CursorPlace ==
    ASSUME TypeInv, NEW p \in Party, NEW c \in Thread
    PROVE  Cursor(p, c) \in Place
<1> DEFINE r == me[p].run
           i == me[p].tree[c]
           s == me[p].step[c]
<1>1. /\ r \in Nat /\ r + 1 \in Nat /\ i \in Nat /\ s \in Nat /\ shape \in Shapes
      /\ 0 \in Nat /\ 1 \in Nat
    BY Typing
<1>2. First(c) \in Nat /\ End(0) \in Nat
    BY <1>1, Shares, ShapeFacts
<1> HIDE DEF r, i, s
<1>3. PlaceOf(r, c, i, s) \in Place
    BY <1>1, PlaceType
<1>4. FirstPlace(r, c) \in Place /\ FirstPlace(r + 1, c) \in Place
    BY <1>1, <1>2, PlaceType DEF FirstPlace
<1>5. <<r, End(0), 0>> \in Place /\ <<r, End(0), 1>> \in Place
    BY <1>1, <1>2 DEF Place
<1> QED BY <1>3, <1>4, <1>5, CursorIf DEF r, i, s

\* What a channel has to satisfy after a step
LEMMA ChanKeeps ==
    ASSUME shape' = shape,
           \A c \in Thread : \E x, y, q : /\ x = Cursor("BOB", c)' /\ y = Cursor("ALICE", c)'
                                          /\ q = wire'[c] \o sent'[c]
                                          /\ Linked(c, x, y, q)
    PROVE  ChanInv'
<1> SUFFICES ASSUME NEW c \in Thread
             PROVE  Linked(c, Cursor("BOB", c), Cursor("ALICE", c), wire[c] \o sent[c])'
    BY Rigid DEF ChanInv
<1>1. PICK x, y, q : /\ x = Cursor("BOB", c)' /\ y = Cursor("ALICE", c)'
                     /\ q = wire'[c] \o sent'[c]
                     /\ Linked(c, x, y, q)
    OBVIOUS
<1>2. PICK s \in Seq(Place) :
        /\ Len(s) = Len(q) + 1 /\ s[1] = x /\ s[Len(q) + 1] = y
        /\ \A i \in 1..Len(q) : /\ s[i + 1] = NextPlace(c, s[i]) /\ q[i] = MsgAt(c, s[i])
                                /\ Before(s[i], y)
    BY <1>1 DEF Linked
<1>3. \A i \in 1..Len(q) : /\ s[i + 1] = NextPlace(c, s[i])' /\ q[i] = MsgAt(c, s[i])'
                           /\ Before(s[i], y)
    BY <1>2, PlacesRigid
<1>4. /\ Len(s) = Len(wire'[c] \o sent'[c]) + 1 /\ s[1] = Cursor("BOB", c)'
      /\ s[Len(wire'[c] \o sent'[c]) + 1] = Cursor("ALICE", c)'
      /\ \A i \in 1..Len(wire'[c] \o sent'[c]) :
            /\ s[i + 1] = NextPlace(c, s[i])'
            /\ (wire'[c] \o sent'[c])[i] = MsgAt(c, s[i])'
            /\ Before(s[i], Cursor("ALICE", c)')
    BY <1>1, <1>2, <1>3
<1> QED BY <1>4 DEF Linked

\* Steps that neither write nor read leave both parties where they are.
LEMMA SilentKeeps ==
    ASSUME ChanInv, shape' = shape, UNCHANGED <<sent, wire>>,
           \A p \in Party : \A c \in Thread : Cursor(p, c)' = Cursor(p, c)
    PROVE  ChanInv'
<1>1. "ALICE" \in Party /\ "BOB" \in Party
    BY DEF Party
<1>2. ASSUME NEW c \in Thread
      PROVE  \E x, y, q : /\ x = Cursor("BOB", c)' /\ y = Cursor("ALICE", c)'
                          /\ q = wire'[c] \o sent'[c]
                          /\ Linked(c, x, y, q)
    <2>1. Linked(c, Cursor("BOB", c), Cursor("ALICE", c), wire[c] \o sent[c])
        BY DEF ChanInv
    <2> QED BY <1>1, <2>1
<1> QED BY <1>2, ChanKeeps

(* ALICE writes the message of the place where she is on channel c and goes on
   to the next. *)
LEMMA WriteKeeps ==
    ASSUME TypeInv, ChanInv, shape' = shape, NEW c \in Thread, NEW m \in Message,
           m = MsgAt(c, Cursor("ALICE", c)),
           Cursor("ALICE", c)' = NextPlace(c, Cursor("ALICE", c)),
           c = 0 \/ (First(c) <= Cursor("ALICE", c)[2] /\ Cursor("ALICE", c)[2] < End(c)),
           \A d \in Thread : d # c => Cursor("ALICE", d)' = Cursor("ALICE", d),
           me'["BOB"] = me["BOB"],
           \A d \in Thread : wire'[d] \o sent'[d] = IF d = c THEN Append(wire[d] \o sent[d], m)
                                                            ELSE wire[d] \o sent[d]
    PROVE  ChanInv'
<1>1. "ALICE" \in Party /\ "BOB" \in Party /\ shape \in Shapes
    BY DEF Party, TypeInv
<1>2. ASSUME NEW d \in Thread
      PROVE  \E x, y, q : /\ x = Cursor("BOB", d)' /\ y = Cursor("ALICE", d)'
                          /\ q = wire'[d] \o sent'[d]
                          /\ Linked(d, x, y, q)
    <2>1. Cursor("BOB", d)' = Cursor("BOB", d)
        BY <1>1, OtherCursor
    <2>2. Linked(d, Cursor("BOB", d), Cursor("ALICE", d), wire[d] \o sent[d])
        BY DEF ChanInv
    <2>3. CASE d = c
        <3>1. PICK x : x = Cursor("BOB", d)
            OBVIOUS
        <3>2. PICK y \in Place : y = Cursor("ALICE", d)
            BY <1>1, CursorPlace
        <3>3. PICK q \in Seq(Message) : q = wire[d] \o sent[d]
            <4>1. wire[d] \in Seq(Message) /\ sent[d] \in Seq(Message)
                BY DEF TypeInv
            <4> QED BY <4>1, ConcatFacts
        <3>4. Linked(d, x, y, q) /\ m = MsgAt(d, y) /\ MsgAt(d, y) \in Message
            BY <2>2, <2>3, <3>1, <3>2, <3>3
        <3>5. d = 0 \/ (First(d) <= y[2] /\ y[2] < End(d))
            BY <2>3, <3>2
        <3>6. Linked(d, x, NextPlace(d, y), Append(q, MsgAt(d, y)))
            BY <1>1, <3>4, <3>5, LinkAppend
        <3> QED BY <2>1, <2>3, <3>1, <3>2, <3>3, <3>4, <3>6
    <2>4. CASE d # c
        BY <2>1, <2>2, <2>4
    <2> QED BY <2>3, <2>4
<1> QED BY <1>2, ChanKeeps

\* BOB reads the message of the place where he is on channel c and goes on.
LEMMA ReadKeeps ==
    ASSUME TypeInv, ChanInv, shape' = shape, NEW c \in Thread, wire[c] # <<>>,
           Cursor("BOB", c)' = NextPlace(c, Cursor("BOB", c)),
           \A d \in Thread : d # c => Cursor("BOB", d)' = Cursor("BOB", d),
           me'["ALICE"] = me["ALICE"], Take(c)
    PROVE  /\ ChanInv'
           /\ Head(wire[c]) = MsgAt(c, Cursor("BOB", c))
           /\ Before(Cursor("BOB", c), Cursor("ALICE", c))
<1>1. "ALICE" \in Party /\ "BOB" \in Party /\ shape \in Shapes
    BY DEF Party, TypeInv
<1>2. /\ \A d \in Thread : wire[d] \in Seq(Message) /\ sent[d] \in Seq(Message)
      /\ wire'[c] = Tail(wire[c]) /\ sent' = sent
      /\ \A d \in Thread : d # c => wire'[d] = wire[d]
    BY DEF TypeInv, Take
<1>3. PICK x : x = Cursor("BOB", c)
    OBVIOUS
<1>4. PICK y : y = Cursor("ALICE", c)
    OBVIOUS
<1>5. PICK m : m \in Message
    <2>1. Head(wire[c]) \in Message
        BY <1>2
    <2> QED BY <2>1
<1>6. PICK q \in Seq(Message) : q = wire[c] \o sent[c]
    BY <1>5, <1>2, ConcatFacts
<1>7. q # <<>> /\ Head(q) = Head(wire[c]) /\ Tail(q) = wire'[c] \o sent'[c]
    <2>1. PICK w \in Seq(Message) : w = wire[c]
        BY <1>2
    <2>2. PICK s \in Seq(Message) : s = sent[c]
        BY <1>2
    <2>3. q = w \o s /\ w # <<>>
        BY <1>6, <2>1, <2>2
    <2>4. w \o s # <<>> /\ Head(w \o s) = Head(w) /\ Tail(w) \o s = Tail(w \o s)
        BY <1>5, <2>3, ConcatFacts
    <2> QED BY <1>2, <2>1, <2>2, <2>3, <2>4
<1>8. Linked(c, x, y, q)
    BY <1>3, <1>4, <1>6 DEF ChanInv
<1>9. Head(q) = MsgAt(c, x) /\ Before(x, y) /\ Linked(c, NextPlace(c, x), y, Tail(q))
    BY <1>7, <1>8, LinkTail
<1>10. ASSUME NEW d \in Thread
      PROVE  \E u, v, w : /\ u = Cursor("BOB", d)' /\ v = Cursor("ALICE", d)'
                          /\ w = wire'[d] \o sent'[d]
                          /\ Linked(d, u, v, w)
    <2>1. Cursor("ALICE", d)' = Cursor("ALICE", d)
        BY <1>1, OtherCursor
    <2>2. CASE d = c
        BY <1>3, <1>4, <1>7, <1>9, <2>1, <2>2
    <2>3. CASE d # c
        <3>1. Linked(d, Cursor("BOB", d), Cursor("ALICE", d), wire[d] \o sent[d])
            BY DEF ChanInv
        <3> QED BY <1>2, <2>1, <2>3, <3>1
    <2> QED BY <2>2, <2>3
<1>11. ChanInv'
    BY <1>10, ChanKeeps
<1> QED BY <1>3, <1>4, <1>7, <1>9, <1>11

(*------------------------- steps of a single thread ---------------------*)
\* A thread at work is inside its share, and its place is the one of its tree.
LEMMA ActiveFacts ==
    ASSUME TypeInv, NEW p \in Party, PartyInv(p), NEW t \in Thread, Active(p, t)
    PROVE  /\ me[p].pc \in {"fork", "own"} /\ InTrees(p)
           /\ First(t) \in Nat /\ End(t) \in Nat /\ shape.height \in Nat \ {0}
           /\ First(t) <= me[p].tree[t] /\ me[p].tree[t] < End(t)
           /\ me[p].tree[t] \in Tree /\ me[p].tree[t] \in Nat
           /\ me[p].step[t] \in Nat /\ me[p].step[t] <= shape.height
           /\ me[p].run \in Nat
           /\ Cursor(p, t) = <<me[p].run, me[p].tree[t], me[p].step[t]>>
<1> DEFINE i == me[p].tree[t]
           s == me[p].step[t]
<1>1. /\ shape \in Shapes /\ me[p].pc \in Pc /\ i \in Nat /\ s \in Nat /\ me[p].run \in Nat
    BY Typing
<1>2. /\ First(t) \in Nat /\ End(t) \in Nat /\ End(t) <= shape.trees
      /\ shape.height \in Nat \ {0} /\ shape.trees \in Nat /\ Tree = 0..(shape.trees - 1)
    BY <1>1, Shares, ShapeFacts
<1>3. First(t) <= i /\ s <= shape.height /\ (Joined(p) => i = End(t))
    BY DEF PartyInv
<1>4. i < End(t) /\ me[p].pc \notin {"idle", "init"}
    BY DEF Active
<1> HIDE DEF i, s
<1>5. me[p].pc \in {"fork", "own"}
    BY <1>1, <1>2, <1>3, <1>4 DEF Joined, Pc
<1>6. Cursor(p, t) = PlaceOf(me[p].run, t, i, s)
    BY <1>5, CursorIf DEF i, s
<1>7. Cursor(p, t) = <<me[p].run, i, s>>
    BY <1>4, <1>6 DEF PlaceOf
<1>8. i \in Tree
    BY <1>1, <1>2, <1>4
<1> QED BY <1>1, <1>2, <1>3, <1>4, <1>5, <1>7, <1>8 DEF InTrees, i, s

\* A party whose record does not change satisfies its invariant.
LEMMA OtherParty ==
    ASSUME shape' = shape, NEW q \in Party, PartyInv(q), me'[q] = me[q]
    PROVE  PartyInv(q)'
BY Rigid DEF PartyInv, InTrees, Joined, Done

\* A thread that goes on to the next message of its tree
LEMMA NextStepFacts ==
    ASSUME TypeInv, NEW p \in Party, PartyInv(p), NEW t \in Thread, Active(p, t),
           me[p].step[t] < shape.height, NextStep(p, t)
    PROVE  /\ shape' = shape /\ me' \in [Party -> PartyRec]
           /\ \A q \in Party : q # p => me'[q] = me[q]
           /\ me'[p].pc = me[p].pc /\ me'[p].run = me[p].run /\ me'[p].seed = me[p].seed
           /\ me'[p].tree = me[p].tree /\ me'[p].vw = me[p].vw
           /\ me'[p].step = [me[p].step EXCEPT ![t] = @ + 1]
           /\ Cursor(p, t)' = NextPlace(t, Cursor(p, t))
           /\ \A d \in Thread : d # t => Cursor(p, d)' = Cursor(p, d)
           /\ PartyInv(p)'
<1> DEFINE old == me[p]
           rec == [me[p] EXCEPT !.step[t] = @ + 1]
<1>1. Become(p, rec)
    BY DEF NextStep
<1>2. /\ old \in PartyRec /\ old.pc \in Pc /\ old.tree \in [Thread -> Nat]
      /\ old.step \in [Thread -> Nat] /\ old.run \in Nat
    BY Typing
<1>3. /\ rec \in PartyRec /\ rec.pc = old.pc /\ rec.run = old.run /\ rec.seed = old.seed
      /\ rec.tree = old.tree /\ rec.vw = old.vw /\ rec.queued = old.queued
      /\ rec.step = [old.step EXCEPT ![t] = @ + 1]
    BY <1>2 DEF PartyRec
<1> HIDE DEF rec
<1>4. /\ shape' = shape /\ me'[p] = rec /\ me' \in [Party -> PartyRec]
      /\ \A q \in Party : q # p => me'[q] = me[q]
    BY <1>1, <1>3, Becomes
<1>5. /\ old.pc \in {"fork", "own"} /\ InTrees(p) /\ old.tree[t] < End(t)
      /\ Cursor(p, t) = <<old.run, old.tree[t], old.step[t]>>
      /\ old.step[t] \in Nat /\ old.step[t] < shape.height /\ shape.height \in Nat
    BY ActiveFacts
<1>6. /\ rec.step[t] = old.step[t] + 1
      /\ \A d \in Thread : d # t => rec.step[d] = old.step[d]
    BY <1>2, <1>3
<1>7. \A d \in Thread : Cursor(p, d)' = PlaceOf(rec.run, d, rec.tree[d], rec.step[d])
    <2>1. rec.pc \in {"fork", "own"}
        BY <1>3, <1>5
    <2> QED BY <1>4, <2>1, CursorNext
<1>8. Cursor(p, t)' = NextPlace(t, Cursor(p, t))
    <2>1. Cursor(p, t)' = <<old.run, old.tree[t], old.step[t] + 1>>
        BY <1>3, <1>5, <1>6, <1>7 DEF PlaceOf
    <2> QED BY <1>5, <2>1 DEF NextPlace
<1>9. \A d \in Thread : d # t => Cursor(p, d)' = Cursor(p, d)
    <2>1. \A d \in Thread : Cursor(p, d) = PlaceOf(old.run, d, old.tree[d], old.step[d])
        BY <1>5, CursorIf
    <2> QED BY <1>3, <1>6, <1>7, <2>1
<1>10. PartyInv(p)'
    <2>1. /\ rec.run <= MaxRuns /\ rec.queued <= Main
          /\ \A u \in Thread :
                /\ First(u) <= rec.tree[u] /\ rec.tree[u] <= End(u)
                /\ rec.step[u] <= shape.height
                /\ rec.tree[u] = End(u) => rec.step[u] = 0
        <3>1. \A u \in Thread :
                /\ First(u) <= old.tree[u] /\ old.tree[u] <= End(u)
                /\ old.step[u] <= shape.height
                /\ (old.tree[u] = End(u) => old.step[u] = 0)
            BY DEF PartyInv
        <3>2. old.run <= MaxRuns /\ old.queued <= Main
            BY DEF PartyInv
        <3>3. old.tree[t] # End(t)
            <4>1. End(t) \in Nat /\ old.tree[t] \in Nat
                BY ActiveFacts
            <4> QED BY <1>5, <4>1
        <3>4. old.step[t] + 1 <= shape.height
            BY <1>5
        <3> HIDE DEF old
        <3> QED BY <1>3, <1>6, <3>1, <3>2, <3>3, <3>4
    <2>2. shape.malicious => rec.vw = {i \in Tree : \E u \in Thread : First(u) <= i /\ i < rec.tree[u]}
        BY <1>3, <1>5 DEF PartyInv, Done
    <2>3. rec.pc \in {"fork", "own"}
        BY <1>3, <1>5
    <2> QED BY <1>4, <2>1, <2>2, <2>3, Rigid DEF PartyInv, InTrees, Joined, Done
<1> QED BY <1>3, <1>4, <1>8, <1>9, <1>10

\* A thread that has come to the end of a tree
LEMMA NextTreeFacts ==
    ASSUME TypeInv, NEW p \in Party, PartyInv(p), NEW t \in Thread, Active(p, t),
           me[p].step[t] = shape.height, NextTree(p, t)
    PROVE  /\ shape' = shape /\ me' \in [Party -> PartyRec]
           /\ \A q \in Party : q # p => me'[q] = me[q]
           /\ me'[p].pc = me[p].pc /\ me'[p].run = me[p].run /\ me'[p].seed = me[p].seed
           /\ me'[p].tree = [me[p].tree EXCEPT ![t] = @ + 1]
           /\ me'[p].step = [me[p].step EXCEPT ![t] = 0]
           /\ Cursor(p, t)' = NextPlace(t, Cursor(p, t))
           /\ \A d \in Thread : d # t => Cursor(p, d)' = Cursor(p, d)
           /\ PartyInv(p)'
<1> DEFINE old == me[p]
           i == old.tree[t]
           vw == IF shape.malicious THEN old.vw \cup {i} ELSE old.vw
           tree == [old.tree EXCEPT ![t] = @ + 1]
           step == [old.step EXCEPT ![t] = 0]
           rec == [me[p] EXCEPT !.step = step, !.tree = tree, !.vw = vw]
<1>1. Become(p, rec)
    <2>1. PICK f : /\ Become(p, f)
                   /\ f = [old EXCEPT !.step[t] = 0, !.tree[t] = @ + 1,
                                      !.vw = IF shape.malicious THEN @ \cup {i} ELSE @]
        BY DEF NextTree
    <2>2. f = rec
        <3>1. me[p] \in PartyRec
            BY Typing
        <3> QED BY <2>1, <3>1 DEF PartyRec
    <2> QED BY <2>1, <2>2
<1>2. /\ old \in PartyRec /\ old.pc \in Pc /\ old.tree \in [Thread -> Nat]
      /\ old.step \in [Thread -> Nat] /\ old.run \in Nat /\ shape \in Shapes
    BY Typing
<1>3. /\ old.pc \in {"fork", "own"} /\ InTrees(p) /\ First(t) <= i /\ i < End(t)
      /\ Cursor(p, t) = <<old.run, i, shape.height>>
      /\ i \in Tree /\ i \in Nat /\ End(t) \in Nat /\ First(t) \in Nat
      /\ shape.height \in Nat \ {0}
    BY ActiveFacts
<1>4. vw \in SUBSET Tree
    BY <1>2, <1>3 DEF PartyRec
<1>5. tree \in [Thread -> Nat] /\ step \in [Thread -> Nat]
    <2>1. i + 1 \in Nat
        BY <1>3
    <2> QED BY <1>2, <2>1
<1> HIDE DEF vw, i, tree, step
<1>6. /\ rec \in PartyRec /\ rec.pc = old.pc /\ rec.run = old.run /\ rec.seed = old.seed
       /\ rec.tree = tree /\ rec.vw = vw
       /\ rec.queued = old.queued /\ rec.step = step
    BY <1>2, <1>4, <1>5 DEF PartyRec
<1> HIDE DEF rec
<1>7. /\ shape' = shape /\ me'[p] = rec /\ me' \in [Party -> PartyRec]
      /\ \A q \in Party : q # p => me'[q] = me[q]
    BY <1>1, <1>6, Becomes
<1>8. /\ rec.step[t] = 0 /\ rec.tree[t] = i + 1
      /\ \A d \in Thread : d # t => rec.step[d] = old.step[d] /\ rec.tree[d] = old.tree[d]
    BY <1>2, <1>6 DEF i, tree, step
<1>9. \A d \in Thread : Cursor(p, d)' = PlaceOf(rec.run, d, rec.tree[d], rec.step[d])
    <2>1. rec.pc \in {"fork", "own"}
        BY <1>3, <1>6
    <2> QED BY <1>7, <2>1, CursorNext
<1>10. Cursor(p, t)' = NextPlace(t, Cursor(p, t))
    <2>1. Cursor(p, t)' = PlaceOf(old.run, t, i + 1, 0)
        BY <1>6, <1>8, <1>9
    <2> QED BY <1>3, <2>1 DEF NextPlace
<1>11. \A d \in Thread : d # t => Cursor(p, d)' = Cursor(p, d)
    <2>1. \A d \in Thread : Cursor(p, d) = PlaceOf(old.run, d, old.tree[d], old.step[d])
        BY <1>3, CursorIf
    <2> QED BY <1>6, <1>8, <1>9, <2>1
<1>12. PartyInv(p)'
    <2>1. /\ rec.run <= MaxRuns /\ rec.queued <= Main
          /\ \A u \in Thread :
                /\ First(u) <= rec.tree[u] /\ rec.tree[u] <= End(u)
                /\ rec.step[u] <= shape.height
                /\ rec.tree[u] = End(u) => rec.step[u] = 0
        <3>1. \A u \in Thread :
                /\ First(u) <= old.tree[u] /\ old.tree[u] <= End(u)
                /\ old.step[u] <= shape.height
                /\ (old.tree[u] = End(u) => old.step[u] = 0)
            BY DEF PartyInv
        <3>2. old.run <= MaxRuns /\ old.queued <= Main
            BY DEF PartyInv
        <3>3. First(t) <= i + 1 /\ i + 1 <= End(t) /\ 0 <= shape.height
            BY <1>3
        <3> HIDE DEF old
        <3> QED BY <1>6, <1>8, <3>1, <3>2, <3>3
    <2>2. shape.malicious => rec.vw = {j \in Tree : \E u \in Thread : First(u) <= j /\ j < rec.tree[u]}
        <3> SUFFICES ASSUME shape.malicious
                     PROVE  rec.vw = {j \in Tree : \E u \in Thread : First(u) <= j /\ j < rec.tree[u]}
            OBVIOUS
        <3>1. rec.vw = old.vw \cup {i}
            BY <1>6 DEF vw
        <3>2. old.vw = {j \in Tree : \E u \in Thread : First(u) <= j /\ j < old.tree[u]}
            BY <1>3 DEF PartyInv, Done
        <3>3. ASSUME NEW j \in Tree
              PROVE  (\E u \in Thread : First(u) <= j /\ j < rec.tree[u])
                        <=> (j = i \/ \E u \in Thread : First(u) <= j /\ j < old.tree[u])
            <4>1. j \in Nat /\ \A u \in Thread : old.tree[u] \in Nat
                <5>1. Tree \subseteq Nat
                    BY <1>2, ShapeFacts
                <5> QED BY <1>2, <5>1
            <4>2. ASSUME NEW u \in Thread, u # t
                  PROVE  (First(u) <= j /\ j < rec.tree[u]) <=> (First(u) <= j /\ j < old.tree[u])
                BY <1>8, <4>2
            <4>3. (First(t) <= j /\ j < rec.tree[t])
                     <=> (j = i \/ (First(t) <= j /\ j < old.tree[t]))
                BY <1>3, <1>8, <4>1 DEF i
            <4> HIDE DEF old
            <4> QED BY <4>2, <4>3
        <3> QED BY <1>3, <3>1, <3>2, <3>3
    <2>3. rec.pc \in {"fork", "own"}
        BY <1>3, <1>6
    <2> QED BY <1>7, <2>1, <2>2, <2>3, Rigid DEF PartyInv, InTrees, Joined, Done
<1> QED BY <1>6, <1>7, <1>8, <1>10, <1>11, <1>12 DEF tree, step

(*------------------------- steps of the main threads --------------------*)
(* The main thread passes from one part of the extension to the next and
   leaves the shares alone. *)
LEMMA Passed ==
    ASSUME TypeInv, NEW p \in Party, PartyInv(p), NEW rec \in PartyRec, Become(p, rec),
           rec.tree = me[p].tree, rec.step = me[p].step, rec.vw = me[p].vw,
           rec.run <= MaxRuns, rec.queued <= Main,
           rec.pc \in {"idle", "init"} => ~InTrees(p) \/ Joined(p),
           rec.pc \notin {"idle", "init"} => InTrees(p),
           rec.pc \in {"check", "compare", "seed"} => JoinedAll(p),
           rec.pc \in {"check", "compare"} => shape.malicious
    PROVE  PartyInv(p)'
<1> DEFINE old == me[p]
<1>1. /\ shape' = shape /\ me'[p] = rec /\ shape \in Shapes
      /\ shape.malicious \in BOOLEAN
    BY Becomes, Typing, ShapeFacts
<1>2. \A t \in Thread : /\ First(t) <= old.tree[t] /\ old.tree[t] <= End(t)
                        /\ old.tree[t] \in Nat /\ End(t) \in Nat
                        /\ old.step[t] <= shape.height
                        /\ (old.tree[t] = End(t) \/ ~InTrees(p) => old.step[t] = 0)
                        /\ (Joined(p) => old.tree[t] = End(t))
    BY <1>1, Typing, Shares DEF PartyInv
<1>3. ASSUME NEW t \in Thread
      PROVE  /\ First(t) <= rec.tree[t] /\ rec.tree[t] <= End(t)
             /\ rec.step[t] <= shape.height
             /\ (rec.tree[t] = End(t) \/ rec.pc \in {"idle", "init"} => rec.step[t] = 0)
             /\ (rec.pc \in {"check", "compare", "seed"} => rec.tree[t] = End(t))
    <2>1. JoinedAll(p) => old.tree[t] = End(t)
        BY <1>2 DEF JoinedAll
    <2> HIDE DEF old
    <2> QED BY <1>2, <2>1 DEF old
<1>4. shape.malicious /\ rec.pc \notin {"idle", "init"}
         => rec.vw = {i \in Tree : \E t \in Thread : First(t) <= i /\ i < rec.tree[t]}
    BY DEF PartyInv, Done
<1> HIDE DEF old
<1> QED BY <1>1, <1>3, <1>4, Rigid DEF PartyInv, InTrees, Joined, Done

\* The place behind the trees of channel c
LEMMA PlaceBehind ==
    ASSUME TypeInv, NEW p \in Party, PartyInv(p), NEW c \in Thread, JoinedAll(p) \/ Joined(p)
    PROVE  /\ me[p].tree[c] = End(c) /\ me[p].step[c] = 0
           /\ c # 0 => PlaceOf(me[p].run, c, me[p].tree[c], me[p].step[c])
                         = FirstPlace(me[p].run + 1, c)
           /\ c = 0 => PlaceOf(me[p].run, c, me[p].tree[c], me[p].step[c])
                         = <<me[p].run, End(0), IF shape.malicious THEN 0 ELSE 1>>
<1>1. /\ me[p].tree[c] \in Nat /\ End(c) \in Nat /\ First(c) \in Nat /\ First(c) <= End(c)
      /\ me[p].tree[c] <= End(c)
    BY Typing, Shares DEF PartyInv
<1>2. me[p].tree[c] = End(c)
    BY <1>1 DEF JoinedAll, PartyInv
<1>3. me[p].step[c] = 0
    BY <1>2 DEF PartyInv
<1> DEFINE r == me[p].run
<1> HIDE DEF r
<1>4. c # 0 => PlaceOf(r, c, End(c), 0) = FirstPlace(r + 1, c)
    BY <1>1 DEF PlaceOf, FirstPlace
<1>5. c = 0 => PlaceOf(r, c, End(c), 0) = <<r, End(0), IF shape.malicious THEN 0 ELSE 1>>
    BY <1>1 DEF PlaceOf
<1> QED BY <1>2, <1>3, <1>4, <1>5 DEF r

(* The first steps of an extension leave the place of the party on every
   channel as it is: it has sent or read nothing yet, or nothing more. *)
LEMMA OwnFacts ==
    ASSUME TypeInv, NEW p \in Party, PartyInv(p), Begin(p) \/ Fork(p) \/ Join(p)
    PROVE  /\ shape' = shape /\ me' \in [Party -> PartyRec]
           /\ \A q \in Party : q # p => me'[q] = me[q]
           /\ me'[p].tree = me[p].tree /\ me'[p].step = me[p].step
           /\ me'[p].seed = me[p].seed
           /\ \A c \in Thread : Cursor(p, c)' = Cursor(p, c)
           /\ PartyInv(p)'
<1> DEFINE old == me[p]
<1>1. /\ old \in PartyRec /\ old.pc \in Pc /\ old.run \in Nat /\ old.queued \in Nat
      /\ shape \in Shapes
    BY Typing
<1>2. Main \in Nat /\ shape.malicious \in BOOLEAN
    BY <1>1, ShapeFacts
<1>3. old.run <= MaxRuns /\ old.queued <= Main /\ MaxRuns \in Nat
    BY ExtendAssumption DEF PartyInv
<1>4. ASSUME NEW rec \in PartyRec, Become(p, rec), rec.tree = old.tree, rec.step = old.step,
             rec.seed = old.seed, PartyInv(p)',
             \A c \in Thread : Cursor(p, c)' = Cursor(p, c)
      PROVE  /\ shape' = shape /\ me' \in [Party -> PartyRec]
             /\ \A q \in Party : q # p => me'[q] = me[q]
             /\ me'[p].tree = me[p].tree /\ me'[p].step = me[p].step
             /\ me'[p].seed = me[p].seed
             /\ \A c \in Thread : Cursor(p, c)' = Cursor(p, c)
             /\ PartyInv(p)'
    BY <1>4, Becomes
<1>5. CASE Begin(p)
    <2> DEFINE rec == [me[p] EXCEPT !.run = @ + 1, !.pc = "init"]
    <2>1. Become(p, rec) /\ old.pc = "idle" /\ old.run < MaxRuns
        BY <1>5 DEF Begin
    <2>2. /\ rec \in PartyRec /\ rec.tree = old.tree /\ rec.step = old.step
          /\ rec.vw = old.vw /\ rec.run = old.run + 1 /\ rec.queued = old.queued
          /\ rec.pc = "init" /\ rec.seed = old.seed
        <3>1. PICK n \in Nat : n = old.run + 1
            BY <1>1
        <3>2. rec = [old EXCEPT !.run = n, !.pc = "init"]
            BY <3>1
        <3> HIDE DEF rec, old
        <3> QED BY <1>1, <3>1, <3>2 DEF PartyRec, Pc
    <2> HIDE DEF rec
    <2>3. PartyInv(p)'
        <3>1. rec.run <= MaxRuns /\ rec.queued <= Main /\ ~InTrees(p)
            BY <1>1, <1>3, <2>1, <2>2 DEF InTrees
        <3> QED BY <2>1, <2>2, <3>1, Passed
    <2>4. ASSUME NEW c \in Thread PROVE Cursor(p, c)' = Cursor(p, c)
        <3>1. shape' = shape /\ me'[p] = rec
            BY <2>1, Becomes
        <3>2. Cursor(p, c)' = FirstPlace(rec.run, c)
            BY <2>2, <3>1, CursorNext
        <3>3. Cursor(p, c) = FirstPlace(old.run + 1, c)
            BY <2>1, CursorIf
        <3> QED BY <2>2, <3>2, <3>3
    <2> QED BY <1>4, <2>1, <2>2, <2>3, <2>4
<1>6. CASE Fork(p)
    <2>1. PICK rec : /\ Become(p, rec) /\ old.pc = "fork"
                     /\ \/ old.queued < Main /\ rec = [old EXCEPT !.queued = @ + 1]
                        \/ rec = [old EXCEPT !.pc = "own"]
        BY <1>6 DEF Fork, Tasks
    <2>2. /\ rec \in PartyRec /\ rec.tree = old.tree /\ rec.step = old.step
          /\ rec.vw = old.vw /\ rec.run = old.run /\ rec.queued <= Main
          /\ rec.pc \in {"fork", "own"} /\ rec.seed = old.seed
        <3>1. CASE old.queued < Main /\ rec = [old EXCEPT !.queued = @ + 1]
            BY <1>1, <1>2, <2>1, <3>1 DEF PartyRec, Pc
        <3>2. CASE rec = [old EXCEPT !.pc = "own"]
            BY <1>1, <1>3, <3>2 DEF PartyRec, Pc
        <3> QED BY <2>1, <3>1, <3>2
    <2>3. PartyInv(p)'
        <3>1. rec.run <= MaxRuns /\ InTrees(p)
            BY <1>3, <2>1, <2>2 DEF InTrees
        <3> QED BY <2>1, <2>2, <3>1, Passed
    <2>4. ASSUME NEW c \in Thread PROVE Cursor(p, c)' = Cursor(p, c)
        <3>1. shape' = shape /\ me'[p] = rec
            BY <2>1, Becomes
        <3>2. Cursor(p, c)' = PlaceOf(rec.run, c, rec.tree[c], rec.step[c])
            BY <2>2, <3>1, CursorNext
        <3>3. Cursor(p, c) = PlaceOf(old.run, c, old.tree[c], old.step[c])
            BY <2>1, CursorIf
        <3> QED BY <2>2, <3>2, <3>3
    <2> QED BY <1>4, <2>1, <2>2, <2>3, <2>4
<1>7. CASE Join(p)
    <2> DEFINE next == IF shape.malicious THEN "check" ELSE "seed"
               rec == [me[p] EXCEPT !.pc = next]
    <2>1. Become(p, rec) /\ old.pc = "own" /\ JoinedAll(p)
        BY <1>7 DEF Join
    <2>2. next \in {"check", "seed"} /\ (next = "check") = shape.malicious
        BY <1>2
    <2>3. /\ rec \in PartyRec /\ rec.tree = old.tree /\ rec.step = old.step
          /\ rec.vw = old.vw /\ rec.run = old.run /\ rec.queued = old.queued
          /\ rec.pc = next /\ rec.seed = old.seed
        BY <1>1, <2>2 DEF PartyRec, Pc
    <2> HIDE DEF rec, next
    <2>4. PartyInv(p)'
        <3>1. /\ rec.run <= MaxRuns /\ rec.queued <= Main /\ InTrees(p)
              /\ rec.pc \notin {"idle", "init", "compare"}
              /\ (rec.pc = "check" => shape.malicious)
            BY <1>3, <2>1, <2>2, <2>3 DEF InTrees
        <3> QED BY <2>1, <2>3, <3>1, Passed
    <2>5. ASSUME NEW c \in Thread PROVE Cursor(p, c)' = Cursor(p, c)
        <3>1. shape' = shape /\ me'[p] = rec
            BY <2>1, Becomes
        <3>2. Cursor(p, c) = PlaceOf(old.run, c, old.tree[c], old.step[c])
            BY <2>1, CursorIf
        <3>3. CASE c = 0
            <4>1. Cursor(p, c) = <<old.run, End(0), IF shape.malicious THEN 0 ELSE 1>>
                BY <2>1, <3>2, <3>3, PlaceBehind
            <4>2. Cursor(p, c)' = <<rec.run, End(0), IF shape.malicious THEN 0 ELSE 1>>
                BY <1>2, <2>2, <2>3, <3>1, <3>3, CursorNext
            <4> QED BY <2>3, <4>1, <4>2
        <3>4. CASE c # 0
            <4>1. Cursor(p, c)' = PlaceOf(rec.run, c, rec.tree[c], rec.step[c])
                BY <2>2, <2>3, <3>1, <3>4, CursorNext
            <4> QED BY <2>3, <3>2, <4>1
        <3> QED BY <3>3, <3>4
    <2> QED BY <1>4, <2>1, <2>3, <2>4, <2>5
<1> QED BY <1>5, <1>6, <1>7

\* The threads begin their shares at the first tree.
LEMMA InitTreesFacts ==
    ASSUME TypeInv, NEW p \in Party, PartyInv(p), InitTrees(p)
    PROVE  /\ shape' = shape /\ me' \in [Party -> PartyRec]
           /\ \A q \in Party : q # p => me'[q] = me[q]
           /\ me'[p].tree = [t \in Thread |-> First(t)] /\ me'[p].step = me[p].step
           /\ \A t \in Thread : me[p].step[t] = 0
           /\ me'[p].run = me[p].run /\ me'[p].pc = "fork"
           /\ \A c \in Thread : Cursor(p, c)' = Cursor(p, c)
           /\ PartyInv(p)'
<1> DEFINE old == me[p]
           tree == [t \in Thread |-> First(t)]
           rec == [me[p] EXCEPT !.vw = {}, !.queued = 0, !.pc = "fork", !.tree = tree]
<1>1. /\ old \in PartyRec /\ old.run \in Nat /\ old.step \in [Thread -> Nat] /\ shape \in Shapes
    BY Typing
<1>2. /\ \A t \in Thread : First(t) \in Nat /\ End(t) \in Nat /\ First(t) <= End(t)
      /\ Main \in Nat /\ shape.height \in Nat \ {0}
    BY <1>1, Shares, ShapeFacts
<1>3. Become(p, rec) /\ old.pc = "init"
    BY DEF InitTrees
<1>4. tree \in [Thread -> Nat] /\ \A t \in Thread : tree[t] = First(t)
    BY <1>2
<1> HIDE DEF tree
<1>5. /\ rec \in PartyRec /\ rec.tree = tree /\ rec.step = old.step /\ rec.vw = {}
      /\ rec.run = old.run /\ rec.queued = 0 /\ rec.pc = "fork"
    BY <1>1, <1>4 DEF PartyRec, Pc
<1> HIDE DEF rec
<1>6. /\ shape' = shape /\ me'[p] = rec /\ me' \in [Party -> PartyRec]
      /\ \A q \in Party : q # p => me'[q] = me[q]
    BY <1>3, <1>5, Becomes
<1>7. (\A t \in Thread : old.step[t] = 0) /\ old.run <= MaxRuns
    BY <1>3 DEF PartyInv, InTrees
<1>8. ASSUME NEW c \in Thread PROVE Cursor(p, c)' = Cursor(p, c)
    <2>1. Cursor(p, c)' = PlaceOf(rec.run, c, rec.tree[c], rec.step[c])
        BY <1>5, <1>6, CursorNext
    <2>2. Cursor(p, c) = FirstPlace(old.run, c)
        BY <1>3, CursorIf
    <2> QED BY <1>4, <1>5, <1>7, <2>1, <2>2 DEF FirstPlace
<1>9. PartyInv(p)'
    <2>1. \A t \in Thread : /\ First(t) <= rec.tree[t] /\ rec.tree[t] <= End(t)
                            /\ rec.step[t] <= shape.height /\ rec.step[t] = 0
        BY <1>2, <1>4, <1>5, <1>7
    <2>2. rec.vw = {i \in Tree : \E t \in Thread : First(t) <= i /\ i < rec.tree[t]}
        <3>1. ASSUME NEW i \in Tree, NEW t \in Thread, First(t) <= i, i < rec.tree[t]
              PROVE  FALSE
            <4>1. i \in Nat /\ rec.tree[t] = First(t) /\ First(t) \in Nat
                BY <1>1, <1>2, <1>4, <1>5, ShapeFacts
            <4> QED BY <3>1, <4>1
        <3> QED BY <1>5, <3>1
    <2> QED BY <1>2, <1>5, <1>6, <1>7, <2>1, <2>2, Rigid DEF PartyInv, InTrees, Joined, Done
<1> QED BY <1>5, <1>6, <1>7, <1>8, <1>9 DEF tree

(* The check and the exchange of the seed move a party on channel 0 only. *)
LEMMA LaterFacts ==
    ASSUME TypeInv, NEW p \in Party, PartyInv(p), Joined(p), NEW rec \in PartyRec,
           Become(p, rec),
           rec.tree = me[p].tree, rec.step = me[p].step, rec.vw = me[p].vw,
           rec.run = me[p].run, rec.queued = me[p].queued,
           rec.pc \in {"compare", "seed", "idle"}, rec.pc = "compare" => shape.malicious
    PROVE  /\ PartyInv(p)'
           /\ \A c \in Thread : c # 0 => Cursor(p, c)' = Cursor(p, c)
           /\ Cursor(p, 0)' = IF rec.pc = "compare" THEN <<me[p].run, End(0), 0>>
                              ELSE IF rec.pc = "seed" THEN <<me[p].run, End(0), 1>>
                              ELSE FirstPlace(me[p].run + 1, 0)
<1> DEFINE old == me[p]
<1>1. /\ old.pc \in {"check", "compare", "seed"} /\ shape' = shape /\ me'[p] = rec
      /\ old.run <= MaxRuns /\ old.queued <= Main /\ InTrees(p)
    BY Becomes DEF Joined, PartyInv, InTrees
<1>2. JoinedAll(p)
    <2>1. \A t \in Thread : old.tree[t] = End(t) /\ old.tree[t] \in Nat
        BY Typing DEF PartyInv
    <2> QED BY <2>1 DEF JoinedAll
<1>3. PartyInv(p)'
    BY <1>1, <1>2, Passed
<1>4. ASSUME NEW c \in Thread, c # 0 PROVE Cursor(p, c)' = Cursor(p, c)
    <2>1. Cursor(p, c) = PlaceOf(old.run, c, old.tree[c], old.step[c])
        BY <1>1, <1>4, CursorIf
    <2>2. PlaceOf(old.run, c, old.tree[c], old.step[c]) = FirstPlace(old.run + 1, c)
        BY <1>2, <1>4, PlaceBehind
    <2>3. CASE rec.pc = "idle"
        <3>1. Cursor(p, c)' = FirstPlace(rec.run + 1, c)
            BY <1>1, <2>3, CursorNext
        <3> QED BY <2>1, <2>2, <3>1
    <2>4. CASE rec.pc # "idle"
        <3>1. Cursor(p, c)' = PlaceOf(rec.run, c, rec.tree[c], rec.step[c])
            BY <1>1, <1>4, <2>4, CursorNext
        <3> QED BY <2>1, <3>1
    <2> QED BY <2>3, <2>4
<1>5. Cursor(p, 0)' = IF rec.pc = "compare" THEN <<old.run, End(0), 0>>
                      ELSE IF rec.pc = "seed" THEN <<old.run, End(0), 1>>
                      ELSE FirstPlace(old.run + 1, 0)
    BY <1>1, CursorNext
<1> QED BY <1>3, <1>4, <1>5

\* What keeps the types
LEMMA TypeKeeps ==
    ASSUME TypeInv, shape' = shape, me' \in [Party -> PartyRec], bob' \in BobRec,
           sent' \in [Thread -> Seq(Message)], wire' \in [Thread -> Seq(Message)],
           back' \in Seq(Nat)
    PROVE  TypeInv'
BY Rigid DEF TypeInv, PartyRec, BobRec

\* What ALICE does does not touch BOB's trees.
LEMMA BobKeeps ==
    ASSUME BobInv, shape' = shape, me'["BOB"] = me["BOB"], bob' = bob
    PROVE  BobInv'
BY Rigid DEF BobInv, InTrees, Done, Begun, Key, SeedMsg, Msg, B

\* What keeps the count of the checks
LEMMA CheckKeeps ==
    ASSUME CheckInv, shape' = shape, back' = back, Asked' = Asked, Answered' = Answered,
           A'.pc # "compare", B.pc = "compare" => B'.pc = "compare" /\ B'.run = B.run
    PROVE  CheckInv'
BY DEF CheckInv, A, B

\* The messages of a channel
LEMMA MessageFacts ==
    ASSUME shape \in Shapes, NEW r \in Nat, NEW i \in Nat, NEW l \in Nat,
           NEW vw \in SUBSET Tree
    PROVE  /\ Pads(r, i, l) \in Message /\ SumMsg(r, i) \in Message
           /\ Digest(r, vw) \in Message /\ SeedMsg(r) \in Message
<1>1. i * shape.height + l \in Nat
    <2>1. shape.height \in Nat
        BY ShapeFacts
    <2> QED BY <2>1
<1>2. vw \in SUBSET Nat
    BY ShapeFacts
<1> DEFINE Data == Nat \cup SUBSET Nat
           Kind == {"pads", "sum", "dig", "seed"}
<1>3. i \in Data /\ vw \in Data /\ 0 \in Data /\ 0 \in Nat
    BY <1>2
<1>4. Message = [kind : Kind, run : Nat, tree : Data, level : Nat, key : Nat]
    BY Zenon DEF Message
<1> HIDE DEF Data
<1>5. Pads(r, i, l) \in Message
    BY <1>1, <1>3, <1>4 DEF Pads, Key, Msg
<1>6. SumMsg(r, i) \in Message
    BY <1>3, <1>4 DEF SumMsg, Msg
<1>7. Digest(r, vw) \in Message
    BY <1>3, <1>4 DEF Digest, Msg
<1>8. SeedMsg(r) \in Message
    BY <1>3, <1>4 DEF SeedMsg, Msg
<1> QED BY <1>5, <1>6, <1>7, <1>8

\* The main thread of either party begins an extension, starts and joins tasks.
LEMMA OwnStep ==
    ASSUME ExtInv, NEW p \in Party, Begin(p) \/ Fork(p) \/ Join(p)
    PROVE  ExtInv'
<1> USE DEF ExtInv, A, B
<1>1. /\ shape' = shape /\ me' \in [Party -> PartyRec]
      /\ \A q \in Party : q # p => me'[q] = me[q]
      /\ me'[p].tree = me[p].tree /\ me'[p].step = me[p].step
      /\ me'[p].seed = me[p].seed
      /\ \A c \in Thread : Cursor(p, c)' = Cursor(p, c)
      /\ PartyInv(p)'
    BY OwnFacts
<1>2. UNCHANGED chan
    BY DEF Begin, Fork, Join
<1>3. /\ p = "ALICE" => bob' = bob
      /\ Fork(p) \/ Join(p) => bob' = bob
      /\ bob' \in BobRec /\ bob'.alarm = bob.alarm
    <2>1. bob \in BobRec
        BY DEF TypeInv
    <2>2. CASE Begin(p)
        BY <2>1, <2>2 DEF Begin, Fork, Join, BobRec
    <2>3. CASE Fork(p) \/ Join(p)
        BY <2>1, <2>3 DEF Fork, Join
    <2>4. CASE Begin(p) /\ (Fork(p) \/ Join(p))
        BY <2>4 DEF Begin, Fork, Join
    <2>5. p = "ALICE" => bob' = bob
        BY DEF Begin, Fork, Join
    <2> QED BY <2>1, <2>2, <2>3, <2>5
<1>4. /\ me[p].pc = "idle" /\ me'[p].pc = "init" /\ me'[p].run = me[p].run + 1
      \/ /\ me[p].pc \in {"fork", "own"} /\ me'[p].pc \in {"fork", "own", "check", "seed"}
         /\ me'[p].run = me[p].run /\ (Fork(p) \/ Join(p))
         /\ me'[p].pc = "seed" => ~shape.malicious
    <2>1. me[p] \in PartyRec /\ shape.malicious \in BOOLEAN
        BY Typing, ShapeFacts
    <2>2. CASE Begin(p)
        BY <2>1, <2>2, <1>1, Becomes DEF Begin, PartyRec, TypeInv, Become
    <2>3. CASE Fork(p)
        BY <2>1, <2>3, <1>1 DEF Fork, PartyRec, TypeInv, Become
    <2>4. CASE Join(p)
        BY <2>1, <2>4, <1>1 DEF Join, PartyRec, TypeInv, Become
    <2> QED BY <2>2, <2>3, <2>4
<1>5. TypeInv'
    BY <1>1, <1>2, <1>3, TypeKeeps DEF chan, TypeInv
<1>6. \A q \in Party : PartyInv(q)'
    BY <1>1, OtherParty
<1>7. BobInv'
    <2>1. CASE p = "ALICE"
        <3>1. me'["BOB"] = me["BOB"]
            BY <1>1, <2>1 DEF Party
        <3> QED BY <1>1, <1>3, <2>1, <3>1, BobKeeps
    <2>2. CASE p = "BOB" /\ me'[p].pc = "init"
        BY <1>3, <2>2 DEF BobInv, InTrees
    <2>3. CASE p = "BOB" /\ me'[p].pc # "init"
        <3>1. /\ bob' = bob /\ InTrees("BOB") /\ me'["BOB"].pc # "idle"
            BY <1>3, <1>4, <2>3 DEF InTrees
        <3> QED BY <1>1, <2>3, <3>1, Rigid DEF BobInv, Done, Begun, Key
    <2> QED BY <2>1, <2>2, <2>3, Typing
<1>8. CheckInv'
    <2>1. A.run \in Nat /\ B.run \in Nat /\ "ALICE" \in Party /\ "BOB" \in Party
        BY Typing DEF Party
    <2>2. back' = back
        BY <1>2 DEF chan
    <2>3. CASE ~shape.malicious
        BY <1>1, <1>4, <2>1, <2>2, <2>3 DEF CheckInv, Party
    <2>4. CASE shape.malicious /\ p = "ALICE"
        <3>1. Answered' = Answered /\ Asked' = Asked /\ A'.pc # "compare" /\ me'["BOB"] = me["BOB"]
            BY <1>1, <1>4, <2>1, <2>4 DEF Answered, Asked
        <3> QED BY <1>1, <2>2, <3>1, CheckKeeps
    <2>5. CASE shape.malicious /\ p = "BOB"
        <3>1. /\ Answered' = Answered /\ Asked' = Asked /\ B.pc # "compare"
              /\ me'["ALICE"] = me["ALICE"]
            BY <1>1, <1>4, <2>1, <2>5 DEF Answered, Asked
        <3>2. A'.pc # "compare"
            BY <3>1 DEF CheckInv
        <3> QED BY <1>1, <2>2, <3>1, <3>2, CheckKeeps
    <2> QED BY <2>3, <2>4, <2>5, Typing
<1>9. ChanInv'
    <2>1. \A q \in Party : \A c \in Thread : Cursor(q, c)' = Cursor(q, c)
        BY <1>1, OtherCursor
    <2> QED BY <1>1, <1>2, <2>1, SilentKeeps DEF chan
<1> QED BY <1>5, <1>6, <1>7, <1>8, <1>9

\* The trees of an extension are prepared.
LEMMA InitTreesStep ==
    ASSUME ExtInv, NEW p \in Party, InitTrees(p)
    PROVE  ExtInv'
<1> USE DEF ExtInv, A, B
<1>1. /\ shape' = shape /\ me' \in [Party -> PartyRec]
      /\ \A q \in Party : q # p => me'[q] = me[q]
      /\ me'[p].tree = [t \in Thread |-> First(t)] /\ me'[p].step = me[p].step
      /\ \A t \in Thread : me[p].step[t] = 0
      /\ me'[p].run = me[p].run /\ me'[p].pc = "fork"
      /\ \A c \in Thread : Cursor(p, c)' = Cursor(p, c)
      /\ PartyInv(p)'
    BY InitTreesFacts
<1>2. UNCHANGED chan /\ me[p].pc = "init" /\ (p = "ALICE" => bob' = bob)
    BY DEF InitTrees
<1>3. ASSUME p = "BOB" PROVE bob' \in BobRec /\ BobInv'
    <2> DEFINE b == [i \in Tree |-> Choices(bob.bits, bob.count + i * shape.height)]
    <2>1. bob' = [bob EXCEPT !.good = {}, !.b = b, !.count = 0] /\ bob \in BobRec
        BY <1>3 DEF InitTrees, TypeInv, Reset
    <2>2. b \in [Tree -> SUBSET Level]
        BY DEF Choices
    <2>3. ASSUME NEW i \in Tree, NEW l \in Level
          PROVE  (l \in b[i]) = (Key(i, l) \in bob.bits)
        <3>1. bob.count = 0
            BY <2>1 DEF BobRec
        <3>2. i * shape.height \in Nat
            BY Shares, ShapeFacts DEF TypeInv
        <3>3. b[i] = {k \in Level : i * shape.height + k \in bob.bits}
            BY <3>1, <3>2 DEF Choices
        <3> QED BY <3>3 DEF Key
    <2> HIDE DEF b
    <2>4. bob' \in BobRec /\ bob'.good = {} /\ bob'.b = b /\ bob'.bits = bob.bits /\ ~bob'.alarm
        BY <2>1, <2>2 DEF BobRec, BobInv
    <2>5. ASSUME NEW i \in Tree PROVE ~Done("BOB", i)' /\ ~Begun(i)'
        <3>1. \A t \in Thread : me'["BOB"].tree[t] = First(t) /\ me'["BOB"].step[t] = 0
            BY <1>1, <1>3
        <3>2. i \in Nat /\ \A t \in Thread : First(t) \in Nat
            BY Shares, ShapeFacts DEF TypeInv
        <3>3. \A t \in Thread : ~(First(t) <= i /\ i < me'["BOB"].tree[t])
            BY <3>1, <3>2
        <3> QED BY <1>1, <3>1, <3>3, Rigid DEF Done, Begun
    <2>6. BobInv'
        BY <1>1, <1>3, <2>3, <2>4, <2>5, Rigid DEF BobInv, InTrees, Key
    <2> QED BY <2>4, <2>6
<1>4. ASSUME p = "ALICE" PROVE bob' \in BobRec /\ BobInv'
    <2>1. bob' = bob /\ me'["BOB"] = me["BOB"]
        BY <1>1, <1>2, <1>4 DEF Party
    <2>2. BobInv'
        BY <1>1, <2>1, BobKeeps
    <2> QED BY <2>1, <2>2 DEF TypeInv
<1>5. bob' \in BobRec /\ BobInv'
    BY <1>3, <1>4, Typing DEF TypeInv
<1>6. TypeInv'
    BY <1>1, <1>2, <1>5, TypeKeeps DEF chan, TypeInv
<1>7. \A q \in Party : PartyInv(q)'
    BY <1>1, OtherParty
<1>8. CheckInv'
    <2>1. Answered' = Answered /\ Asked' = Asked /\ A'.pc # "compare"
        BY <1>1, <1>2 DEF Answered, Asked, CheckInv, Party
    <2>2. B.pc = "compare" => B'.pc = "compare" /\ B'.run = B.run
        BY <1>1, <1>2 DEF Party
    <2> QED BY <1>1, <1>2, <2>1, <2>2, CheckKeeps DEF chan
<1>9. ChanInv'
    <2>1. \A q \in Party : \A c \in Thread : Cursor(q, c)' = Cursor(q, c)
        BY <1>1, OtherCursor
    <2> QED BY <1>1, <1>2, <2>1, SilentKeeps DEF chan
<1> QED BY <1>5, <1>6, <1>7, <1>8, <1>9

(*---------------------- steps of the sender's threads -------------------*)
\* Writing to a channel, with and without a flush
LEMMA Written ==
    ASSUME TypeInv, NEW c \in Thread, NEW m \in Message,
           Put(c, <<m>>) \/ Flush(c, <<m>>)
    PROVE  /\ sent' \in [Thread -> Seq(Message)] /\ wire' \in [Thread -> Seq(Message)]
           /\ \A d \in Thread : wire'[d] \o sent'[d] = IF d = c THEN Append(wire[d] \o sent[d], m)
                                                                ELSE wire[d] \o sent[d]
<1>1. /\ sent \in [Thread -> Seq(Message)] /\ wire \in [Thread -> Seq(Message)]
      /\ \A d \in Thread : wire[d] \in Seq(Message) /\ sent[d] \in Seq(Message)
    BY DEF TypeInv
<1>2. PICK w \in Seq(Message) : w = wire[c]
    BY <1>1
<1>3. PICK s \in Seq(Message) : s = sent[c]
    BY <1>1
<1>4. CASE Put(c, <<m>>)
    <2>1. PICK x \in Seq(Message) : x = s \o <<m>>
        BY ConcatFacts
    <2>2. sent' = [sent EXCEPT ![c] = x] /\ wire' = wire
        BY <1>3, <1>4, <2>1 DEF Put
    <2>3. w \o x = Append(w \o s, m)
        BY <2>1, ConcatFacts
    <2>4. sent'[c] = x /\ \A d \in Thread : d # c => sent'[d] = sent[d]
        BY <1>1, <2>2
    <2>5. ASSUME NEW d \in Thread
          PROVE  wire'[d] \o sent'[d] = IF d = c THEN Append(wire[d] \o sent[d], m)
                                                 ELSE wire[d] \o sent[d]
        <3>1. CASE d = c
            <4>1. wire'[d] = w /\ sent'[d] = x /\ wire[d] = w /\ sent[d] = s
                BY <1>2, <1>3, <2>2, <2>4, <3>1
            <4> QED BY <2>3, <3>1, <4>1
        <3>2. CASE d # c
            <4>1. wire'[d] = wire[d] /\ sent'[d] = sent[d]
                BY <2>2, <2>4, <3>2
            <4> QED BY Zenon, <3>2, <4>1
        <3> QED BY <3>1, <3>2
    <2> QED BY <1>1, <2>2, <2>5
<1>5. CASE Flush(c, <<m>>)
    <2>1. PICK x \in Seq(Message) : x = (w \o s) \o <<m>>
        BY ConcatFacts
    <2>2. sent' = [sent EXCEPT ![c] = <<>>] /\ wire' = [wire EXCEPT ![c] = x]
        BY <1>2, <1>3, <1>5, <2>1 DEF Flush
    <2>3. x \o <<>> = Append(w \o s, m) /\ <<>> \in Seq(Message)
        BY <2>1, ConcatFacts
    <2>4. /\ sent'[c] = <<>> /\ wire'[c] = x
          /\ \A d \in Thread : d # c => sent'[d] = sent[d] /\ wire'[d] = wire[d]
        BY <1>1, <2>2
    <2>5. ASSUME NEW d \in Thread
          PROVE  wire'[d] \o sent'[d] = IF d = c THEN Append(wire[d] \o sent[d], m)
                                                 ELSE wire[d] \o sent[d]
        BY <1>2, <1>3, <2>3, <2>4
    <2>6. sent' \in [Thread -> Seq(Message)] /\ wire' \in [Thread -> Seq(Message)]
        BY <1>1, <2>2, <2>3
    <2> QED BY <2>5, <2>6
<1> QED BY <1>4, <1>5

\* A thread of ALICE writes the next message of its tree.
LEMMA SendStep ==
    ASSUME ExtInv, NEW t \in Thread, SendPads(t) \/ SendSum(t)
    PROVE  ExtInv'
<1> USE DEF ExtInv, A, B
<1> DEFINE r == me["ALICE"].run
           i == me["ALICE"].tree[t]
           s == me["ALICE"].step[t]
<1>1. "ALICE" \in Party /\ "BOB" \in Party /\ shape \in Shapes /\ PartyInv("ALICE")
    BY DEF TypeInv, Party
<1>2. Active("ALICE", t) /\ bob' = bob /\ back' = back
    BY DEF SendPads, SendSum, Put, TreeEnd
<1>3. /\ r \in Nat /\ i \in Nat /\ s \in Nat /\ First(t) <= i /\ i < End(t)
      /\ shape.height \in Nat \ {0} /\ Cursor("ALICE", t) = <<r, i, s>>
      /\ me["ALICE"].pc \in {"fork", "own"}
    BY <1>1, <1>2, ActiveFacts
<1>4. PICK m \in Message : /\ m = MsgAt(t, <<r, i, s>>)
                           /\ Put(t, <<m>>) \/ Flush(t, <<m>>)
    <2>1. CASE SendPads(t)
        <3>1. s < shape.height /\ Put(t, <<Pads(r, i, s)>>)
            BY <2>1 DEF SendPads, Io
        <3>2. MsgAt(t, <<r, i, s>>) = Pads(r, i, s)
            BY <1>3, <3>1 DEF MsgAt
        <3>3. Pads(r, i, s) \in Message
            BY <1>1, <1>3, MessageFacts
        <3> QED BY <3>1, <3>2, <3>3
    <2>2. CASE SendSum(t)
        <3>1. s = shape.height /\ Flush(t, <<SumMsg(r, i)>>)
            BY <2>2 DEF SendSum, TreeEnd, Io
        <3>2. MsgAt(t, <<r, i, s>>) = SumMsg(r, i)
            BY <1>3, <3>1 DEF MsgAt
        <3>3. SumMsg(r, i) \in Message
            BY <1>1, <1>3, MessageFacts
        <3> QED BY <3>1, <3>2, <3>3
    <2> QED BY <2>1, <2>2
<1>5. /\ shape' = shape /\ me' \in [Party -> PartyRec]
      /\ me'["BOB"] = me["BOB"]
      /\ me'["ALICE"].pc = me["ALICE"].pc /\ me'["ALICE"].run = r
      /\ Cursor("ALICE", t)' = NextPlace(t, Cursor("ALICE", t))
      /\ \A d \in Thread : d # t => Cursor("ALICE", d)' = Cursor("ALICE", d)
      /\ PartyInv("ALICE")'
    <2>1. CASE SendPads(t)
        <3>1. s < shape.height /\ NextStep("ALICE", t)
            BY <2>1 DEF SendPads
        <3> QED BY <1>1, <1>2, <3>1, NextStepFacts
    <2>2. CASE SendSum(t)
        <3>1. s = shape.height /\ NextTree("ALICE", t)
            BY <2>2 DEF SendSum
        <3> QED BY <1>1, <1>2, <3>1, NextTreeFacts
    <2> QED BY <2>1, <2>2
<1>6. /\ sent' \in [Thread -> Seq(Message)] /\ wire' \in [Thread -> Seq(Message)]
      /\ \A d \in Thread : wire'[d] \o sent'[d] = IF d = t THEN Append(wire[d] \o sent[d], m)
                                                           ELSE wire[d] \o sent[d]
    BY <1>4, Written
<1>7. TypeInv'
    BY <1>2, <1>5, <1>6, TypeKeeps DEF TypeInv
<1>8. \A q \in Party : PartyInv(q)'
    BY <1>1, <1>5, OtherParty, Typing
<1>9. BobInv'
    BY <1>2, <1>5, BobKeeps
<1>10. CheckInv'
    BY <1>2, <1>3, <1>5, CheckKeeps DEF Answered, Asked
<1>11. ChanInv'
    <2>1. /\ m = MsgAt(t, Cursor("ALICE", t))
          /\ First(t) <= Cursor("ALICE", t)[2] /\ Cursor("ALICE", t)[2] < End(t)
        BY <1>3, <1>4
    <2> QED BY <1>5, <1>6, <2>1, WriteKeeps
<1> QED BY <1>7, <1>8, <1>9, <1>10, <1>11

(*--------------------- steps of the receiver's threads ------------------*)
\* Reading from a channel
LEMMA TakenFrom ==
    ASSUME TypeInv, NEW c \in Thread, wire[c] # <<>>, Take(c)
    PROVE  /\ sent' \in [Thread -> Seq(Message)] /\ wire' \in [Thread -> Seq(Message)]
           /\ Head(wire[c]) \in Message /\ back' = back
<1>1. /\ wire \in [Thread -> Seq(Message)] /\ wire[c] \in Seq(Message)
      /\ sent \in [Thread -> Seq(Message)]
    BY DEF TypeInv
<1>2. Tail(wire[c]) \in Seq(Message) /\ Head(wire[c]) \in Message
    BY <1>1
<1> QED BY <1>1, <1>2 DEF Take

\* A thread of BOB reads the next message of its tree, and it is the right one.
LEMMA RecvStep ==
    ASSUME ExtInv, NEW t \in Thread, RecvPads(t) \/ RecvSum(t)
    PROVE  ExtInv'
<1> USE DEF ExtInv, A, B
<1> DEFINE r == me["BOB"].run
           i == me["BOB"].tree[t]
           s == me["BOB"].step[t]
<1>1. "ALICE" \in Party /\ "BOB" \in Party /\ shape \in Shapes /\ PartyInv("BOB")
    BY DEF TypeInv, Party
<1>2. Active("BOB", t) /\ wire[t] # <<>> /\ Take(t)
    BY DEF RecvPads, RecvSum, Io
<1>3. /\ r \in Nat /\ i \in Nat /\ s \in Nat /\ First(t) <= i /\ i < End(t)
      /\ First(t) \in Nat /\ End(t) \in Nat /\ s <= shape.height
      /\ shape.height \in Nat \ {0} /\ Cursor("BOB", t) = <<r, i, s>>
      /\ i \in Tree /\ InTrees("BOB") /\ me["BOB"].pc \in {"fork", "own"}
      /\ me["BOB"].tree \in [Thread -> Nat] /\ me["BOB"].step \in [Thread -> Nat]
    BY <1>1, <1>2, ActiveFacts, Typing
<1>4. /\ shape' = shape /\ me' \in [Party -> PartyRec]
      /\ me'["ALICE"] = me["ALICE"] /\ me'["BOB"].seed = me["BOB"].seed
      /\ me'["BOB"].pc = me["BOB"].pc /\ me'["BOB"].run = r
      /\ Cursor("BOB", t)' = NextPlace(t, Cursor("BOB", t))
      /\ \A d \in Thread : d # t => Cursor("BOB", d)' = Cursor("BOB", d)
      /\ PartyInv("BOB")'
    <2>1. CASE RecvPads(t)
        <3>1. s < shape.height /\ NextStep("BOB", t)
            BY <2>1 DEF RecvPads
        <3> QED BY <1>1, <1>2, <3>1, NextStepFacts
    <2>2. CASE RecvSum(t)
        <3>1. s = shape.height /\ NextTree("BOB", t)
            BY <2>2 DEF RecvSum
        <3> QED BY <1>1, <1>2, <3>1, NextTreeFacts
    <2> QED BY <2>1, <2>2
<1>5. ChanInv' /\ Head(wire[t]) = MsgAt(t, <<r, i, s>>)
    BY <1>2, <1>3, <1>4, ReadKeeps
<1>6. /\ sent' \in [Thread -> Seq(Message)] /\ wire' \in [Thread -> Seq(Message)]
      /\ back' = back
    BY <1>2, TakenFrom
<1>7. bob \in BobRec /\ bob.good = {j \in Tree : Done("BOB", j) \/ Begun(j)}
    BY <1>3 DEF TypeInv, BobInv
<1>8. s > 0 => i \in bob.good
    <2>1. s > 0 => Begun(i)
        BY <1>3 DEF Begun
    <2> QED BY <1>3, <1>7, <2>1
<1>9. bob' = [bob EXCEPT !.good = @ \cup {i}]
    <2>1. CASE RecvPads(t)
        <3>1. s < shape.height
            BY <2>1 DEF RecvPads
        <3>2. Judge(i, s = 0, /\ Head(wire[t]) = Pads(r, i, s)
                              /\ (s \in bob.b[i]) = (Key(i, s) \in bob.bits))
            BY <2>1 DEF RecvPads, Io
        <3>3. Head(wire[t]) = Pads(r, i, s)
            BY <1>3, <1>5, <3>1 DEF MsgAt
        <3>4. (s \in bob.b[i]) = (Key(i, s) \in bob.bits)
            <4>1. s \in Level
                BY <1>3, <3>1 DEF Level
            <4> QED BY <1>3, <4>1 DEF BobInv
        <3>5. s = 0 \/ i \in bob.good
            BY <1>3, <1>8
        <3> QED BY <3>2, <3>3, <3>4, <3>5 DEF Judge
    <2>2. CASE RecvSum(t)
        <3>1. s = shape.height /\ Judge(i, FALSE, Head(wire[t]) = SumMsg(r, i))
            BY <2>2 DEF RecvSum, Io
        <3>2. Head(wire[t]) = SumMsg(r, i)
            BY <1>3, <1>5, <3>1 DEF MsgAt
        <3>3. i \in bob.good
            BY <1>3, <1>8, <3>1
        <3> QED BY <3>1, <3>2, <3>3 DEF Judge
    <2> QED BY <2>1, <2>2
<1>10. /\ bob' \in BobRec /\ bob'.good = bob.good \cup {i} /\ bob'.b = bob.b
       /\ bob'.bits = bob.bits /\ bob'.alarm = bob.alarm
    BY <1>3, <1>7, <1>9 DEF BobRec
<1>11. ASSUME NEW j \in Tree
       PROVE  (Done("BOB", j) \/ Begun(j))' <=> (Done("BOB", j) \/ Begun(j) \/ j = i)
    <2>1. j \in Nat
        BY <1>1, ShapeFacts
    <2>2. CASE RecvPads(t)
        <3>1. /\ me'["BOB"].tree = me["BOB"].tree
              /\ me'["BOB"].step = [me["BOB"].step EXCEPT ![t] = @ + 1]
            BY <1>1, <1>2, <2>2, NextStepFacts DEF RecvPads
        <3>2. /\ me'["BOB"].step[t] > 0
              /\ \A u \in Thread : u # t => me'["BOB"].step[u] = me["BOB"].step[u]
            BY <1>3, <3>1
        <3>3. Done("BOB", j)' <=> Done("BOB", j)
            BY <1>4, <3>1, Rigid DEF Done
        <3>4. Begun(j)' <=> Begun(j) \/ j = i
            <4>1. ASSUME j = i PROVE Begun(j)'
                BY <1>3, <1>4, <3>1, <3>2, <4>1, Rigid DEF Begun
            <4>2. ASSUME j # i PROVE Begun(j)' <=> Begun(j)
                BY <1>4, <3>1, <3>2, <4>2, Rigid DEF Begun
            <4>3. ASSUME Begun(j), j = i PROVE Begun(j)'
                BY <4>1, <4>3
            <4> QED BY <4>1, <4>2
        <3> QED BY <3>3, <3>4
    <2>3. CASE RecvSum(t)
        <3>1. /\ me'["BOB"].tree = [me["BOB"].tree EXCEPT ![t] = @ + 1]
              /\ me'["BOB"].step = [me["BOB"].step EXCEPT ![t] = 0]
            BY <1>1, <1>2, <2>3, NextTreeFacts DEF RecvSum
        <3>2. /\ me'["BOB"].step[t] = 0 /\ me'["BOB"].tree[t] = i + 1
              /\ \A u \in Thread : u # t => /\ me'["BOB"].step[u] = me["BOB"].step[u]
                                            /\ me'["BOB"].tree[u] = me["BOB"].tree[u]
            BY <1>3, <3>1
        <3>3. ASSUME j = i PROVE Done("BOB", j)'
            BY <1>3, <1>4, <3>2, <3>3, Rigid DEF Done
        <3>4. ASSUME j # i
              PROVE  (Done("BOB", j)' <=> Done("BOB", j)) /\ (Begun(j)' <=> Begun(j))
            <4>1. (j < i + 1) <=> (j < i)
                BY <1>3, <2>1, <3>4
            <4>2. Done("BOB", j)' <=> Done("BOB", j)
                <5>1. \A u \in Thread : (j < me'["BOB"].tree[u]) <=> (j < me["BOB"].tree[u])
                    BY <3>2, <4>1
                <5> QED BY <1>4, <5>1, Rigid DEF Done
            <4>3. Begun(j)' <=> Begun(j)
                BY <1>4, <3>2, <3>4, Rigid DEF Begun
            <4> QED BY <4>2, <4>3
        <3> QED BY <3>3, <3>4
    <2> QED BY <2>2, <2>3
<1>12. BobInv'
    <2>1. bob'.good = {j \in Tree : (Done("BOB", j) \/ Begun(j))'}
        BY <1>3, <1>7, <1>10, <1>11
    <2> QED BY <1>3, <1>4, <1>10, <2>1, Rigid DEF BobInv, InTrees, Key
<1>13. TypeInv'
    BY <1>4, <1>6, <1>10, TypeKeeps DEF TypeInv
<1>14. \A q \in Party : PartyInv(q)'
    BY <1>1, <1>4, OtherParty, Typing
<1>15. CheckInv'
    <2>1. Answered' = Answered /\ Asked' = Asked /\ A'.pc # "compare"
        BY <1>3, <1>4 DEF Answered, Asked, CheckInv
    <2> QED BY <1>3, <1>4, <1>6, <2>1, CheckKeeps
<1> QED BY <1>5, <1>12, <1>13, <1>14, <1>15

(*------------------- the check and the seed of the matrix ---------------*)
\* After the join a party has dealt with every tree.
LEMMA AllDone ==
    ASSUME TypeInv, NEW p \in Party, PartyInv(p), Joined(p)
    PROVE  {i \in Tree : Done(p, i)} = Tree
<1>1. shape \in Shapes /\ \A t \in Thread : me[p].tree[t] = End(t)
    BY DEF TypeInv, PartyInv
<1>2. ASSUME NEW i \in Tree PROVE Done(p, i)
    <2>1. PICK t \in Thread : First(t) <= i /\ i < End(t)
        BY <1>1, Shares
    <2> QED BY <1>1, <2>1 DEF Done
<1> QED BY <1>2

\* BOB asks for the check, and ALICE has answered the ones before.
LEMMA SendXPrimeStep ==
    ASSUME ExtInv, SendXPrime
    PROVE  ExtInv'
<1> USE DEF ExtInv, A, B
<1> DEFINE old == me["BOB"]
           rec == [me["BOB"] EXCEPT !.pc = "compare"]
<1>1. /\ "ALICE" \in Party /\ "BOB" \in Party /\ shape \in Shapes /\ PartyInv("BOB")
      /\ old \in PartyRec /\ old.run \in Nat /\ me["ALICE"].run \in Nat
    BY Typing DEF TypeInv, Party
<1>2. /\ old.pc = "check" /\ back' = Append(back, old.run) /\ Become("BOB", rec)
      /\ UNCHANGED <<bob, sent, wire>>
    BY DEF SendXPrime
<1>3. Joined("BOB") /\ shape.malicious
    BY <1>1, <1>2 DEF Joined, PartyInv
<1>4. /\ rec \in PartyRec /\ rec.tree = old.tree /\ rec.step = old.step /\ rec.vw = old.vw
      /\ rec.run = old.run /\ rec.queued = old.queued /\ rec.pc = "compare"
    BY <1>1 DEF PartyRec, Pc
<1> HIDE DEF rec
<1>5. /\ shape' = shape /\ me'["BOB"] = rec /\ me' \in [Party -> PartyRec]
      /\ me'["ALICE"] = me["ALICE"]
    BY <1>1, <1>2, <1>4, Becomes
<1>6. /\ PartyInv("BOB")'
      /\ \A c \in Thread : c # 0 => Cursor("BOB", c)' = Cursor("BOB", c)
      /\ Cursor("BOB", 0)' = <<old.run, End(0), 0>>
    BY <1>1, <1>2, <1>3, <1>4, LaterFacts
<1>7. Cursor("BOB", 0) = <<old.run, End(0), 0>>
    BY <1>2, CursorIf
<1>8. back = <<>> /\ Asked = Answered
    BY <1>2, <1>3 DEF CheckInv
<1>9. TypeInv'
    <2>1. back' \in Seq(Nat)
        BY <1>1, <1>2 DEF TypeInv
    <2> QED BY <1>2, <1>5, <2>1, TypeKeeps DEF TypeInv
<1>10. \A q \in Party : PartyInv(q)'
    BY <1>1, <1>5, <1>6, OtherParty, Typing
<1>11. BobInv'
    <2>1. InTrees("BOB") /\ me'["BOB"].tree = old.tree /\ me'["BOB"].step = old.step
        BY <1>2, <1>4, <1>5 DEF InTrees
    <2> QED BY <1>2, <1>4, <1>5, <2>1, Rigid DEF BobInv, Done, Begun, Key
<1>12. CheckInv'
    <2>1. Answered' = Answered /\ A'.pc # "compare"
        BY <1>5 DEF Answered, CheckInv
    <2>2. Asked' = Asked + 1 /\ Asked' = Answered + 1
        BY <1>1, <1>2, <1>4, <1>5, <1>8 DEF Asked
    <2>3. back' = <<rec.run>>
        BY <1>2, <1>4, <1>8
    <2> QED BY <1>3, <1>4, <1>5, <2>1, <2>2, <2>3 DEF CheckInv
<1>13. ChanInv'
    <2>1. \A q \in Party : \A c \in Thread : Cursor(q, c)' = Cursor(q, c)
        BY <1>1, <1>5, <1>6, <1>7, OtherCursor, Typing
    <2> QED BY <1>2, <1>5, <2>1, SilentKeeps
<1> QED BY <1>9, <1>10, <1>11, <1>12, <1>13

\* ALICE answers the check of this extension, with all her trees.
LEMMA SendDigestStep ==
    ASSUME ExtInv, SendDigest
    PROVE  ExtInv'
<1> USE DEF ExtInv, A, B
<1> DEFINE old == me["ALICE"]
           rec == [me["ALICE"] EXCEPT !.pc = "seed"]
           m == Digest(old.run, Tree)
<1>1. /\ "ALICE" \in Party /\ "BOB" \in Party /\ shape \in Shapes /\ PartyInv("ALICE")
      /\ old \in PartyRec /\ old.run \in Nat /\ me["BOB"].run \in Nat
      /\ 0 \in Thread /\ End(0) \in Nat
    BY Typing, ShapeFacts, Shares DEF TypeInv, Party
<1>2. /\ old.pc = "check" /\ back # <<>> /\ back' = Tail(back) /\ Become("ALICE", rec)
      /\ Flush(0, <<Digest(Head(back), IF Head(back) = old.run THEN old.vw ELSE {})>>)
      /\ bob' = bob
    BY DEF SendDigest
<1>3. Joined("ALICE") /\ shape.malicious /\ InTrees("ALICE")
    BY <1>1, <1>2 DEF Joined, PartyInv, InTrees
<1>4. /\ rec \in PartyRec /\ rec.tree = old.tree /\ rec.step = old.step /\ rec.vw = old.vw
      /\ rec.run = old.run /\ rec.queued = old.queued /\ rec.pc = "seed"
    BY <1>1 DEF PartyRec, Pc
<1> HIDE DEF rec
<1>5. /\ shape' = shape /\ me'["ALICE"] = rec /\ me' \in [Party -> PartyRec]
      /\ me'["BOB"] = me["BOB"]
    BY <1>1, <1>2, <1>4, Becomes
<1>6. /\ PartyInv("ALICE")'
      /\ \A c \in Thread : c # 0 => Cursor("ALICE", c)' = Cursor("ALICE", c)
      /\ Cursor("ALICE", 0)' = <<old.run, End(0), 1>>
    BY <1>1, <1>2, <1>3, <1>4, LaterFacts
<1>7. Cursor("ALICE", 0) = <<old.run, End(0), 0>>
    BY <1>2, CursorIf
<1>8. back = <<old.run>> /\ me["BOB"].pc = "compare" /\ Asked = old.run
    <2>1. back = <<me["BOB"].run>> /\ me["BOB"].pc = "compare" /\ Asked = Answered + 1
        BY <1>2, <1>3 DEF CheckInv
    <2> QED BY <1>1, <1>2, <2>1 DEF Asked, Answered
<1>9. old.vw = Tree
    BY <1>1, <1>3, AllDone DEF PartyInv
<1>10. m \in Message /\ Flush(0, <<m>>)
    <2>1. m \in Message
        BY <1>1, MessageFacts
    <2>2. Head(back) = old.run
        BY <1>8
    <2> QED BY <1>2, <1>9, <2>1, <2>2
<1> HIDE DEF m
<1>11. /\ sent' \in [Thread -> Seq(Message)] /\ wire' \in [Thread -> Seq(Message)]
       /\ \A d \in Thread : wire'[d] \o sent'[d] = IF d = 0 THEN Append(wire[d] \o sent[d], m)
                                                            ELSE wire[d] \o sent[d]
    BY <1>1, <1>10, Written
<1>12. back' = <<>>
    BY <1>2, <1>8
<1>13. TypeInv'
    <2>1. back' \in Seq(Nat)
        BY <1>12
    <2> QED BY <1>2, <1>5, <1>11, <2>1, TypeKeeps DEF TypeInv
<1>14. \A q \in Party : PartyInv(q)'
    BY <1>1, <1>5, <1>6, OtherParty, Typing
<1>15. BobInv'
    BY <1>2, <1>5, BobKeeps
<1>16. CheckInv'
    <2>1. Answered' = old.run /\ Asked' = Asked
        BY <1>4, <1>5 DEF Answered, Asked
    <2> QED BY <1>3, <1>4, <1>5, <1>8, <1>12, <2>1 DEF CheckInv
<1>17. ChanInv'
    <2>1. m = MsgAt(0, Cursor("ALICE", 0))
        BY <1>1, <1>7 DEF MsgAt, m
    <2>2. Cursor("ALICE", 0)' = NextPlace(0, Cursor("ALICE", 0))
        BY <1>1, <1>6, <1>7 DEF NextPlace
    <2> QED BY <1>1, <1>5, <1>6, <1>10, <1>11, <2>1, <2>2, WriteKeeps
<1> QED BY <1>13, <1>14, <1>15, <1>16, <1>17

\* ALICE sends the seed of the matrix and ends the extension.
LEMMA SendSeedStep ==
    ASSUME ExtInv, SendSeed
    PROVE  ExtInv'
<1> USE DEF ExtInv, A, B
<1> DEFINE old == me["ALICE"]
           m == SeedMsg(old.run)
           rec == [me["ALICE"] EXCEPT !.pc = "idle", !.seed = m]
<1>1. /\ "ALICE" \in Party /\ "BOB" \in Party /\ shape \in Shapes /\ PartyInv("ALICE")
      /\ old \in PartyRec /\ old.run \in Nat /\ me["BOB"].run \in Nat
      /\ 0 \in Thread /\ End(0) \in Nat
    BY Typing, ShapeFacts, Shares DEF TypeInv, Party
<1>2. /\ old.pc = "seed" /\ back' = back /\ Become("ALICE", rec) /\ Flush(0, <<m>>)
      /\ bob' = bob
    BY DEF SendSeed
<1>3. Joined("ALICE")
    BY <1>2 DEF Joined
<1>4. m \in Message
    BY <1>1, MessageFacts
<1> HIDE DEF m
<1>5. /\ rec \in PartyRec /\ rec.tree = old.tree /\ rec.step = old.step /\ rec.vw = old.vw
      /\ rec.run = old.run /\ rec.queued = old.queued /\ rec.pc = "idle"
    BY <1>1, <1>4 DEF PartyRec, Pc
<1> HIDE DEF rec
<1>6. /\ shape' = shape /\ me'["ALICE"] = rec /\ me' \in [Party -> PartyRec]
      /\ me'["BOB"] = me["BOB"]
    BY <1>1, <1>2, <1>5, Becomes
<1>7. /\ PartyInv("ALICE")'
      /\ \A c \in Thread : c # 0 => Cursor("ALICE", c)' = Cursor("ALICE", c)
      /\ Cursor("ALICE", 0)' = FirstPlace(old.run + 1, 0)
    BY <1>1, <1>2, <1>3, <1>5, LaterFacts
<1>8. Cursor("ALICE", 0) = <<old.run, End(0), 1>>
    BY <1>2, CursorIf
<1>9. /\ sent' \in [Thread -> Seq(Message)] /\ wire' \in [Thread -> Seq(Message)]
      /\ \A d \in Thread : wire'[d] \o sent'[d] = IF d = 0 THEN Append(wire[d] \o sent[d], m)
                                                           ELSE wire[d] \o sent[d]
    BY <1>1, <1>2, <1>4, Written
<1>10. TypeInv'
    BY <1>2, <1>6, <1>9, TypeKeeps DEF TypeInv
<1>11. \A q \in Party : PartyInv(q)'
    BY <1>1, <1>6, <1>7, OtherParty, Typing
<1>12. BobInv'
    BY <1>2, <1>6, BobKeeps
<1>13. CheckInv'
    BY <1>2, <1>5, <1>6, CheckKeeps DEF Answered, Asked
<1>14. ChanInv'
    <2>1. m = MsgAt(0, Cursor("ALICE", 0))
        BY <1>1, <1>8 DEF MsgAt, m
    <2>2. Cursor("ALICE", 0)' = NextPlace(0, Cursor("ALICE", 0))
        BY <1>1, <1>7, <1>8 DEF NextPlace
    <2> QED BY <1>1, <1>4, <1>6, <1>7, <1>9, <2>1, <2>2, WriteKeeps
<1> QED BY <1>10, <1>11, <1>12, <1>13, <1>14

\* When a message of the check is there, ALICE has answered it.
LEMMA DigestAnswered ==
    ASSUME ExtInv, me["BOB"].pc = "compare", shape.malicious,
           Before(<<me["BOB"].run, End(0), 0>>, Cursor("ALICE", 0))
    PROVE  back = <<>>
<1> USE DEF ExtInv, A, B
<1> DEFINE r == me["BOB"].run
           a == me["ALICE"].run
           pc == me["ALICE"].pc
           x == Cursor("ALICE", 0)
<1>1. /\ "ALICE" \in Party /\ "BOB" \in Party /\ shape \in Shapes
      /\ r \in Nat /\ a \in Nat /\ pc \in Pc /\ pc # "compare"
      /\ 0 \in Thread /\ End(0) \in Nat /\ First(0) \in Nat
      /\ \A t \in Thread : me["ALICE"].tree[t] \in Nat
    BY Typing, ShapeFacts, Shares DEF TypeInv, Party, CheckInv
<1>2. SUFFICES ASSUME back # <<>> PROVE FALSE
    OBVIOUS
<1>3. r = Answered + 1
    BY <1>2 DEF CheckInv, Asked
<1>4. CASE pc = "seed"
    <2>1. x = <<a, End(0), 1>> /\ a + 1 = r
        BY <1>3, <1>4, CursorIf DEF Answered
    <2> QED BY <1>1, <2>1 DEF Before
<1>5. CASE pc # "seed"
    <2>1. /\ pc = "idle" => r = a + 1
          /\ pc # "idle" => r = a
        BY <1>1, <1>3, <1>5 DEF Answered
    <2>2. \/ x = FirstPlace(r, 0)
          \/ x = <<r, End(0), 0>>
          \/ x = PlaceOf(r, 0, me["ALICE"].tree[0], me["ALICE"].step[0])
        BY <1>1, <1>5, <2>1, CursorIf DEF Pc
    <2>3. \/ x = <<r, End(0), 0>>
          \/ \E i \in Nat : x[1] = r /\ x[2] = i /\ i < End(0)
        BY <1>1, <2>2 DEF FirstPlace, PlaceOf
    <2> HIDE DEF x
    <2>4. Before(<<r, End(0), 0>>, x)
        BY DEF x
    <2> QED BY <1>1, <2>3, <2>4 DEF Before
<1> QED BY <1>4, <1>5

\* BOB finds the digests equal.
LEMMA CompareDigestStep ==
    ASSUME ExtInv, CompareDigest
    PROVE  ExtInv'
<1> USE DEF ExtInv, A, B
<1> DEFINE old == me["BOB"]
           rec == [me["BOB"] EXCEPT !.pc = "seed"]
<1>1. /\ "ALICE" \in Party /\ "BOB" \in Party /\ shape \in Shapes /\ PartyInv("BOB")
      /\ old \in PartyRec /\ old.run \in Nat /\ me["ALICE"].run \in Nat
      /\ 0 \in Thread /\ End(0) \in Nat /\ bob \in BobRec
    BY Typing, ShapeFacts, Shares DEF TypeInv, Party
<1>2. /\ old.pc = "compare" /\ wire[0] # <<>> /\ Become("BOB", rec) /\ Take(0)
      /\ bob' = [bob EXCEPT !.alarm = @ \/ bob.good # Tree \/ old.vw # Tree
                                        \/ Head(wire[0]) # Digest(old.run, Tree)]
    BY DEF CompareDigest
<1>3. Joined("BOB") /\ shape.malicious /\ InTrees("BOB")
    BY <1>1, <1>2 DEF Joined, PartyInv, InTrees
<1>4. /\ rec \in PartyRec /\ rec.tree = old.tree /\ rec.step = old.step /\ rec.vw = old.vw
      /\ rec.run = old.run /\ rec.queued = old.queued /\ rec.pc = "seed"
    BY <1>1 DEF PartyRec, Pc
<1> HIDE DEF rec
<1>5. /\ shape' = shape /\ me'["BOB"] = rec /\ me' \in [Party -> PartyRec]
      /\ me'["ALICE"] = me["ALICE"]
    BY <1>1, <1>2, <1>4, Becomes
<1>6. /\ PartyInv("BOB")'
      /\ \A c \in Thread : c # 0 => Cursor("BOB", c)' = Cursor("BOB", c)
      /\ Cursor("BOB", 0)' = <<old.run, End(0), 1>>
    BY <1>1, <1>2, <1>3, <1>4, LaterFacts
<1>7. Cursor("BOB", 0) = <<old.run, End(0), 0>>
    BY <1>2, CursorIf
<1>8. Cursor("BOB", 0)' = NextPlace(0, Cursor("BOB", 0))
    BY <1>1, <1>6, <1>7 DEF NextPlace
<1>9. /\ ChanInv'
      /\ Head(wire[0]) = MsgAt(0, Cursor("BOB", 0))
      /\ Before(Cursor("BOB", 0), Cursor("ALICE", 0))
    BY <1>1, <1>2, <1>5, <1>6, <1>8, ReadKeeps
<1>10. Head(wire[0]) = Digest(old.run, Tree)
    BY <1>1, <1>7, <1>9 DEF MsgAt
<1>11. bob.good = Tree /\ old.vw = Tree
    <2>1. {i \in Tree : Done("BOB", i)} = Tree
        BY <1>1, <1>3, AllDone
    <2>2. old.vw = Tree
        BY <1>1, <1>3, <2>1 DEF PartyInv
    <2> QED BY <1>3, <2>1, <2>2 DEF BobInv
<1>12. bob' = bob
    <2>1. bob.alarm = FALSE
        BY <1>1 DEF BobInv, BobRec
    <2>2. bob' = [bob EXCEPT !.alarm = FALSE]
        BY <1>2, <1>10, <1>11, <2>1
    <2> QED BY <1>1, <2>1, <2>2 DEF BobRec
<1>13. /\ sent' \in [Thread -> Seq(Message)] /\ wire' \in [Thread -> Seq(Message)]
       /\ back' = back
    BY <1>1, <1>2, TakenFrom
<1>14. TypeInv'
    BY <1>1, <1>5, <1>12, <1>13, TypeKeeps DEF TypeInv
<1>15. \A q \in Party : PartyInv(q)'
    BY <1>1, <1>5, <1>6, OtherParty, Typing
<1>16. BobInv'
    <2>1. me'["BOB"].tree = old.tree /\ me'["BOB"].step = old.step
        BY <1>4, <1>5
    <2> QED BY <1>3, <1>4, <1>5, <1>12, <2>1, Rigid DEF BobInv, Done, Begun, Key
<1>17. CheckInv'
    <2>1. back = <<>>
        BY <1>2, <1>3, <1>7, <1>9, DigestAnswered
    <2>2. Asked = Answered
        BY <1>3, <2>1 DEF CheckInv
    <2>3. Answered' = Answered /\ A'.pc # "compare" /\ Asked' = Asked
        BY <1>2, <1>4, <1>5 DEF Answered, Asked, CheckInv
    <2> QED BY <1>3, <1>5, <1>13, <2>1, <2>2, <2>3 DEF CheckInv
<1> QED BY <1>9, <1>14, <1>15, <1>16, <1>17

\* BOB has the matrix of this extension and ends it.
LEMMA RecvSeedStep ==
    ASSUME ExtInv, RecvSeed
    PROVE  ExtInv'
<1> USE DEF ExtInv, A, B
<1> DEFINE old == me["BOB"]
           m == Head(wire[0])
           rec == [me["BOB"] EXCEPT !.pc = "idle", !.seed = m]
<1>1. /\ "ALICE" \in Party /\ "BOB" \in Party /\ shape \in Shapes /\ PartyInv("BOB")
      /\ old \in PartyRec /\ old.run \in Nat /\ me["ALICE"].run \in Nat
      /\ 0 \in Thread /\ End(0) \in Nat /\ bob \in BobRec
    BY Typing, ShapeFacts, Shares DEF TypeInv, Party
<1>2. /\ old.pc = "seed" /\ wire[0] # <<>> /\ Become("BOB", rec) /\ Take(0) /\ bob' = bob
    BY DEF RecvSeed, Seed
<1>3. Joined("BOB")
    BY <1>2 DEF Joined
<1>4. /\ sent' \in [Thread -> Seq(Message)] /\ wire' \in [Thread -> Seq(Message)]
      /\ back' = back /\ m \in Message
    BY <1>1, <1>2, TakenFrom
<1> HIDE DEF m
<1>5. /\ rec \in PartyRec /\ rec.tree = old.tree /\ rec.step = old.step /\ rec.vw = old.vw
      /\ rec.run = old.run /\ rec.queued = old.queued /\ rec.pc = "idle" /\ rec.seed = m
    BY <1>1, <1>4 DEF PartyRec, Pc
<1> HIDE DEF rec
<1>6. /\ shape' = shape /\ me'["BOB"] = rec /\ me' \in [Party -> PartyRec]
      /\ me'["ALICE"] = me["ALICE"]
    BY <1>1, <1>2, <1>5, Becomes
<1>7. /\ PartyInv("BOB")'
      /\ \A c \in Thread : c # 0 => Cursor("BOB", c)' = Cursor("BOB", c)
      /\ Cursor("BOB", 0)' = FirstPlace(old.run + 1, 0)
    BY <1>1, <1>2, <1>3, <1>5, LaterFacts
<1>8. Cursor("BOB", 0) = <<old.run, End(0), 1>>
    BY <1>2, CursorIf
<1>9. Cursor("BOB", 0)' = NextPlace(0, Cursor("BOB", 0))
    BY <1>1, <1>7, <1>8 DEF NextPlace
<1>10. ChanInv' /\ m = MsgAt(0, Cursor("BOB", 0))
    BY <1>1, <1>2, <1>6, <1>7, <1>9, ReadKeeps DEF m
<1>11. m = SeedMsg(old.run)
    BY <1>1, <1>8, <1>10 DEF MsgAt
<1>12. TypeInv'
    BY <1>1, <1>2, <1>4, <1>6, TypeKeeps DEF TypeInv
<1>13. \A q \in Party : PartyInv(q)'
    BY <1>1, <1>6, <1>7, OtherParty, Typing
<1>14. BobInv'
    BY <1>2, <1>5, <1>6, <1>11 DEF BobInv, InTrees, SeedMsg, Msg
<1>15. CheckInv'
    <2>1. Answered' = Answered /\ Asked' = Asked /\ A'.pc # "compare"
        BY <1>2, <1>5, <1>6 DEF Answered, Asked, CheckInv
    <2> QED BY <1>2, <1>4, <1>6, <2>1, CheckKeeps
<1> QED BY <1>10, <1>12, <1>13, <1>14, <1>15

(*------------------------------- the theorems ---------------------------*)
\* At the start all channels are empty and both parties at the first place.
LEMMA InitInv == Init => ExtInv
<1> SUFFICES ASSUME Init PROVE ExtInv
    OBVIOUS
<1> USE DEF A, B
<1> DEFINE tree == [t \in Thread |-> First(t)]
           step == [t \in Thread |-> 0]
           rec == [pc |-> "idle", run |-> 0, queued |-> 0, tree |-> tree, step |-> step,
                   vw |-> {}, seed |-> SeedMsg(0)]
<1>1. /\ shape \in Shapes /\ me = [p \in Party |-> rec]
      /\ bob = [bits |-> {}, count |-> 0, b |-> [i \in Tree |-> {}], good |-> {}, alarm |-> FALSE]
      /\ sent = [t \in Thread |-> <<>>] /\ wire = [t \in Thread |-> <<>>] /\ back = <<>>
    BY DEF Init
<1>2. /\ \A t \in Thread : First(t) \in Nat /\ End(t) \in Nat /\ First(t) <= End(t)
      /\ Main \in Nat /\ shape.height \in Nat \ {0} /\ MaxRuns \in Nat
    BY <1>1, Shares, ShapeFacts, ExtendAssumption
<1>3. /\ tree \in [Thread -> Nat] /\ step \in [Thread -> Nat] /\ SeedMsg(0) \in Message
      /\ \A t \in Thread : tree[t] = First(t) /\ step[t] = 0
    BY <1>1, <1>2, MessageFacts
<1> HIDE DEF tree, step
<1>4. /\ rec \in PartyRec /\ rec.pc = "idle" /\ rec.run = 0 /\ rec.queued = 0
      /\ rec.tree = tree /\ rec.step = step /\ rec.seed = SeedMsg(0)
    BY <1>3 DEF PartyRec, Pc
<1> HIDE DEF rec
<1>5. me \in [Party -> PartyRec] /\ \A p \in Party : me[p] = rec
    BY <1>1, <1>4
<1>6. "ALICE" \in Party /\ "BOB" \in Party
    BY DEF Party
<1>7. bob \in BobRec /\ ~bob.alarm
    BY <1>1 DEF BobRec
<1>8. TypeInv
    BY <1>1, <1>5, <1>7 DEF TypeInv
<1>9. \A p \in Party : PartyInv(p)
    BY <1>2, <1>3, <1>4, <1>5 DEF PartyInv, InTrees, Joined
<1>10. BobInv
    BY <1>4, <1>5, <1>6, <1>7 DEF BobInv, InTrees
<1>11. CheckInv
    BY <1>1, <1>4, <1>5, <1>6 DEF CheckInv, Asked, Answered
<1>12. ChanInv
    <2> SUFFICES ASSUME NEW c \in Thread
                 PROVE  Linked(c, Cursor("BOB", c), Cursor("ALICE", c), wire[c] \o sent[c])
        BY DEF ChanInv
    <2>1. PICK x \in Place : x = Cursor("BOB", c)
        BY <1>6, <1>8, CursorPlace
    <2>2. Cursor("ALICE", c) = x
        BY <1>5, <1>6, <2>1, CursorIf
    <2>3. wire[c] \o sent[c] = <<>>
        BY <1>1
    <2> QED BY <2>1, <2>2, <2>3, LinkEmpty
<1> QED BY <1>8, <1>9, <1>10, <1>11, <1>12 DEF ExtInv

\* A step in which nothing changes
LEMMA StutterStep ==
    ASSUME ExtInv, UNCHANGED vars
    PROVE  ExtInv'
<1> USE DEF ExtInv, A, B
<1>1. /\ shape' = shape /\ me' = me /\ bob' = bob /\ sent' = sent /\ wire' = wire
      /\ back' = back
    BY DEF vars
<1>2. TypeInv'
    BY <1>1, TypeKeeps DEF TypeInv
<1>3. \A q \in Party : PartyInv(q)'
    BY <1>1, OtherParty
<1>4. BobInv'
    BY <1>1, BobKeeps
<1>5. CheckInv'
    BY <1>1, CheckKeeps DEF Answered, Asked, CheckInv
<1>6. ChanInv'
    BY <1>1, OtherCursor, SilentKeeps
<1> QED BY <1>2, <1>3, <1>4, <1>5, <1>6

(* The strengthened invariant holds in every state that two honest parties can
   reach, however their threads are interleaved. *)
THEOREM Invariance == Spec => []ExtInv
<1>1. Init => ExtInv
    BY InitInv
<1>2. ExtInv /\ [Next]_vars => ExtInv'
    <2> SUFFICES ASSUME ExtInv, [Next]_vars PROVE ExtInv'
        OBVIOUS
    <2>1. ASSUME NEW p \in Party, Begin(p) PROVE ExtInv'
        BY <2>1, OwnStep
    <2>2. ASSUME NEW p \in Party, Own(p) PROVE ExtInv'
        BY <2>2, OwnStep, InitTreesStep, SendDigestStep, SendSeedStep, SendXPrimeStep,
           CompareDigestStep, RecvSeedStep DEF Own
    <2>3. ASSUME NEW p \in Party, NEW t \in Thread, Work(p, t) PROVE ExtInv'
        BY <2>3, SendStep, RecvStep DEF Work
    <2>4. CASE UNCHANGED vars
        BY <2>4, StutterStep
    <2> QED BY <2>1, <2>2, <2>3, <2>4 DEF Next
<1> QED BY <1>1, <1>2, PTL DEF Spec

(* The shares and counters of both parties keep to their ranges. *)
THEOREM TypeCorrect == Spec => []TypeOK
<1>1. ExtInv => TypeOK
    <2> SUFFICES ASSUME ExtInv PROVE TypeOK
        OBVIOUS
    <2>1. TypeInv /\ shape \in Shapes /\ bob \in BobRec
        BY DEF ExtInv, TypeInv
    <2>2. MaxRuns \in Nat /\ Main \in Nat /\ shape.height \in Nat
        BY <2>1, ShapeFacts, ExtendAssumption
    <2>3. ASSUME NEW p \in Party
          PROVE  /\ me[p].pc \in Pc /\ me[p].run \in 0..MaxRuns /\ me[p].queued \in 0..Main
                 /\ \A t \in Thread : /\ me[p].tree[t] \in First(t)..End(t)
                                      /\ me[p].step[t] \in 0..shape.height
                 /\ me[p].vw \subseteq Tree
        <3>1. PartyInv(p) /\ me[p].pc \in Pc /\ me[p].run \in Nat /\ me[p].queued \in Nat
            BY <2>1, Typing DEF ExtInv
        <3>2. \A t \in Thread : /\ me[p].tree[t] \in Nat /\ me[p].step[t] \in Nat
                                /\ First(t) \in Nat /\ End(t) \in Nat
            BY <2>1, Typing, Shares
        <3>3. me[p].vw \subseteq Tree
            BY <2>1, Typing
        <3> QED BY <2>2, <3>1, <3>2, <3>3 DEF PartyInv
    <2>4. bob.b \in [Tree -> SUBSET Level] /\ bob.good \subseteq Tree
        BY <2>1 DEF BobRec
    <2> QED BY <2>1, <2>3, <2>4 DEF TypeOK, Pc
<1> QED BY <1>1, Invariance, PTL

(* No two threads of a party are ever on the same channel: a thread keeps to
   its own, and the main thread takes channel 0 for the check and the seed only
   when the thread that owns it has done its share. *)
THEOREM OwnChannels == Spec => []NoSharedChannel
<1>1. ExtInv => NoSharedChannel
    <2> SUFFICES ASSUME ExtInv, NEW p \in Party, NEW t \in Thread, NEW u \in Thread,
                        NEW c \in Thread, Uses(p, t, c), Uses(p, u, c)
                 PROVE  t = u
        BY DEF NoSharedChannel
    <2>1. PartyInv(p) /\ TypeInv
        BY DEF ExtInv
    <2>2. \A v \in Thread : ~(Active(p, v) /\ Joined(p))
        BY <2>1, ActiveFacts DEF Joined
    <2> QED BY <2>2 DEF Uses, Io
<1> QED BY <1>1, Invariance, PTL

(* When BOB goes on after the join he has rebuilt every tree of the extension
   from the messages of that tree, in order, under the OTs of its bits. *)
THEOREM TreesRebuilt == Spec => []TreesGood
<1>1. ExtInv => TreesGood
    <2> SUFFICES ASSUME ExtInv, Joined("BOB") PROVE bob.good = Tree
        BY DEF TreesGood
    <2>1. "BOB" \in Party /\ TypeInv /\ PartyInv("BOB") /\ InTrees("BOB")
        BY DEF ExtInv, Party, Joined, InTrees
    <2>2. {i \in Tree : Done("BOB", i)} = Tree
        BY <2>1, AllDone
    <2> QED BY <2>1, <2>2 DEF ExtInv, BobInv
<1> QED BY <1>1, Invariance, PTL

\* The consistency check of two honest parties never fails.
THEOREM CheckSucceeds == Spec => []NoFalseAlarm
<1>1. ExtInv => NoFalseAlarm
    BY DEF ExtInv, BobInv, NoFalseAlarm
<1> QED BY <1>1, Invariance, PTL

(* Between extensions BOB has the seed of the matrix that ALICE drew for the
   extension which has just ended. *)
THEOREM SameSeed == Spec => []SameMatrix
<1>1. ExtInv => SameMatrix
    BY DEF ExtInv, BobInv, SameMatrix
<1> QED BY <1>1, Invariance, PTL
=============================================================================
