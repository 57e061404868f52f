----------------------------- MODULE LpnF2Proofs -----------------------------
(***************************************************************************)
(* Proofs about LpnF2, for any number of rows and threads and any length.  *)
(***************************************************************************)
EXTENDS LpnF2, TLAPS

(*------------------------------ the stretches ---------------------------*)
\* Multiplication by a natural number keeps the order of natural numbers.
LEMMA TimesMono ==
    ASSUME NEW a \in Nat, NEW b \in Nat, NEW w \in Nat, a < b
    PROVE  a * w \in Nat /\ b * w \in Nat /\ a * w + w <= b * w
<1> DEFINE d == b - a - 1
<1>1. d \in Nat /\ b = a + 1 + d
    OBVIOUS
<1>2. a * w \in Nat /\ d * w \in Nat /\ b * w \in Nat
    BY <1>1
<1>3. b * w = a * w + w + d * w
    <2> HIDE DEF d
    <2>1. (a + 1 + d) * w = a * w + w + d * w
        BY <1>1
    <2> QED BY <1>1, <2>1
<1> HIDE DEF d
<1> QED BY <1>2, <1>3

\* What the widths of the stretches add up to
LEMMA WidthFacts ==
    ASSUME NEW a \in Nat, NEW d \in Nat \ {0}
    PROVE  /\ a \div d \in Nat
           /\ d * (a \div d) <= a
           /\ a < d * (a \div d) + d
OBVIOUS

(* The sizes of an object are fixed by its constructor. *)
SizeOK == n \in Nat /\ threads \in Nat \ {0} /\ k \in Lengths

(* The stretches lie between 0 and n, none overlaps another, and every row is
   in one of them, also with more threads than rows. *)
LEMMA Stretches ==
    ASSUME SizeOK
    PROVE  /\ Width \in Nat
           /\ \A t \in Thread : /\ Start(t) \in Nat /\ End(t) \in Nat
                                /\ Start(t) <= End(t) /\ End(t) <= n
           /\ \A t, u \in Thread : t < u => End(t) <= Start(u)
           /\ \A j \in Row : \E t \in Thread : Start(t) <= j /\ j < End(t)
<1> DEFINE w == Width
           last == threads - 1
<1>1. n \in Nat /\ threads \in Nat \ {0} /\ last \in Nat /\ threads = last + 1
    BY DEF SizeOK
<1>2. w \in Nat /\ threads * w <= n
    BY <1>1, WidthFacts DEF Width
<1>3. \A t \in Thread : t \in Nat /\ t <= last
    BY <1>1 DEF Thread
<1>4. /\ \A t : Start(t) = t * w
      /\ \A t \in Thread : End(t) = IF t = last THEN n ELSE (t + 1) * w
    BY DEF Start, End
<1> HIDE DEF w, last
<1>5. last * w \in Nat /\ last * w + w = threads * w
    <2>1. (last + 1) * w = last * w + w /\ last * w \in Nat
        BY <1>1, <1>2
    <2> QED BY <1>1, <2>1
<1>6. ASSUME NEW t \in Thread
      PROVE  /\ Start(t) \in Nat /\ End(t) \in Nat
             /\ Start(t) <= End(t) /\ End(t) <= n
    <2>1. CASE t = last
        BY <1>1, <1>2, <1>4, <1>5, <2>1
    <2>2. CASE t # last
        <3>1. t \in Nat /\ t < last /\ t + 1 \in Nat /\ t + 1 <= last
            BY <1>1, <1>3, <2>2
        <3>2. t * w \in Nat /\ t * w + w <= last * w
            BY <1>1, <1>2, <3>1, TimesMono
        <3>3. (t + 1) * w = t * w + w
            BY <1>2, <3>1
        <3> QED BY <1>1, <1>2, <1>4, <1>5, <2>2, <3>2, <3>3
    <2> QED BY <2>1, <2>2
<1>7. ASSUME NEW t \in Thread, NEW u \in Thread, t < u
      PROVE  End(t) <= Start(u)
    <2>1. t \in Nat /\ u \in Nat /\ t # last
        BY <1>1, <1>3, <1>7
    <2>2. (t + 1) * w = t * w + w
        BY <1>2, <2>1
    <2>3. t * w + w <= u * w
        BY <1>2, <1>7, <2>1, TimesMono
    <2> QED BY <1>4, <2>1, <2>2, <2>3
<1>8. ASSUME NEW j \in Row
      PROVE  \E t \in Thread : Start(t) <= j /\ j < End(t)
    <2>1. j \in Nat /\ j < n
        BY <1>1 DEF Row
    <2>2. CASE j >= last * w
        <3>1. last \in Thread /\ Start(last) <= j /\ j < End(last)
            BY <1>1, <1>4, <2>1, <2>2 DEF Thread, last
        <3> QED BY <3>1
    <2>3. CASE j < last * w
        <3>1. w # 0
            BY <1>1, <2>1, <2>3
        <3> DEFINE t == j \div w
        <3>2. t \in Nat /\ w * t <= j /\ j < w * t + w
            BY <1>2, <2>1, <3>1, WidthFacts
        <3> HIDE DEF t
        <3>3. w * t = t * w /\ (t + 1) * w = t * w + w
            BY <1>2, <3>2
        <3>4. t < last
            <4>1. SUFFICES ASSUME last <= t PROVE FALSE
                BY <1>1, <3>2
            <4>2. CASE last = t
                BY <1>2, <1>5, <2>1, <2>3, <3>2, <3>3, <4>2
            <4>3. CASE last < t
                <5>1. last * w + w <= t * w
                    BY <1>1, <1>2, <3>2, <4>3, TimesMono
                <5> QED BY <1>2, <1>5, <2>1, <2>3, <3>2, <3>3, <5>1
            <4> QED BY <1>1, <3>2, <4>1, <4>2, <4>3
        <3>5. t \in Thread /\ t # last
            BY <1>1, <3>2, <3>4 DEF Thread, last
        <3> QED BY <1>4, <3>2, <3>3, <3>5
    <2> QED BY <1>1, <1>5, <2>1, <2>2, <2>3
<1> QED BY <1>2, <1>6, <1>7, <1>8 DEF w

(*--------------------------- the inductive invariant --------------------*)
(* What a thread has computed is the part of its stretch before pos, by one
   function a row; rows that no thread has come to are untouched; compute
   returns when every stretch is done.  The mask is less than twice k, however
   often the constructor has doubled it. *)
IndInv ==
    /\ SizeOK
    /\ TypeOK
    /\ 0 < mask /\ mask < 2 * k
    /\ \A t \in Thread : Start(t) <= pos[t] /\ pos[t] <= End(t)
    /\ \A t \in Thread : \A j \in Computed(t) : \E f \in how[j] : how[j] = {f}
    /\ \A j \in Row : (\A t \in Thread : j \notin Computed(t)) => how[j] = {}
    /\ returned => \A t \in Thread : pos[t] >= End(t)

\* The invariant holds before any row is computed.
LEMMA InitInv == Init => IndInv
<1> SUFFICES ASSUME Init PROVE IndInv
    OBVIOUS
<1>1. SizeOK /\ k \in Nat \ {0} /\ mask = 1
    BY LpnAssumption, WordAssumption DEF Init, SizeOK
<1>2. \A t \in Thread : Start(t) \in Nat /\ pos[t] = Start(t) /\ Start(t) <= End(t)
    BY <1>1, Stretches DEF Init
<1>3. \A t \in Thread : Computed(t) = {}
    BY <1>1, <1>2 DEF Computed, Row, SizeOK
<1>4. TypeOK
    <2>0. returned = FALSE /\ queued = 0 /\ threads \in Nat \ {0}
        BY <1>1 DEF Init, SizeOK
    <2>1. queued \in 0..(threads - 1)
        BY <2>0
    <2>2. pos \in [Thread -> Nat]
        BY <1>2 DEF Init
    <2>3. how \in [Row -> SUBSET Functions]
        BY DEF Init
    <2> QED BY <1>1, <2>0, <2>1, <2>2, <2>3 DEF TypeOK, SizeOK
<1>5. \A t \in Thread : Start(t) <= pos[t] /\ pos[t] <= End(t)
    BY <1>2
<1>6. 0 < mask /\ mask < 2 * k
    BY <1>1
<1> QED BY <1>1, <1>3, <1>4, <1>5, <1>6 DEF Init, IndInv

(* Stretches do not move, and neither does what depends on them only. *)
LEMMA Rigid ==
    ASSUME UNCHANGED <<n, k, threads>>
    PROVE  /\ Thread' = Thread /\ Row' = Row /\ Width' = Width
           /\ \A t : Start(t)' = Start(t) /\ End(t)' = End(t)
           /\ SizeOK' = SizeOK
BY DEF Thread, Row, Width, Start, End, SizeOK

(* A thread that applies one function to the next rows of its stretch, all of
   them in the stretch, preserves the invariant. *)
LEMMA WorkStep ==
    ASSUME IndInv, NEW t \in Thread, NEW len \in Nat \ {0}, NEW f \in Functions,
           pos[t] + len <= End(t),
           how' = Apply(pos[t]..(pos[t] + len - 1), f),
           pos' = [pos EXCEPT ![t] = @ + len],
           UNCHANGED <<sizes, queued, returned>>
    PROVE  IndInv'
<1> USE Rigid DEF sizes
<1> DEFINE new == pos[t]..(pos[t] + len - 1)
<1>1. SizeOK /\ TypeOK /\ n \in Nat
    BY DEF IndInv, SizeOK
<1>2. /\ pos[t] \in Nat /\ Start(t) \in Nat /\ Start(t) <= pos[t]
      /\ End(t) \in Nat /\ End(t) <= n
      /\ \A u \in Thread : pos[u] \in Nat /\ Start(u) \in Nat /\ End(u) \in Nat
    BY <1>1, Stretches DEF IndInv, TypeOK
<1>3. pos'[t] = pos[t] + len /\ \A u \in Thread : u # t => pos'[u] = pos[u]
    BY <1>1 DEF TypeOK
<1>4. /\ \A j \in new : j \in Row
      /\ \A j \in Row : how'[j] = IF j \in new THEN how[j] \cup {f} ELSE how[j]
    <2>1. \A j \in new : j \in Row
        BY <1>1, <1>2 DEF Row
    <2>2. \A j \in Row : how'[j] = IF j \in new THEN how[j] \cup {f} ELSE how[j]
        BY DEF Apply
    <2> QED BY <2>1, <2>2
<1>5. \A u \in Thread : \A j \in new : j \notin Computed(u)
    <2> SUFFICES ASSUME NEW u \in Thread, NEW j \in new, j \in Computed(u)
                 PROVE  FALSE
        OBVIOUS
    <2>1. /\ Start(u) <= j /\ j < pos[u] /\ pos[u] <= End(u)
          /\ pos[t] <= j /\ j < pos[t] + len /\ j \in Int
        BY <1>2 DEF Computed, IndInv
    <2>2. u # t
        BY <1>2, <2>1
    <2>3. t \in Int /\ u \in Int /\ (t < u \/ u < t)
        BY <1>1, <2>2 DEF Thread, SizeOK
    <2>4. CASE t < u
        <3>1. End(t) <= Start(u)
            BY <1>1, <2>4, Stretches
        <3> QED BY <1>2, <2>1, <3>1
    <2>5. CASE u < t
        <3>1. End(u) <= Start(t)
            BY <1>1, <2>5, Stretches
        <3> QED BY <1>2, <2>1, <3>1
    <2> QED BY <2>3, <2>4, <2>5
<1>6. /\ \A u \in Thread : u # t => Computed(u)' = Computed(u)
      /\ Computed(t)' = Computed(t) \cup new
    <2>1. ASSUME NEW u \in Thread, u # t
          PROVE  Computed(u)' = Computed(u)
        BY <1>3, <2>1 DEF Computed
    <2>2. \A j \in Row : Start(t) <= j /\ j < pos[t] + len
              <=> (Start(t) <= j /\ j < pos[t]) \/ j \in new
        BY <1>2 DEF Row
    <2>3. Computed(t)' = Computed(t) \cup new
        BY <1>3, <1>4, <2>2 DEF Computed
    <2> QED BY <2>1, <2>3
<1>7. \A j \in new : how[j] = {} /\ how'[j] = {f}
    <2>1. \A j \in new : how[j] = {}
        BY <1>4, <1>5 DEF IndInv
    <2> QED BY <1>4, <2>1
<1>8. TypeOK'
    <2>1. pos' \in [Thread -> Nat]
        BY <1>1, <1>2 DEF TypeOK
    <2>2. how' \in [Row -> SUBSET Functions]
        BY <1>1 DEF TypeOK, Apply
    <2> QED BY <1>1, <2>1, <2>2 DEF TypeOK
<1>9. \A u \in Thread : Start(u) <= pos'[u] /\ pos'[u] <= End(u)
    BY <1>2, <1>3 DEF IndInv
<1>10. \A u \in Thread : \A j \in Computed(u)' : \E g \in how'[j] : how'[j] = {g}
    <2> SUFFICES ASSUME NEW u \in Thread, NEW j \in Computed(u)'
                 PROVE  \E g \in how'[j] : how'[j] = {g}
        OBVIOUS
    <2>1. CASE j \in new
        BY <1>7, <2>1
    <2>2. CASE j \notin new
        <3>1. j \in Computed(u) /\ j \in Row
            BY <1>6, <2>2 DEF Computed
        <3>2. how'[j] = how[j]
            BY <1>4, <2>2, <3>1
        <3> QED BY <3>1, <3>2 DEF IndInv
    <2> QED BY <2>1, <2>2
<1>11. \A j \in Row : (\A u \in Thread : j \notin Computed(u)') => how'[j] = {}
    <2> SUFFICES ASSUME NEW j \in Row, \A u \in Thread : j \notin Computed(u)'
                 PROVE  how'[j] = {}
        OBVIOUS
    <2>1. j \notin new /\ \A u \in Thread : j \notin Computed(u)
        BY <1>6
    <2> QED BY <1>4, <2>1 DEF IndInv
<1>12. returned' => \A u \in Thread : pos'[u] >= End(u)
    <2>1. returned' => \A u \in Thread : pos[u] >= End(u)
        BY DEF IndInv
    <2> QED BY <1>2, <1>3, <2>1
<1> QED BY <1>1, <1>8, <1>9, <1>10, <1>11, <1>12 DEF IndInv

\* Every step of the caller and of the threads preserves the invariant.
LEMMA InductiveStep == IndInv /\ [Next]_vars => IndInv'
<1> SUFFICES ASSUME IndInv, [Next]_vars PROVE IndInv'
    OBVIOUS
<1> USE Rigid DEF sizes
<1>1. /\ SizeOK /\ TypeOK /\ threads \in Nat \ {0} /\ queued \in 0..(threads - 1)
      /\ \A t \in Thread : t \in Nat /\ pos[t] \in Nat /\ End(t) \in Nat
    BY Stretches DEF IndInv, SizeOK, TypeOK, Thread
<1>2. CASE Enqueue
    <2>1. /\ UNCHANGED <<sizes, pos, how, returned>>
          /\ queued' \in 0..(threads - 1)
        BY <1>1, <1>2 DEF Enqueue
    <2> QED BY <2>1 DEF IndInv, TypeOK, Computed
<1>3. CASE Return
    <2>1. /\ UNCHANGED <<sizes, queued, pos, how>> /\ returned' = TRUE
          /\ \A t \in Thread : pos[t] >= End(t)
        BY <1>3 DEF Return
    <2> QED BY <2>1 DEF IndInv, TypeOK, Computed
<1>4. ASSUME NEW t \in Thread, Compute4(t)
      PROVE  IndInv'
    <2> DEFINE f == <<"compute4", pos[t], t>>
               len == 4
    <2>1. f \in Functions /\ len \in Nat \ {0} /\ pos[t] + len <= End(t)
        BY <1>1, <1>4 DEF Functions, Compute4
    <2>2. /\ how' = Apply(pos[t]..(pos[t] + len - 1), f)
          /\ pos' = [pos EXCEPT ![t] = @ + len]
          /\ UNCHANGED <<sizes, queued, returned>>
        <3>1. pos[t] + 3 = pos[t] + len - 1
            BY <1>1
        <3> QED BY <1>4, <3>1 DEF Compute4
    <2> HIDE DEF f, len
    <2> QED BY <2>1, <2>2, WorkStep
<1>5. ASSUME NEW t \in Thread, Compute1(t)
      PROVE  IndInv'
    <2> DEFINE f == <<"compute1", pos[t], t>>
               len == 1
    <2>1. f \in Functions /\ len \in Nat \ {0} /\ pos[t] + len <= End(t)
        BY <1>1, <1>5 DEF Functions, Compute1
    <2>2. /\ how' = Apply(pos[t]..(pos[t] + len - 1), f)
          /\ pos' = [pos EXCEPT ![t] = @ + len]
          /\ UNCHANGED <<sizes, queued, returned>>
        <3>1. {pos[t]} = pos[t]..(pos[t] + len - 1)
            BY <1>1
        <3> QED BY <1>5, <3>1 DEF Compute1
    <2> HIDE DEF f, len
    <2> QED BY <2>1, <2>2, WorkStep
<1>6. CASE Widen
    <2>1. mask < k /\ mask' = 2 * mask + 1
          /\ UNCHANGED <<n, k, threads, queued, pos, how, returned>>
        BY <1>6 DEF Widen, sizes
    <2>2. mask \in Nat /\ k \in Nat /\ mask' \in Nat
        BY <1>1, <2>1 DEF TypeOK
    <2>3. 0 < mask' /\ mask' < 2 * k
        BY <2>1, <2>2
    <2> QED BY <2>1, <2>2, <2>3 DEF IndInv, TypeOK, Computed
<1>7. CASE UNCHANGED vars
    BY <1>7 DEF vars, IndInv, TypeOK, Computed
<1> QED BY <1>2, <1>3, <1>4, <1>5, <1>6, <1>7 DEF Next, Work

(*-------------------------------- theorems ------------------------------*)
(* IndInv holds in every reachable state, for any number of rows and threads. *)
THEOREM Invariance == Spec => []IndInv
<1> QED BY InitInv, InductiveStep, PTL DEF Spec

(* No two threads ever update the same row of the output. *)
THEOREM NoRace == Spec => []NoSharedRow
<1>1. ASSUME IndInv PROVE NoSharedRow
    <2>1. \A t \in Thread : pos[t] <= End(t)
        BY <1>1 DEF IndInv
    <2>2. ASSUME NEW t \in Thread, NEW u \in Thread, t < u
          PROVE  Computed(t) \cap Computed(u) = {}
        <3> SUFFICES ASSUME NEW j \in Computed(t), j \in Computed(u) PROVE FALSE
            OBVIOUS
        <3>1. /\ j < pos[t] /\ pos[t] <= End(t) /\ Start(u) <= j
              /\ j \in Int /\ pos[t] \in Nat
            BY <1>1 DEF Computed, IndInv, TypeOK, Row
        <3>2. End(t) <= Start(u) /\ End(t) \in Nat /\ Start(u) \in Nat
            BY <1>1, <2>2, Stretches DEF IndInv
        <3> QED BY <3>1, <3>2
    <2>3. \A t, u \in Thread : t # u => t < u \/ u < t
        BY <1>1 DEF IndInv, SizeOK, Thread
    <2> QED BY <2>1, <2>2, <2>3 DEF NoSharedRow
<1> QED BY <1>1, Invariance, PTL

(* When compute returns, every row has been computed by exactly one function,
   with any number of rows and threads. *)
THEOREM Complete == Spec => []AllRowsOnce
<1>1. ASSUME IndInv PROVE AllRowsOnce
    <2> SUFFICES ASSUME returned, NEW j \in Row
                 PROVE  \E f \in how[j] : how[j] = {f}
        BY DEF AllRowsOnce
    <2>1. PICK t \in Thread : Start(t) <= j /\ j < End(t)
        BY <1>1, Stretches DEF IndInv
    <2>2. pos[t] >= End(t) /\ pos[t] \in Nat /\ End(t) \in Nat /\ j \in Int
        BY <1>1, Stretches DEF IndInv, TypeOK, Row
    <2>3. j \in Computed(t)
        BY <2>1, <2>2 DEF Computed
    <2> QED BY <1>1, <2>3 DEF IndInv
<1> QED BY <1>1, Invariance, PTL

(* Whatever the length k of kk and the width of a word, every index that a word
   of random bits gives is one of kk, and every block of kk has such a word. *)
THEOREM IndicesInRange == Spec => []IndicesExact
<1>1. ASSUME IndInv PROVE IndicesExact
    <2> SUFFICES ASSUME Constructed
                 PROVE  /\ {Index4(r) : r \in 0..(Words - 1)} = 0..(k - 1)
                        /\ {Index1(r) : r \in 0..(Words - 1)} = 0..(k - 1)
        BY DEF IndicesExact
    <2>1. /\ k \in Nat \ {0} /\ mask \in Nat /\ Words \in Nat
          /\ k <= mask /\ mask < 2 * k /\ 2 * k <= Words
        BY <1>1, WordAssumption DEF IndInv, SizeOK, TypeOK, Constructed
    <2>2. ASSUME NEW r \in 0..(Words - 1)
          PROVE  Index4(r) \in 0..(k - 1) /\ Index1(r) \in 0..(k - 1)
        <3>1. r % (mask + 1) \in 0..mask /\ r % k \in 0..(k - 1)
            BY <2>1
        <3> QED BY <2>1, <3>1 DEF Index4, Index1
    <2>3. ASSUME NEW i \in 0..(k - 1)
          PROVE  i \in 0..(Words - 1) /\ Index4(i) = i /\ Index1(i) = i
        <3>1. i % (mask + 1) = i /\ i % k = i
            BY <2>1
        <3> QED BY <2>1, <3>1 DEF Index4, Index1
    <2>4. {Index4(r) : r \in 0..(Words - 1)} = 0..(k - 1)
        BY <2>2, <2>3
    <2>5. {Index1(r) : r \in 0..(Words - 1)} = 0..(k - 1)
        BY <2>2, <2>3
    <2> QED BY <2>4, <2>5
<1> QED BY <1>1, Invariance, PTL

\* The variables have their types in every reachable state.
THEOREM TypeCorrect == Spec => []TypeOK
<1> QED BY Invariance, PTL DEF IndInv

(*-------------------------- which function a row gets -------------------*)
(* A thread has done whole groups of four rows, or all of its groups. *)
InFours(t) ==
    \/ pos[t] >= Start(t) + Fours(t)
    \/ \E m \in Nat : pos[t] = Start(t) + 4 * m /\ 4 * m < Fours(t)

CodeInv == SameCode /\ \A t \in Thread : InFours(t)

\* The four-row loop takes as many groups as leave a row behind them.
LEMMA FoursFacts ==
    ASSUME SizeOK, NEW t \in Thread
    PROVE  /\ Fours(t) \in Nat
           /\ \E q \in Nat : Fours(t) = 4 * q
           /\ Start(t) + Fours(t) >= End(t) - 4
           /\ Fours(t) > 0 => Start(t) + Fours(t) < End(t)
<1> DEFINE len == End(t) - Start(t)
           q == (len - 1) \div 4
<1>1. len \in Nat /\ Start(t) \in Nat /\ End(t) \in Nat
    BY Stretches
<1>2. CASE len <= 4
    BY <1>1, <1>2 DEF Fours
<1>3. CASE len > 4
    <2>1. Fours(t) = 4 * q
        BY <1>1, <1>3 DEF Fours
    <2>2. q \in Nat /\ 4 * q <= len - 1 /\ len - 1 < 4 * q + 4
        BY <1>1, <1>3
    <2> HIDE DEF q
    <2> QED BY <1>1, <2>1, <2>2
<1> QED BY <1>1, <1>2, <1>3

\* A row belongs to the thread in whose stretch it lies.
LEMMA OwnerFacts ==
    ASSUME SizeOK, NEW t \in Thread, NEW j \in Row, Start(t) <= j, j < End(t)
    PROVE  Owner(j) = t
<1>1. ASSUME NEW u \in Thread, Start(u) <= j, j < End(u) PROVE u = t
    <2>1. /\ u \in Int /\ t \in Int /\ j \in Int
          /\ Start(u) \in Nat /\ Start(t) \in Nat /\ End(u) \in Nat /\ End(t) \in Nat
        BY Stretches DEF Thread, Row, SizeOK
    <2>2. ~(u < t)
        BY <1>1, <2>1, Stretches
    <2>3. ~(t < u)
        BY <1>1, <2>1, Stretches
    <2> QED BY <2>1, <2>2, <2>3
<1> QED BY <1>1 DEF Owner

\* Which thread and function a row belongs to does not change.
LEMMA CodeRigid ==
    ASSUME SizeOK, UNCHANGED <<n, k, threads>>, NEW j \in Row
    PROVE  CodeOf(j)' = CodeOf(j)
<1> USE Rigid
<1>1. PICK t \in Thread : Start(t) <= j /\ j < End(t)
    BY Stretches
<1>2. Owner(j) = t
    BY <1>1, OwnerFacts
<1>3. \A u \in Thread : Start(u) <= j /\ j < End(u) => u = t
    BY <1>2, OwnerFacts
<1>4. Owner(j)' = t
    BY <1>1, <1>3 DEF Owner
<1>5. /\ CodeOf(j) = IF j - Start(t) < Fours(t)
                     THEN <<"compute4", j - ((j - Start(t)) % 4), t>>
                     ELSE <<"compute1", j, t>>
      /\ CodeOf(j)' = IF j - Start(t) < Fours(t)
                      THEN <<"compute4", j - ((j - Start(t)) % 4), t>>
                      ELSE <<"compute1", j, t>>
    BY <1>2, <1>4 DEF CodeOf, Fours
<1> QED BY <1>5

(* The rows that a thread takes next get the function that CodeOf gives them,
   and the thread stays at the beginning of a group or behind its groups. *)
LEMMA CodeStep ==
    ASSUME IndInv, CodeInv, NEW t \in Thread, NEW len \in Nat \ {0}, NEW f,
           \A j \in pos[t]..(pos[t] + len - 1) : j \in Row => CodeOf(j) = f,
           how' = Apply(pos[t]..(pos[t] + len - 1), f),
           pos' = [pos EXCEPT ![t] = @ + len],
           InFours(t)',
           UNCHANGED sizes
    PROVE  CodeInv'
<1> USE Rigid DEF sizes
<1>1. how \in [Row -> SUBSET Functions] /\ pos \in [Thread -> Nat]
    BY DEF IndInv, TypeOK
<1>2. \A j \in Row : CodeOf(j)' = CodeOf(j)
    BY CodeRigid DEF IndInv
<1>3. SameCode'
    <2> SUFFICES ASSUME NEW j \in Row PROVE how'[j] \subseteq {CodeOf(j)}
        BY <1>2 DEF SameCode
    <2>1. how[j] \subseteq {CodeOf(j)}
        BY DEF CodeInv, SameCode
    <2>2. CASE j \in pos[t]..(pos[t] + len - 1)
        <3>1. how'[j] = how[j] \cup {f} /\ CodeOf(j) = f
            BY <2>2 DEF Apply
        <3> QED BY <2>1, <3>1
    <2>3. CASE j \notin pos[t]..(pos[t] + len - 1)
        <3>1. how'[j] = how[j]
            BY <2>3 DEF Apply
        <3> QED BY <2>1, <3>1
    <2> QED BY <2>2, <2>3
<1>4. ASSUME NEW u \in Thread PROVE InFours(u)'
    <2>1. CASE u = t
        BY <2>1
    <2>2. CASE u # t
        <3>1. pos'[u] = pos[u] /\ InFours(u)
            BY <1>1, <2>2 DEF CodeInv
        <3> QED BY <3>1 DEF InFours, Fours
    <2> QED BY <2>1, <2>2
<1> QED BY <1>3, <1>4 DEF CodeInv

\* No step gives a row a function that CodeOf does not give it.
LEMMA CodeInductive == IndInv /\ CodeInv /\ [Next]_vars => CodeInv'
<1> SUFFICES ASSUME IndInv, CodeInv, [Next]_vars PROVE CodeInv'
    OBVIOUS
<1> USE Rigid DEF sizes
<1>1. /\ SizeOK /\ n \in Nat /\ pos \in [Thread -> Nat]
      /\ \A t \in Thread : /\ Start(t) \in Nat /\ End(t) \in Nat /\ End(t) <= n
                           /\ Start(t) <= pos[t] /\ pos[t] <= End(t)
    BY Stretches DEF IndInv, SizeOK, TypeOK
<1>2. CASE UNCHANGED <<n, k, threads, pos, how>>
    <2>1. \A t \in Thread : InFours(t)'
        BY <1>2 DEF CodeInv, InFours, Fours
    <2>2. \A j \in Row : CodeOf(j)' = CodeOf(j)
        BY <1>1, <1>2, CodeRigid
    <2> QED BY <1>2, <2>1, <2>2 DEF CodeInv, SameCode
<1>3. ASSUME NEW t \in Thread, Compute4(t)
      PROVE  CodeInv'
    <2> DEFINE f == <<"compute4", pos[t], t>>
               len == 4
               at == pos[t]
               s == Start(t)
               e == End(t)
               F == Fours(t)
    <2>1. at \in Nat /\ s \in Nat /\ e \in Nat /\ at < e - 4 /\ e <= n
        BY <1>1, <1>3 DEF Compute4
    <2>2. PICK q \in Nat : F = 4 * q /\ s + F >= e - 4
        BY <1>1, FoursFacts
    <2>3. PICK m \in Nat : at = s + 4 * m /\ 4 * m < F
        <3>1. InFours(t)
            BY DEF CodeInv
        <3> HIDE DEF at, s, e, F
        <3>2. ~(at >= s + F)
            BY <2>1, <2>2
        <3> QED BY <3>1, <3>2 DEF InFours, at, s, F
    <2>4. ASSUME NEW j \in at..(at + len - 1), j \in Row
          PROVE  CodeOf(j) = f
        <3> DEFINE off == j - s
        <3> HIDE DEF at, s, e, F
        <3>1. j \in Int /\ s <= j /\ j < e
            BY <2>1, <2>3, <2>4
        <3>2. Owner(j) = t
            BY <1>1, <3>1, <2>4, OwnerFacts DEF s, e
        <3>3. off \in 0..(F - 1) /\ off - 4 * m \in 0..3
            BY <2>1, <2>2, <2>3, <2>4
        <3>4. off % 4 = off - 4 * m
            <4> DEFINE d == off - 4 * m
            <4>1. d \in 0..3 /\ off = 4 * m + d
                BY <3>1, <2>1, <3>3
            <4> HIDE DEF off, d
            <4>2. (4 * m + d) % 4 = d
                BY <4>1
            <4> QED BY <4>1, <4>2 DEF d
        <3>5. j - (off % 4) = at
            BY <2>1, <2>3, <3>1, <3>4
        <3>6. CodeOf(j) = IF j - Start(t) < Fours(t)
                          THEN <<"compute4", j - ((j - Start(t)) % 4), t>>
                          ELSE <<"compute1", j, t>>
            BY <3>2 DEF CodeOf
        <3>7. off < F
            <4> HIDE DEF off
            <4> QED BY <2>2, <3>3
        <3> QED BY <3>5, <3>6, <3>7 DEF at, s, F
    <2>5. /\ how' = Apply(at..(at + len - 1), f)
          /\ pos' = [pos EXCEPT ![t] = @ + len]
          /\ UNCHANGED sizes
        <3>1. at + 3 = at + len - 1
            BY <2>1
        <3> QED BY <1>3, <3>1 DEF Compute4
    <2>6. InFours(t)'
        <3>1. pos'[t] = at + 4 /\ Fours(t)' = F /\ Start(t)' = s
            BY <1>1, <2>5 DEF Fours
        <3> HIDE DEF at, s, e, F
        <3>2. CASE 4 * (m + 1) < F
            <4> DEFINE w == m + 1
            <4>1. w \in Nat /\ at + 4 = s + 4 * w /\ 4 * w < F
                BY <2>1, <2>3, <3>2
            <4> HIDE DEF w
            <4>2. pos'[t] = Start(t)' + 4 * w /\ 4 * w < Fours(t)'
                BY <3>1, <4>1
            <4> QED BY <4>1, <4>2 DEF InFours
        <3>3. CASE 4 * (m + 1) >= F
            <4>1. at + 4 >= s + F
                BY <2>1, <2>2, <2>3, <3>3
            <4> QED BY <3>1, <4>1 DEF InFours
        <3> QED BY <2>2, <3>2, <3>3
    <2> HIDE DEF f, len
    <2>7. len \in Nat \ {0}
        BY DEF len
    <2> QED BY <2>4, <2>5, <2>6, <2>7, CodeStep
<1>4. ASSUME NEW t \in Thread, Compute1(t)
      PROVE  CodeInv'
    <2> DEFINE f == <<"compute1", pos[t], t>>
               len == 1
               at == pos[t]
               s == Start(t)
               e == End(t)
               F == Fours(t)
    <2>1. at \in Nat /\ s \in Nat /\ e \in Nat /\ at >= e - 4 /\ at < e /\ e <= n /\ s <= at
        BY <1>1, <1>4 DEF Compute1
    <2>2. PICK q \in Nat : F = 4 * q /\ s + F >= e - 4 /\ (F > 0 => s + F < e)
        BY <1>1, FoursFacts
    <2>3. at >= s + F
        <3>1. InFours(t)
            BY DEF CodeInv
        <3> HIDE DEF at, s, e, F
        <3>2. ASSUME NEW m \in Nat, at = s + 4 * m, 4 * m < F PROVE FALSE
            <4>1. m < q
                BY <2>2, <3>2
            <4>2. 4 * m + 4 <= 4 * q
                BY <4>1
            <4> QED BY <2>1, <2>2, <3>2, <4>2
        <3> QED BY <3>1, <3>2 DEF InFours, at, s, F
    <2>4. ASSUME NEW j \in at..(at + len - 1), j \in Row
          PROVE  CodeOf(j) = f
        <3>1. j = at
            BY <2>1
        <3>2. Owner(j) = t
            <4>1. s <= j /\ j < e
                BY <2>1, <3>1
            <4> QED BY <1>1, <2>4, <4>1, OwnerFacts
        <3> HIDE DEF at, s, e, F
        <3>3. ~(j - s < F)
            BY <2>1, <2>2, <2>3, <3>1
        <3> QED BY <3>1, <3>2, <3>3 DEF CodeOf, at, s, F
    <2>5. /\ how' = Apply(at..(at + len - 1), f)
          /\ pos' = [pos EXCEPT ![t] = @ + len]
          /\ UNCHANGED sizes
        <3>1. {at} = at..(at + len - 1)
            BY <2>1
        <3> QED BY <1>4, <3>1 DEF Compute1
    <2>6. InFours(t)'
        <3>1. pos'[t] = at + 1 /\ Fours(t)' = F /\ Start(t)' = s
            BY <1>1, <2>5 DEF Fours
        <3> HIDE DEF at, s, e, F
        <3>2. at + 1 >= s + F
            BY <2>1, <2>2, <2>3
        <3> QED BY <3>1, <3>2 DEF InFours
    <2> HIDE DEF f, len
    <2>7. len \in Nat \ {0}
        BY DEF len
    <2> QED BY <2>4, <2>5, <2>6, <2>7, CodeStep
<1>5. CASE UNCHANGED vars
    BY <1>2, <1>5 DEF vars
<1> QED BY <1>2, <1>3, <1>4, <1>5 DEF Next, Work, Widen, Enqueue, Return

(* The function that computes a row depends on the number of rows and threads
   alone: in whatever order the threads of the two parties run, both apply the
   same matrix. *)
THEOREM SameMatrix == Spec => []SameCode
<1>1. Init => CodeInv
    <2> SUFFICES ASSUME Init PROVE CodeInv
        OBVIOUS
    <2>1. SizeOK
        BY InitInv DEF IndInv
    <2>2. ASSUME NEW t \in Thread PROVE InFours(t)
        <3>1. pos[t] = Start(t) /\ Start(t) \in Nat /\ Fours(t) \in Nat
            BY <2>1, Stretches, FoursFacts DEF Init
        <3>2. 0 \in Nat /\ pos[t] = Start(t) + 4 * 0
            BY <3>1
        <3>3. Fours(t) = 0 \/ 4 * 0 < Fours(t)
            BY <3>1
        <3>4. Fours(t) = 0 => pos[t] >= Start(t) + Fours(t)
            BY <3>1
        <3> QED BY <3>2, <3>3, <3>4 DEF InFours
    <2>3. SameCode
        BY DEF Init, SameCode
    <2> QED BY <2>2, <2>3 DEF CodeInv
<1> QED BY <1>1, CodeInductive, Invariance, PTL DEF Spec, CodeInv
=============================================================================
