-------------------------------- MODULE LpnF2 --------------------------------
(***************************************************************************)
(* LpnF2::compute (ferret/lpn_f2.h:57-83): the rows of the LPN matrix are  *)
(* cut into one stretch per thread; the caller enqueues threads - 1 tasks  *)
(* on the pool, works on the last stretch itself and waits for the tasks.  *)
(* A task takes four rows at a time (__compute4) and the last ones singly  *)
(* (__compute1).  The two functions derive the indices of a row in         *)
(* different ways, so the output of the two parties is correlated only if  *)
(* both compute every row exactly once and with the same function.         *)
(* A row adds up blocks of kk[0..k-1]: compute4 cuts a word of random bits *)
(* by a mask that the constructor has widened until it covers k, compute1  *)
(* reduces the word modulo k.                                              *)
(***************************************************************************)
EXTENDS Integers, FiniteSets

CONSTANTS Sizes,     \* bound: numbers of rows
          Counts,    \* bound: numbers of threads
          Lengths,   \* bound: lengths of kk
          Words      \* number of values of a word of random bits (uint32_t)

ASSUME LpnAssumption == Sizes \subseteq Nat /\ Counts \subseteq Nat \ {0}

\* k is an int, which is half of a uint32_t at most, so that mask is one as well.
ASSUME WordAssumption ==
    /\ Lengths \subseteq Nat \ {0} /\ Words \in Nat
    /\ \A len \in Lengths : 2 * len <= Words

VARIABLES n,         \* rows
          k,         \* blocks that a row can add up
          threads,   \* threads of the pool, the caller included
          mask,      \* low bits of a word that compute4 keeps
          queued,    \* tasks that the caller has put on the pool
          pos,       \* pos[t]: the row that thread t is going to compute next
          how,       \* how[j]: the functions that have been applied to row j
          returned   \* compute has returned

sizes == <<n, k, threads, mask>>
vars == <<sizes, queued, pos, how, returned>>

Thread == 0..(threads - 1)
Row == 0..(n - 1)

Width == n \div threads
Start(t) == t * Width

\* min((t + 1) * width, n) is (t + 1) * width, as threads * width <= n.
End(t) == IF t = threads - 1 THEN n ELSE Start(t + 1)

\* The constructor has returned.
Constructed == mask >= k

\* The task of the caller is the last one and needs no queue.
Running(t) ==
    Constructed /\ (t < queued \/ (t = threads - 1 /\ queued = threads - 1))

\* Mutant: the block behind the last one is left as it is.
Index4Beyond(r) == LET i == r % (mask + 1) IN IF i > k THEN i - k ELSE i

\* The index that compute4 takes from word r.  mask is 2^j - 1, so that & mask
\* is a remainder.
Index4(r) == LET i == r % (mask + 1) IN IF i >= k THEN i - k ELSE i

\* The index that compute1 takes from word r
Index1(r) == r % k

\* while (mask < k) mask = (mask << 1) | 1, in the constructor
Widen ==
    /\ mask < k
    /\ mask' = 2 * mask + 1
    /\ UNCHANGED <<n, k, threads, queued, pos, how, returned>>

\* Mutant: the caller's own stretch is queued as well.
EnqueueAll ==
    /\ Constructed /\ queued <= threads - 1
    /\ queued' = queued + 1
    /\ UNCHANGED <<sizes, pos, how, returned>>

Enqueue ==
    /\ Constructed /\ queued < threads - 1
    /\ queued' = queued + 1
    /\ UNCHANGED <<sizes, pos, how, returned>>

Apply(rows, f) == [j \in Row |-> IF j \in rows THEN how[j] \cup {f} ELSE how[j]]

\* Mutant: the four-row loop runs while four rows are left, by a wrong count.
Compute4Beyond(t) ==
    /\ Running(t) /\ pos[t] < End(t) - 2
    /\ how' = Apply(pos[t]..(pos[t] + 3), <<"compute4", pos[t], t>>)
    /\ pos' = [pos EXCEPT ![t] = @ + 4]
    /\ UNCHANGED <<sizes, queued, returned>>

\* Four rows, the indices of which come from the blocks (pos, 0..d-1)
Compute4(t) ==
    /\ Running(t) /\ pos[t] < End(t) - 4
    /\ how' = Apply(pos[t]..(pos[t] + 3), <<"compute4", pos[t], t>>)
    /\ pos' = [pos EXCEPT ![t] = @ + 4]
    /\ UNCHANGED <<sizes, queued, returned>>

\* One row, the indices of which come from the first blocks of (pos, ..)
Compute1(t) ==
    /\ Running(t) /\ pos[t] >= End(t) - 4 /\ pos[t] < End(t)
    /\ how' = Apply({pos[t]}, <<"compute1", pos[t], t>>)
    /\ pos' = [pos EXCEPT ![t] = @ + 1]
    /\ UNCHANGED <<sizes, queued, returned>>

\* Mutant: the caller does not wait for the tasks.
ReturnAtOnce ==
    /\ Constructed /\ ~returned /\ queued = threads - 1
    /\ pos[threads - 1] >= End(threads - 1)
    /\ returned' = TRUE
    /\ UNCHANGED <<sizes, queued, pos, how>>

\* for (auto &f: fut) f.get()
Return ==
    /\ Constructed /\ ~returned /\ queued = threads - 1
    /\ \A t \in Thread : pos[t] >= End(t)
    /\ returned' = TRUE
    /\ UNCHANGED <<sizes, queued, pos, how>>

Init ==
    /\ n \in Sizes /\ threads \in Counts /\ k \in Lengths
    /\ mask = 1
    /\ queued = 0
    /\ pos = [t \in Thread |-> Start(t)]
    /\ how = [j \in Row |-> {}]
    /\ returned = FALSE

Work(t) == Compute4(t) \/ Compute1(t)
Next == Widen \/ Enqueue \/ Return \/ \E t \in Thread : Work(t)
Spec == Init /\ [][Next]_vars

(*------------------------------- properties -----------------------------*)
Functions == {"compute4", "compute1"} \X Nat \X Nat

(* The variables have their types. *)
TypeOK ==
    /\ n \in Nat /\ k \in Nat \ {0} /\ threads \in Nat \ {0} /\ mask \in Nat
    /\ queued \in 0..(threads - 1)
    /\ pos \in [Thread -> Nat]
    /\ how \in [Row -> SUBSET Functions]
    /\ returned \in BOOLEAN

\* The rows that thread t has computed
Computed(t) == {j \in Row : Start(t) <= j /\ j < pos[t]}

(* Threads keep to their own stretch of the output, so that no two of them
   update one block of it at the same time (lpn_f2.h:42, 54, 72-76). *)
NoSharedRow ==
    /\ \A t \in Thread : pos[t] <= End(t)
    /\ \A t, u \in Thread : t # u => Computed(t) \cap Computed(u) = {}

(* When compute returns, every row has been computed by one function of one
   thread, the last rows of every stretch included (lpn_f2.h:57-64, 82). *)
AllRowsOnce == returned => \A j \in Row : \E f \in how[j] : how[j] = {f}

\* The thread and the function that the two loops of task give to row j
Owner(j) == CHOOSE t \in Thread : Start(t) <= j /\ j < End(t)
Fours(t) == IF End(t) - Start(t) <= 4 THEN 0
            ELSE 4 * ((End(t) - Start(t) - 1) \div 4)
CodeOf(j) ==
    LET t == Owner(j)
        off == j - Start(t)
    IN  IF off < Fours(t) THEN <<"compute4", j - (off % 4), t>>
                          ELSE <<"compute1", j, t>>

(* Which function computes a row depends on the number of rows and threads
   alone and never on the order in which the threads run, so that two parties
   with equal parameters apply the same matrix (lpn_f2.h:57-64). *)
SameCode == \A j \in Row : how[j] \subseteq {CodeOf(j)}

(* Once the constructor has chosen the mask, the indices that words of random
   bits give are those of kk and all of them, with either function: none lies
   behind the last block and no block is left out (lpn_f2.h:25-29, 39-41, 55). *)
IndicesExact ==
    Constructed =>
        /\ {Index4(r) : r \in 0..(Words - 1)} = 0..(k - 1)
        /\ {Index1(r) : r \in 0..(Words - 1)} = 0..(k - 1)
=============================================================================
