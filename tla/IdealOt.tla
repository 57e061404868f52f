-------------------------------- MODULE IdealOt --------------------------------
(***************************************************************************)
(* What an OT promises (ot.h:8-10): the n-th call of the sender takes two  *)
(* messages for each index, the n-th call of the receiver takes a bit for  *)
(* each index and returns the messages that its bits choose, after the     *)
(* sender has begun its call.  A message is named by its call, its index   *)
(* and its side.                                                           *)
(***************************************************************************)
EXTENDS Naturals, Sequences

CONSTANT Choices   \* the functions from an interval to BOOLEAN

VARIABLES offered,   \* calls that the sender has begun
          asked,     \* the choice bits of the receiver's calls
          got        \* what the receiver's calls have returned

vars == <<offered, asked, got>>

Chosen(n, r) == [i \in DOMAIN r |-> <<n, i, r[i]>>]

Init == offered = 0 /\ asked = <<>> /\ got = <<>>

Offer == offered' = offered + 1 /\ UNCHANGED <<asked, got>>

Ask == /\ Len(asked) = Len(got)
       /\ \E r \in Choices : asked' = Append(asked, r)
       /\ UNCHANGED <<offered, got>>

Deliver ==
    LET n == Len(got) + 1
    IN  /\ n <= Len(asked) /\ n <= offered
        /\ got' = Append(got, Chosen(n, asked[n]))
        /\ UNCHANGED <<offered, asked>>

Next == Offer \/ Ask \/ Deliver

SafeSpec == Init /\ [][Next]_vars
Spec == SafeSpec /\ WF_vars(Deliver)
=============================================================================
