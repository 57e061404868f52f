----------------------------- MODULE RcotStream -----------------------------
(***************************************************************************)
(* What FerretCOT::rcot promises to a pair of parties, without buffers,    *)
(* rounds or messages.  There is one endless stream of correlations, the   *)
(* i-th of which is At(i): each extension of the protocol yields L usable  *)
(* ones.  A call hands a party the next few of the stream: none is         *)
(* skipped, none is repeated, and how a party cuts the stream into calls   *)
(* does not change what it receives.                                       *)
(***************************************************************************)
EXTENDS Integers, Sequences

CONSTANTS Party,  \* the two ends of the protocol
          L       \* usable correlations of one extension (ot_limit), at least 1

VARIABLE out      \* out[p]: everything p has received so far, in order

\* The i-th correlation: the extension it comes from and its place there.
At(i) == <<1 + ((i - 1) \div L), (i - 1) % L>>

Prefix(n) == [i \in 1..n |-> At(i)]

Init == out = [p \in Party |-> <<>>]

\* One call of p returns.
Deliver(p) ==
    /\ Len(out'[p]) \in Nat /\ Len(out'[p]) >= Len(out[p])
    /\ out' = [out EXCEPT ![p] = Prefix(Len(out'[p]))]

Next == \E p \in Party : Deliver(p)

Spec == Init /\ [][Next]_out
=============================================================================
