------------------------------- MODULE Channel --------------------------------
(***************************************************************************)
(* The buffered channel (NetIO) that joins ALICE and BOB, as the code uses *)
(* it.  What is written reaches the peer once it is flushed; to receive    *)
(* flushes first, which the code relies on (co.h:41-49 writes a point and  *)
(* then reads with no flush in between).                                   *)
(***************************************************************************)
EXTENDS Sequences

VARIABLES pend,   \* pend[p]: what p has written and not flushed
          net     \* net[p]: what is on its way to p

Party == {"ALICE", "BOB"}
Peer(p) == IF p = "ALICE" THEN "BOB" ELSE "ALICE"

Write(p, ms) == pend' = [pend EXCEPT ![p] = @ \o ms] /\ UNCHANGED net

\* write and flush
Send(p, ms) == /\ net' = [net EXCEPT ![Peer(p)] = @ \o pend[p] \o ms]
               /\ pend' = [pend EXCEPT ![p] = <<>>]

CanRead(p) == pend[p] = <<>> /\ net[p] # <<>>
Incoming(p) == Head(net[p])
Read(p) == net' = [net EXCEPT ![p] = Tail(@)] /\ UNCHANGED pend
ReadSend(p, ms) == /\ net' = [net EXCEPT ![p] = Tail(@), ![Peer(p)] = @ \o ms]
                   /\ UNCHANGED pend

Silent == UNCHANGED <<pend, net>>

Quiet == [p \in Party |-> <<>>]
=============================================================================
