---------------------------- MODULE MCFerretExtend ----------------------------
(***************************************************************************)
(* FerretExtend for model checking: two threads in malicious mode and      *)
(* three in both, with more trees than threads.                            *)
(***************************************************************************)
EXTENDS FerretExtend

MCShapes ==
    {[trees |-> 3, height |-> 2, threads |-> 2, malicious |-> TRUE],
     [trees |-> 4, height |-> 1, threads |-> 3, malicious |-> FALSE],
     [trees |-> 5, height |-> 1, threads |-> 3, malicious |-> TRUE]}
=============================================================================
