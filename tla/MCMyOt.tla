-------------------------------- MODULE MCMyOt --------------------------------
(***************************************************************************)
(* MyOt for model checking: with blocks of 4 rows, transfers of 2 and      *)
(* batches of 2, the lengths give a full block, a remainder with padding   *)
(* and both, full batches and a short one.                                 *)
(***************************************************************************)
EXTENDS MyOt

All == {"setS", "setup", "pre"}

MCPlans ==
    {Transfer(All, n, {0, 3}, n) : n \in {3, 4, 7}}
        \cup {Transfer({"pre"}, 5, {1, 4}, 3), Transfer({"setup", "pre"}, 3, {2}, 2)}
        \cup {Transfer(new, 0, {}, 3) : new \in {{}, {"setS"}}}
        \cup {Transfer({"setup", "pre"}, 4, {1}, 4)}
        \cup {OneOf(All, 3, 2), OneOf(All, 8, 5), OneOf({"pre"}, 8, 2), OneOf({}, 8, 0)}
=============================================================================
