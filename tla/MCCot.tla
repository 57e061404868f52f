--------------------------------- MODULE MCCot ---------------------------------
(***************************************************************************)
(* Cot for model checking: with blocks of 6 rows, transfers of 2 and       *)
(* batches of 4, the lengths give a short block, a full one, and a full    *)
(* one with a remainder, a short batch, and full ones with a short one.    *)
(* With 5 items some items share their key.                                *)
(***************************************************************************)
EXTENDS Cot

MCCalls ==
    {Ots("ot", 9, {0, 3, 7}), Ots("cot", 6, {1, 5}), Ots("rot", 1, {0}),
     Gen(9, {1, 2, 8}, TRUE), OneOf(5, 4), Setup(TRUE), Setup(FALSE)}

\* Bit 1 changes from one set-up to the next; bit 0 is the one that BaseCot and
\* FerretCOT set.
MCSecrets == {[e \in 0..(MaxCalls + 1) |-> Bits(BaseN, IF e % 2 = 0 THEN {0} ELSE {0, 1})]}
=============================================================================
