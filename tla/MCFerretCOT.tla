---------------------------- MODULE MCFerretCOT ----------------------------
(***************************************************************************)
(* FerretCOT for model checking.  K = PreOtN = Check = 1, so that the seed *)
(* is M = 3 blocks; n is 7 (ot_limit = 4) or, at the edge of what the plan *)
(* of rcot needs, 6 (ot_limit = 3 = M).                                    *)
(***************************************************************************)
EXTENDS FerretCOT

(* Calls of rcot alone, cut into calls differently by the two callers, give
   each caller the same stream of correlations. *)
Stream == INSTANCE RcotStream WITH L <- OtLimit
StreamSpec == Stream!Spec
=============================================================================
