------------------------------- MODULE ExpGroup -------------------------------
(***************************************************************************)
(* The group of the base OTs (emp-tool's Group, Point and BigInt), as the  *)
(* code uses it: a point is named by its exponent to the generator.        *)
(***************************************************************************)
EXTENDS Integers

CONSTANT Order   \* the number of points

ASSUME GroupAssumption == Order \in Nat \ {0}

MulGen(x) == x % Order
Mul(p, x) == (p * x) % Order
Add(p, q) == (p + q) % Order
Inv(p) == (Order - p) % Order
=============================================================================
