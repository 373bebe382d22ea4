----------------------- MODULE MCMultiplyAccumulate --------------------------
(***************************************************************************)
(* 4-bit words and an 8-bit accumulator with 6 bits kept: the proportions  *)
(* of 16, 32 and 23 bits in the code.                                      *)
(***************************************************************************)
EXTENDS MultiplyAccumulate

MCWord == -8 .. 7
MCBias == {-100, 0, 58}
=============================================================================
