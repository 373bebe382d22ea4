------------------------------- MODULE MCArgmax ------------------------------
(***************************************************************************)
(* Sets of scores for ArgmaxUnit, small enough that ties are frequent.     *)
(***************************************************************************)
EXTENDS ArgmaxUnit

MixedScores == -2 .. 2

\* No score is below the cleared register: only what earlier vectors left behind
\* can mislead.
PositiveScores == 0 .. 2
=============================================================================
