----------------------------- MODULE MCInference -----------------------------
(***************************************************************************)
(* An instance of Inference: images of four windows of two words, three    *)
(* rows of four weights, 4-bit words, byte addresses as in the built       *)
(* system.                                                                 *)
(***************************************************************************)
EXTENDS Inference, TLC

MCWord == -8 .. 7
MCMemory == [cell \in 0 .. 31 |-> ((cell * cell + 3 * cell + 5) % 13) - 6]
MCBurstSize == [image |-> 2, weight |-> 4]
MCWeights == (0 :> 3) @@ (1 :> -4)

\* An image of class 1, one of class 2 with a tie and smaller scores, and one,
\* across the end of the memory, with negative scores only.
MCImages == {6, 22, 60}
MCPowerUp == {9}
=============================================================================
