-------------------------------- MODULE Argmax -------------------------------
(***************************************************************************)
(* The last stage of the accelerator (argmax.vhd): two registers that keep *)
(* the largest score and its class.  On read_i the scores of the three     *)
(* neurons are compared, one after the other, with the score in the        *)
(* register, which is cleared by reset_n and by nothing else.              *)
(***************************************************************************)
EXTENDS DataType, Integers

ASSUME ScoreAssumption == Word \subseteq Int /\ Zero = 0

VARIABLES max_val_reg, max_idx_reg

argmaxVars == <<max_val_reg, max_idx_reg>>

Scores == [Class -> Word]

ArgmaxTypeOK ==
    /\ max_val_reg \in Word
    /\ max_idx_reg \in Class

ArgmaxInit ==
    /\ max_val_reg = 0
    /\ max_idx_reg = 0

ArgmaxReset ==
    /\ max_val_reg' = 0
    /\ max_idx_reg' = 0

\* Mutant of Consider: the first of equal scores wins.
ConsiderStrict(best, i, score) ==
    IF score > best.val THEN [val |-> score, idx |-> i] ELSE best

\* One turn of the loop over the scores.
Consider(best, i, score) ==
    IF score >= best.val THEN [val |-> score, idx |-> i] ELSE best

Scan(data) ==
    Consider(Consider(Consider([val |-> max_val_reg, idx |-> max_idx_reg],
                               0, data[0]), 1, data[1]), 2, data[2])

ArgmaxEdge(read, data) ==
    IF read
    THEN /\ max_val_reg' = Scan(data).val
         /\ max_idx_reg' = Scan(data).idx
    ELSE UNCHANGED argmaxVars

-----------------------------------------------------------------------------
(* What the scan is for.                                                   *)
Larger(a, b) == IF a > b THEN a ELSE b
Top(data) == Larger(data[0], Larger(data[1], data[2]))

\* The index of the maximum of a vector of scores, the highest one of several.
MaxIndex(data) ==
    CHOOSE i \in Class :
        \A j \in Class : /\ data[j] <= data[i]
                         /\ j > i => data[j] < data[i]
=============================================================================
