----------------------------- MODULE ArgmaxUnit ------------------------------
(***************************************************************************)
(* The argmax stage on its own, clocked with every sequence of inputs, as  *)
(* argmax_tb.vhd clocks it with four vectors in a row.  last, earlier and  *)
(* peak are history variables.                                             *)
(***************************************************************************)
EXTENDS Argmax

VARIABLES
    last,      \* {} or the vector read most recently
    earlier,   \* peak before that vector was read
    peak       \* the largest score read since reset, 0 if all were smaller

vars == <<argmaxVars, last, earlier, peak>>

Init ==
    /\ ArgmaxInit
    /\ last = {}
    /\ earlier = 0
    /\ peak = 0

Clock(read, data) ==
    /\ ArgmaxEdge(read, data)
    /\ IF read
       THEN /\ last' = {data}
            /\ earlier' = peak
            /\ peak' = Larger(peak, Top(data))
       ELSE UNCHANGED <<last, earlier, peak>>

Reset ==
    /\ ArgmaxReset
    /\ last' = {}
    /\ earlier' = 0
    /\ peak' = 0

Next == Reset \/ \E read \in BOOLEAN : \E data \in Scores : Clock(read, data)

Spec == Init /\ [][Next]_vars

-----------------------------------------------------------------------------
\* Types of the registers and of the history.
TypeOK ==
    /\ ArgmaxTypeOK
    /\ last \in SUBSET Scores
    /\ earlier \in Word
    /\ peak \in Word

\* The registers hold the class of the last vector if that vector is at least
\* as good as everything read since reset, the highest class in a tie
\* (argmax.vhd:34-43).
BestVectorWins ==
    \A data \in last : Top(data) >= earlier => max_idx_reg = MaxIndex(data)

\* The score in the register is the best one since reset: it only grows
\* (argmax.vhd:34, 42).
KeepsPeak == max_val_reg = peak

\* The prediction is a maximum of the vector read last, as the reference
\* model's is (CNN_MNIST_FPGA.ipynb:1244).
PredictsLast == \A data \in last : data[max_idx_reg] = Top(data)
=============================================================================
