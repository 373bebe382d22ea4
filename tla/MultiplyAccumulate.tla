-------------------------- MODULE MultiplyAccumulate -------------------------
(***************************************************************************)
(* The loop of conv_filter.vhd:36-42 and neuron.vhd:27-31, one product per *)
(* step, with every choice of operands.  exact is a history variable: the  *)
(* sum in unbounded integers.                                              *)
(***************************************************************************)
EXTENDS FixedPoint

CONSTANTS
    Bias,    \* the start values: the filter's bias, a neuron's 0
    Terms    \* the number of products: 49 or 16

ASSUME LoopAssumption == Bias \subseteq Double /\ Terms \in Nat

VARIABLES
    i,      \* loop index
    sum,    \* conv_res, mult
    exact

vars == <<i, sum, exact>>

Init ==
    /\ i = 0
    /\ sum \in Bias
    /\ exact = sum

AddProduct(x, y) ==
    /\ i < Terms
    /\ i' = i + 1
    /\ sum' = MulAdd(sum, x, y)
    /\ exact' = exact + x * y

Next == \E x, y \in Word : AddProduct(x, y)

Spec == Init /\ [][Next]_vars

Result == Narrow(sum)

-----------------------------------------------------------------------------
\* Types: what is left of the sum is a 16-bit word.
TypeOK ==
    /\ i \in 0 .. Terms
    /\ sum \in Double
    /\ exact \in Int
    /\ Result \in Word

\* A sum that fits the Q7.8 range comes out as its value rounded down, however
\* far the partial sums overflowed the accumulator on the way
\* (conv_filter.vhd:39, 42; neuron.vhd:29, 31).
ExactIfItFits ==
    exact \in -(Half * Scale) .. Half * Scale - 1 => Result = exact \div Scale

\* A sum that fits the accumulator keeps its sign when it is cut to 16 bits,
\* so the ReLU passes no negative sum on (conv_filter.vhd:42, ReLU.vhd:18).
SignSurvives ==
    exact \in Double => /\ Result < 0 <=> exact < 0
                        /\ exact < 0 => ReLU(Result) = 0
=============================================================================
