------------------------------ MODULE FixedPoint -----------------------------
(***************************************************************************)
(* The arithmetic of the datapath: Q7.8 numbers in 16 bits, products and   *)
(* sums in 32 bits, and the cut back to 16 bits that keeps the sign bit    *)
(* and bits 22 to 8 (conv_filter.vhd:42, neuron.vhd:31).  The widths are   *)
(* parameters: in the code Scale = 2^8, Half = 2^15, DoubleMod = 2^32.     *)
(***************************************************************************)
EXTENDS DataType, Integers, FiniteSets

CONSTANTS
    Scale,      \* what 1.0 is represented by
    Half,       \* 16-bit words are -Half .. Half - 1
    DoubleMod   \* range of the 32-bit words

ASSUME FixedPointAssumption ==
    /\ Scale \in Nat \ {0}
    /\ Half \in Nat \ {0}
    /\ Scale <= 2 * Half
    /\ DoubleMod = 4 * Half * Half
    /\ Word = -Half .. Half - 1
    /\ Zero = 0

Double == -(2 * Half * Half) .. 2 * Half * Half - 1

\* Two's complement in 32 bits.
Signed(x) == ((x + 2 * Half * Half) % DoubleMod) - 2 * Half * Half

\* Mutant of MulAdd: the accumulator saturates.
MulAddSaturating(sum, x, y) ==
    LET s == sum + x * y
    IN  IF s >= 2 * Half * Half THEN 2 * Half * Half - 1
        ELSE IF s < -(2 * Half * Half) THEN -(2 * Half * Half)
        ELSE s

\* One turn of the accumulation loops.
MulAdd(sum, x, y) == Signed(sum + x * y)

\* Mutants of Narrow: x(31 downto 8), and x(23 downto 8).
NarrowUncut(x) == x \div Scale
NarrowDropsSign(x) == ((x \div Scale + Half) % (2 * Half)) - Half

\* x(31) & x(22 downto 8)
Narrow(x) == ((x \div Scale) % Half) - (IF x < 0 THEN Half ELSE 0)

ReLU(x) == IF x >= 0 THEN x ELSE 0

\* The accumulation over all words of two vectors: part[i] is the sum after i
\* turns of the loop.
Accumulate(start, xs, ys) ==
    LET words == Cardinality(DOMAIN xs)
        part[i \in 0 .. words] ==
            IF i = 0 THEN start ELSE MulAdd(part[i - 1], xs[i - 1], ys[i - 1])
    IN  part[words]

ConvFilter(weights, bias, window) == Narrow(Accumulate(bias, weights, window))

Neuron(data, weight) == Narrow(Accumulate(0, weight, data))
=============================================================================
