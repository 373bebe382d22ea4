------------------------------ MODULE DataType ------------------------------
(***************************************************************************)
(* The types the accelerator's entities share (data_type.vhd) and the      *)
(* width of the Avalon ports.  What a 16-bit word means as a Q7.8 number   *)
(* does not matter to the components that only move it.                    *)
(***************************************************************************)
EXTENDS Naturals

CONSTANTS
    Mod32,   \* range of 32-bit addresses and lengths: 2^32
    Mod4,    \* range of the 4-bit window counters: 16
    Word,    \* the 16-bit data words (fixed_point)
    Zero     \* the word X"0000"

ASSUME Mod32Assumption == Mod32 \in Nat \ {0}
ASSUME WordAssumption == Zero \in Word

Address == 0 .. Mod32 - 1

\* The two things the accelerator fetches.
Channel == {"image", "weight"}

\* The classes the network tells apart, one neuron each (data_array_3bit).
Class == 0 .. 2
=============================================================================
