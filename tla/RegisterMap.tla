----------------------------- MODULE RegisterMap -----------------------------
(***************************************************************************)
(* The Avalon slave through which software controls the accelerator        *)
(* (register_map.vhd).  As in Dma, a pair of registers image_x, weight_x   *)
(* is one function over Channel.                                           *)
(***************************************************************************)
EXTENDS FixedPoint, Sequences

CONSTANT PowerUp   \* what the registers without a reset may power up to

ASSUME PowerUpAssumption == PowerUp \subseteq Address

VARIABLES
    start_out,        \* start_image_o, start_weight_o
    addr_out,         \* image_addr_o, weight_addr_o
    length_out,       \* image_length_o, weight_length_o
    prediction_regs,  \* prediction0_reg to prediction2_reg
    as_readdata

regVars == <<start_out, addr_out, length_out, prediction_regs, as_readdata>>

RegTypeOK ==
    /\ start_out \in [Channel -> BOOLEAN]
    /\ addr_out \in [Channel -> Address]
    /\ length_out \in [Channel -> Address]
    /\ prediction_regs \in [Class -> Nat]
    /\ as_readdata \in Nat

\* The numbers of the registers software writes.
StartRegister == [image |-> 0, weight |-> 1]
AddrRegister  == [image |-> 2, weight |-> 4]

\* Mutant of LengthRegister: the channels are swapped.
LengthRegisterSwapped == [image |-> 5, weight |-> 3]
LengthRegister == [image |-> 3, weight |-> 5]

RegInit ==
    /\ start_out = [c \in Channel |-> FALSE]
    /\ addr_out \in [Channel -> PowerUp]
    /\ length_out \in [Channel -> PowerUp]
    /\ prediction_regs \in [Class -> PowerUp]
    /\ as_readdata = 0

\* reset_n = '0' clears the start bits and the read data only.
RegReset ==
    /\ start_out' = [c \in Channel |-> FALSE]
    /\ as_readdata' = 0
    /\ UNCHANGED <<addr_out, length_out, prediction_regs>>

\* X"0000" & prediction: the bits of a signed word, not its value.
Pattern(word) == word % (2 * Half)

\* Mutant of ReadValue: the class and the first score are swapped.
ReadValueSwapped(reg, prediction) ==
    <<prediction_regs[0], prediction, addr_out["image"], length_out["image"],
      addr_out["weight"], length_out["weight"], prediction_regs[1],
      prediction_regs[2]>>[reg + 1]

\* What register number reg reads as; registers 1, 6 and 7 are the scores.
ReadValue(reg, prediction) ==
    <<prediction, prediction_regs[0], addr_out["image"], length_out["image"],
      addr_out["weight"], length_out["weight"], prediction_regs[1],
      prediction_regs[2]>>[reg + 1]

Writes(cmd, reg) == cmd.op = "write" /\ cmd.reg = reg

\* A start bit lasts one cycle.
StartBit(cmd, c) == Writes(cmd, StartRegister[c]) /\ cmd.data % 2 = 1

\* One rising edge: the command on the slave port, the scores and the
\* predicted class.
RegEdge(cmd, predictions, prediction) ==
    /\ start_out' = [c \in Channel |-> StartBit(cmd, c)]
    /\ addr_out' = [c \in Channel |->
                        IF Writes(cmd, AddrRegister[c]) THEN cmd.data ELSE addr_out[c]]
    /\ length_out' = [c \in Channel |->
                        IF Writes(cmd, LengthRegister[c]) THEN cmd.data ELSE length_out[c]]
    /\ prediction_regs' = [class \in Class |-> Pattern(predictions[class])]
    /\ as_readdata' = IF cmd.op = "read" THEN ReadValue(cmd.reg, prediction)
                      ELSE as_readdata
=============================================================================
