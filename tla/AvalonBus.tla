------------------------------ MODULE AvalonBus ------------------------------
(***************************************************************************)
(* The memory side of the accelerator's Avalon master: the interconnect,   *)
(* the clock crossing and the SDRAM, none of which is code of the project. *)
(* It is modelled by the Avalon-MM rules dma.vhd is written against        *)
(* (pipelined burst reads): a request is accepted on a clock edge with     *)
(* am_read = '1' and am_waitrequest = '0', and each accepted request is    *)
(* answered by am_burstcount beats, in order, after any delay.             *)
(*                                                                         *)
(* A memory cell is a 16-bit word.  AddressUnit is the number of addresses *)
(* a word takes: 2 in the built system, whose master uses byte addresses   *)
(* (HW_accelerator_for_CNN_hw.tcl: addressUnits SYMBOLS, bitsPerSymbol 8), *)
(* 1 for the memory of the testbench CNN_accelerator_tb.vhd.               *)
(***************************************************************************)
EXTENDS DataType, Sequences

CONSTANTS
    AddressUnit,   \* addresses per 16-bit word
    Memory         \* the word stored in each cell

MemorySize == Mod32 \div AddressUnit

ASSUME MemoryAssumption ==
    /\ AddressUnit \in Nat \ {0}
    /\ MemorySize \in Nat \ {0}
    /\ Memory \in [0 .. MemorySize - 1 -> Word]

VARIABLE pending   \* the accepted requests with beats still to come

\* The cell of beat k of a burst requested at address a.
CellAt(a, k) == (a \div AddressUnit + k) % MemorySize

Burst == [base : Address, beats : Nat \ {0}, sent : Nat]

BusInit == pending = <<>>
BusReset == pending' = <<>>

\* The beat the bus delivers next.
NextBeat == Memory[CellAt(Head(pending).base, Head(pending).sent)]

\* pending once the next beat has been delivered.
AfterBeat ==
    LET b == Head(pending)
    IN  IF b.sent + 1 = b.beats
        THEN Tail(pending)
        ELSE <<[b EXCEPT !.sent = @ + 1]>> \o Tail(pending)

\* No request accepted and no beat delivered on this edge.
BusIdle == UNCHANGED pending

\* A request is accepted.  (A beat of an earlier request may be delivered on
\* the same edge.)
AcceptRequest(address, burstcount, valid) ==
    /\ valid => pending # <<>>
    /\ pending' = Append(IF valid THEN AfterBeat ELSE pending,
                         [base |-> address, beats |-> burstcount, sent |-> 0])

\* A beat is delivered.
DeliverBeat ==
    /\ pending # <<>>
    /\ pending' = AfterBeat

\* One clock edge of the bus, seen from the master's ports.
BusEdge(read, address, burstcount, waitrequest, valid, readdata) ==
    /\ valid => pending # <<>> /\ readdata = NextBeat
    /\ IF read /\ ~waitrequest THEN AcceptRequest(address, burstcount, valid)
       ELSE IF valid THEN DeliverBeat
       ELSE BusIdle
=============================================================================
