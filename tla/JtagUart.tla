------------------------------ MODULE JtagUart -------------------------------
(***************************************************************************)
(* The JTAG UART (soc_system_jtag_uart_0.v) as processor and host see it:  *)
(* a FIFO each way, two interrupts and a flag for activity of the host.    *)
(* Each operator is one access of the processor or one transfer of the     *)
(* host; it leaves the registers it does not name to the caller.           *)
(***************************************************************************)
EXTENDS Naturals, Sequences

CONSTANTS
    WriteDepth,  \* places of the FIFO to the host: 64
    ReadDepth,   \* places of the FIFO from the host: 64
    Threshold,   \* 8 in the code: free places or bytes left that interrupt
    Numbers      \* as in ByteStream

ASSUME UartAssumption ==
    /\ WriteDepth \in Nat \ {0} /\ ReadDepth \in Nat \ {0}
    /\ Threshold < WriteDepth /\ Threshold < ReadDepth /\ Threshold \in Nat
    /\ Numbers \in Nat \ {0}

VARIABLES
    wfifo,       \* bytes for the host
    rfifo,       \* bytes from the host
    ien,         \* ien_AE ("WE") and ien_AF ("RE"), the interrupts enabled
    pause_irq,   \* the host paused with bytes in rfifo
    ac           \* activity of the host since the flag was cleared

uartVars == <<wfifo, rfifo, ien, pause_irq, ac>>

Byte == 0 .. Numbers - 1
Enables == {"RE", "WE"}

UartTypeOK ==
    /\ wfifo \in Seq(Byte) /\ Len(wfifo) <= WriteDepth
    /\ rfifo \in Seq(Byte) /\ Len(rfifo) <= ReadDepth
    /\ ien \subseteq Enables
    /\ pause_irq \in BOOLEAN
    /\ ac \in BOOLEAN

\* The driver sets ien.
UartInit ==
    /\ wfifo = <<>>
    /\ rfifo = <<>>
    /\ pause_irq = FALSE
    /\ ac = FALSE

-----------------------------------------------------------------------------
(* What the processor reads in the control register.                       *)
WriteSpace == WriteDepth - Len(wfifo)
WritePending == "WE" \in ien /\ Len(wfifo) <= Threshold
ReadPending ==
    /\ "RE" \in ien
    /\ pause_irq \/ ReadDepth - Len(rfifo) <= Threshold
Interrupting == WritePending \/ ReadPending

(* The processor's accesses to the data register.  A byte is lost when     *)
(* there is no room for it.                                                *)
WriteData(byte) ==
    wfifo' = IF Len(wfifo) < WriteDepth THEN Append(wfifo, byte) ELSE wfifo

ReadData ==
    /\ rfifo' = Tail(rfifo)
    /\ pause_irq' = FALSE

\* A read of the empty FIFO.  Whether it is empty is sampled one cycle before
\* the number of bytes in it, so a byte may arrive (late) in between: the
\* processor sees no valid byte and yet some available.
ReadNothing(late) ==
    /\ rfifo' = late
    /\ pause_irq' = FALSE
    /\ ac' = (ac \/ late # <<>>)

(* The host.  Taking a byte does not count as activity.                    *)
HostTakes ==
    /\ wfifo # <<>>
    /\ wfifo' = Tail(wfifo)

HostSends(byte) ==
    /\ Len(rfifo) < ReadDepth
    /\ rfifo' = Append(rfifo, byte)
    /\ ac' = TRUE

HostPauses ==
    /\ pause_irq' = (pause_irq \/ rfifo # <<>>)
    /\ ac' = TRUE
=============================================================================
