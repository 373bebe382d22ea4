--------------------------- MODULE JtagUartDriver ----------------------------
(***************************************************************************)
(* The interrupt-driven driver of the JTAG UART                            *)
(* (altera_avalon_jtag_uart_init.c, _read.c, _write.c, _ioctl.c).  The     *)
(* program's thread and the interrupt routine share two ring buffers       *)
(* without a lock: each index has one writer.                              *)
(*                                                                         *)
(* One step is what runs between two accesses to what is shared.  The      *)
(* critical sections of the thread run with interrupts off and are one     *)
(* step each; the interrupt routine runs to its end before the thread goes *)
(* on, but the host acts at any time.                                      *)
(***************************************************************************)
EXTENDS JtagUart

CONSTANTS
    BufLen,        \* ALTERA_AVALON_JTAG_UART_BUF_LEN: 2048
    Timeouts,      \* what TIOCSTIMEOUT may set
    MaxInactive,   \* INT_MAX - 2: where host_inactive stops
    MaxCount       \* the most bytes a call asks for

\* A timeout is at least 2; one above MaxInactive never passes.
ASSUME DriverAssumption ==
    /\ BufLen \in Nat \ {0, 1}
    /\ MaxInactive \in Nat /\ MaxCount \in Nat \ {0}
    /\ Timeouts # {}
    /\ Timeouts \subseteq 2 .. MaxInactive + 1

VARIABLES
    rx_buf, rx_in, rx_out,    \* ring of received bytes
    tx_buf, tx_in, tx_out,    \* ring of bytes to send
    irq_enable,
    host_inactive,            \* alarms since the host was active
    timeout,
    isr,                      \* where the interrupt routine is, and its locals
    call                      \* where the thread is, and its locals

ringVars == <<rx_buf, rx_in, rx_out, tx_buf, tx_in, tx_out>>
driverVars == <<ringVars, irq_enable, host_inactive, timeout, isr, call>>

Index == 0 .. BufLen - 1

\* wi and space are what the control register said, avail whether the last read
\* left bytes in the FIFO.
IsrAt(step) == [at |-> step, wi |-> FALSE, space |-> 0, avail |-> FALSE]
NoIsr == IsrAt("off")

\* count is the bytes to do, done whether there are some done, old the index as
\* it was read, n the size of the next piece, result how the last call ended.
Idle == [at |-> "idle", nonblock |-> FALSE, count |-> 0, done |-> FALSE,
         old |-> 0, n |-> 0, result |-> "done"]

WriteSteps == {"w_look", "w_copy", "w_kick", "w_spin", "w_check"}
ReadSteps == {"r_look", "r_copy", "r_free", "r_spin", "r_check", "r_kick"}

DriverTypeOK ==
    /\ rx_buf \in [Index -> Byte] /\ tx_buf \in [Index -> Byte]
    /\ {rx_in, rx_out, tx_in, tx_out} \subseteq Index
    /\ irq_enable \subseteq Enables
    /\ host_inactive \in 0 .. MaxInactive
    /\ timeout \in Timeouts
    /\ isr \in [at : {"off", "control", "receive", "transmit"},
                wi : BOOLEAN, space : 0 .. WriteDepth, avail : BOOLEAN]
    /\ call \in [at : {"idle", "c_drain"} \cup WriteSteps \cup ReadSteps,
                 nonblock : BOOLEAN, count : 0 .. MaxCount, done : BOOLEAN,
                 old : Index, n : 0 .. MaxCount, result : {"done", "EWOULDBLOCK", "EIO"}]

\* After altera_avalon_jtag_uart_init.
DriverInit ==
    /\ rx_buf = [i \in Index |-> 0] /\ tx_buf = [i \in Index |-> 0]
    /\ rx_in = 0 /\ rx_out = 0 /\ tx_in = 0 /\ tx_out = 0
    /\ irq_enable = {"RE"}
    /\ ien = irq_enable
    /\ host_inactive = 0
    /\ timeout \in Timeouts
    /\ isr = NoIsr
    /\ call = Idle

\* IOWR_ALTERA_AVALON_JTAG_UART_CONTROL of the new irq_enable.
SetEnable(set) ==
    /\ irq_enable' = set
    /\ ien' = set

\* Mutant of Succ: an index runs out of the ring.
SuccPast(i) == i + 1
Succ(i) == (i + 1) % BufLen

Least(a, b) == IF a < b THEN a ELSE b
Connected == host_inactive < timeout

-----------------------------------------------------------------------------
(* The interrupt routine.                                                  *)
\* A pass of the routine's loop reads the control register.
Pass ==
    /\ isr' = IF Interrupting
              THEN [at |-> IF ReadPending THEN "receive" ELSE "transmit",
                    wi |-> WritePending, space |-> WriteSpace, avail |-> ReadPending]
              ELSE NoIsr
    /\ UNCHANGED <<uartVars, ringVars, irq_enable, host_inactive, timeout, call>>

\* The processor is interrupted and begins the first pass.
Interrupt == isr.at = "off" /\ Interrupting /\ Pass

IsrControl == isr.at = "control" /\ Pass

\* Mutant of RxFull: the last place is given away, and full looks like empty.
RxFullLate == FALSE
RxFull == Succ(rx_in) = rx_out

IsrReceive ==
    /\ isr.at = "receive"
    /\ ~RxFull
    /\ rfifo # <<>>
    /\ ReadData
    /\ rx_buf' = [rx_buf EXCEPT ![rx_in] = Head(rfifo)]
    /\ rx_in' = Succ(rx_in)
    /\ isr' = [isr EXCEPT !.avail = (rfifo' # <<>>)]
    /\ UNCHANGED <<wfifo, ien, ac, rx_out, tx_buf, tx_in, tx_out,
                   irq_enable, host_inactive, timeout, call>>

\* Bytes that could not be read turn the receive interrupt off.
EndReceive(avail) ==
    /\ SetEnable(IF avail THEN irq_enable \ {"RE"} ELSE irq_enable)
    /\ isr' = IF isr.wi THEN [isr EXCEPT !.at = "transmit", !.avail = FALSE]
              ELSE IsrAt("control")

\* No room in the ring, or nothing in the FIFO.
IsrReceiveEnd(late) ==
    /\ isr.at = "receive"
    /\ \/ RxFull /\ late = <<>> /\ EndReceive(isr.avail)
          /\ UNCHANGED <<rfifo, pause_irq, ac>>
       \/ ~RxFull /\ rfifo = <<>> /\ ReadNothing(late) /\ EndReceive(late # <<>>)
    /\ UNCHANGED <<wfifo, ringVars, host_inactive, timeout, call>>

IsrTransmit ==
    /\ isr.at = "transmit"
    /\ isr.space > 0
    /\ tx_out # tx_in
    /\ WriteData(tx_buf[tx_out])
    /\ tx_out' = Succ(tx_out)
    /\ isr' = [isr EXCEPT !.space = @ - 1]
    /\ UNCHANGED <<rfifo, ien, pause_irq, ac, rx_buf, rx_in, rx_out, tx_buf, tx_in,
                   irq_enable, host_inactive, timeout, call>>

\* Mutant of IsrTransmitEnd: the interrupt is turned off with bytes left.
IsrTransmitEndOff ==
    /\ isr.at = "transmit"
    /\ isr.space = 0 \/ tx_out = tx_in
    /\ SetEnable(irq_enable \ {"WE"})
    /\ isr' = IsrAt("control")
    /\ UNCHANGED <<wfifo, rfifo, pause_irq, ac, ringVars, host_inactive, timeout, call>>

\* Room left in the FIFO turns the transmit interrupt off.
IsrTransmitEnd ==
    /\ isr.at = "transmit"
    /\ isr.space = 0 \/ tx_out = tx_in
    /\ SetEnable(IF isr.space > 0 THEN irq_enable \ {"WE"} ELSE irq_enable)
    /\ isr' = IsrAt("control")
    /\ UNCHANGED <<wfifo, rfifo, pause_irq, ac, ringVars, host_inactive, timeout, call>>

\* Mutant of Timeout: the flag is not cleared.
TimeoutKeepsFlag ==
    /\ isr.at = "off"
    /\ host_inactive' = IF ac THEN 0
                        ELSE host_inactive + (IF host_inactive < MaxInactive THEN 1 ELSE 0)
    /\ UNCHANGED <<uartVars, ringVars, irq_enable, timeout, isr, call>>

\* Mutant of Timeout: clearing the flag turns the interrupts off.
TimeoutDropsEnables ==
    /\ isr.at = "off"
    /\ ien' = IF ac THEN {} ELSE ien
    /\ host_inactive' = IF ac THEN 0
                        ELSE host_inactive + (IF host_inactive < MaxInactive THEN 1 ELSE 0)
    /\ ac' = FALSE
    /\ UNCHANGED <<wfifo, rfifo, pause_irq, ringVars, irq_enable, timeout, isr, call>>

\* altera_avalon_jtag_uart_timeout, called by the system clock's interrupt.
Timeout ==
    /\ isr.at = "off"
    /\ ien' = IF ac THEN irq_enable ELSE ien
    /\ host_inactive' = IF ac THEN 0
                        ELSE host_inactive + (IF host_inactive < MaxInactive THEN 1 ELSE 0)
    /\ ac' = FALSE
    /\ UNCHANGED <<wfifo, rfifo, pause_irq, ringVars, irq_enable, timeout, isr, call>>

-----------------------------------------------------------------------------
(* The thread.                                                             *)
At(step) == isr.at = "off" /\ call.at = step

Return(value) == call' = [Idle EXCEPT !.result = value]

\* What a call that stops returns: the number of bytes done, or why there are
\* none.
Outcome == IF call.done THEN "done"
           ELSE IF call.nonblock THEN "EWOULDBLOCK" ELSE "EIO"

Goto(step) == call' = [call EXCEPT !.at = step]

Begin(step, count, nonblock) ==
    /\ At("idle")
    /\ call' = [Idle EXCEPT !.at = step, !.count = count, !.nonblock = nonblock]
    /\ UNCHANGED <<uartVars, ringVars, irq_enable, host_inactive, timeout, isr>>

\* Mutant of TxRoom: the place that tells full from empty is used as well.
TxRoomFull(in, out) == IF in < out THEN out - in ELSE BufLen - in

\* How many bytes fit in one piece behind in.
TxRoom(in, out) ==
    IF in < out THEN out - 1 - in
    ELSE IF out > 0 THEN BufLen - in
    ELSE BufLen - 1 - in

\* tx_out may advance after it is read here.
WriteLook ==
    /\ At("w_look")
    /\ IF call.count = 0 THEN Goto("w_kick")
       ELSE LET n == TxRoom(tx_in, tx_out)
            IN  call' = IF n = 0
                        THEN [call EXCEPT !.at = "w_kick", !.old = tx_out]
                        ELSE [call EXCEPT !.at = "w_copy", !.n = Least(n, call.count)]
    /\ UNCHANGED <<uartVars, ringVars, irq_enable, host_inactive, timeout, isr>>

\* bytes are the next ones of the caller.
WriteCopy(bytes) ==
    /\ At("w_copy")
    /\ tx_buf' = [i \in Index |-> IF i \in tx_in .. tx_in + call.n - 1
                                  THEN bytes[i - tx_in + 1] ELSE tx_buf[i]]
    /\ tx_in' = (tx_in + call.n) % BufLen
    /\ call' = [call EXCEPT !.at = "w_look", !.count = @ - call.n,
                            !.done = TRUE, !.n = 0]
    /\ UNCHANGED <<uartVars, rx_buf, rx_in, rx_out, tx_out,
                   irq_enable, host_inactive, timeout, isr>>

\* Mutant of WriteKick: the device is kicked only when there is more to come.
WriteKickLate ==
    /\ At("w_kick")
    /\ SetEnable(IF call.count > 0 THEN irq_enable \cup {"WE"} ELSE irq_enable)
    /\ IF call.count = 0 \/ call.nonblock THEN Return(Outcome) ELSE Goto("w_spin")
    /\ UNCHANGED <<wfifo, rfifo, pause_irq, ac, ringVars, host_inactive, timeout, isr>>

\* With interrupts off.
WriteKick ==
    /\ At("w_kick")
    /\ SetEnable(irq_enable \cup {"WE"})
    /\ IF call.count = 0 \/ call.nonblock THEN Return(Outcome) ELSE Goto("w_spin")
    /\ UNCHANGED <<wfifo, rfifo, pause_irq, ac, ringVars, host_inactive, timeout, isr>>

WriteSpin ==
    /\ At("w_spin")
    /\ call.old # tx_out \/ ~Connected
    /\ Goto("w_check")
    /\ UNCHANGED <<uartVars, ringVars, irq_enable, host_inactive, timeout, isr>>

WriteCheck ==
    /\ At("w_check")
    /\ IF host_inactive > 0 THEN Return(Outcome)
       ELSE call' = [call EXCEPT !.at = "w_look", !.old = 0]
    /\ UNCHANGED <<uartVars, ringVars, irq_enable, host_inactive, timeout, isr>>

-----------------------------------------------------------------------------
\* How many bytes lie in one piece from out on.
RxReady(in, out) == IF in >= out THEN in - out ELSE BufLen - out

\* rx_in may advance after it is read here.
ReadLook ==
    /\ At("r_look")
    /\ LET n == RxReady(rx_in, rx_out)
       IN  IF n > 0
           THEN call' = [call EXCEPT !.n = Least(n, call.count), !.at = "r_copy"]
           ELSE IF call.done THEN Goto("r_kick")
           ELSE IF call.nonblock THEN Return("EWOULDBLOCK")
           ELSE call' = [call EXCEPT !.old = rx_in, !.at = "r_spin"]
    /\ UNCHANGED <<uartVars, ringVars, irq_enable, host_inactive, timeout, isr>>

\* The bytes copied are those from rx_out on.
ReadCopy ==
    /\ At("r_copy")
    /\ call' = [call EXCEPT !.at = "r_free", !.count = @ - call.n,
                            !.done = TRUE]
    /\ UNCHANGED <<uartVars, ringVars, irq_enable, host_inactive, timeout, isr>>

ReadFree ==
    /\ At("r_free")
    /\ rx_out' = (rx_out + call.n) % BufLen
    /\ call' = [call EXCEPT !.at = IF call.count > 0 THEN "r_look" ELSE "r_kick",
                            !.n = 0]
    /\ UNCHANGED <<uartVars, rx_buf, rx_in, tx_buf, tx_in, tx_out,
                   irq_enable, host_inactive, timeout, isr>>

ReadSpin ==
    /\ At("r_spin")
    /\ call.old # rx_in \/ ~Connected
    /\ Goto("r_check")
    /\ UNCHANGED <<uartVars, ringVars, irq_enable, host_inactive, timeout, isr>>

ReadCheck ==
    /\ At("r_check")
    /\ IF call.old = rx_in THEN Return("EIO")
       ELSE call' = [call EXCEPT !.at = "r_look", !.old = 0]
    /\ UNCHANGED <<uartVars, ringVars, irq_enable, host_inactive, timeout, isr>>

\* Mutant of ReadKick: the enables are written back as they are.
ReadKickIdle ==
    /\ At("r_kick")
    /\ SetEnable(irq_enable)
    /\ Return("done")
    /\ UNCHANGED <<wfifo, rfifo, pause_irq, ac, ringVars, host_inactive, timeout, isr>>

\* With interrupts off.
ReadKick ==
    /\ At("r_kick")
    /\ SetEnable(irq_enable \cup {"RE"})
    /\ Return("done")
    /\ UNCHANGED <<wfifo, rfifo, pause_irq, ac, ringVars, host_inactive, timeout, isr>>

-----------------------------------------------------------------------------
\* altera_avalon_jtag_uart_close waits for the ring to empty.
CloseDrain ==
    /\ At("c_drain")
    /\ LET more == tx_out # tx_in /\ Connected
       IN  /\ more => call.nonblock
           /\ Return(IF more THEN "EWOULDBLOCK" ELSE "done")
    /\ UNCHANGED <<uartVars, ringVars, irq_enable, host_inactive, timeout, isr>>

\* ioctl TIOCSTIMEOUT
SetTimeout(t) ==
    /\ At("idle")
    /\ timeout' = t
    /\ UNCHANGED <<uartVars, ringVars, irq_enable, host_inactive, isr, call>>
=============================================================================
