------------------------------- MODULE Console -------------------------------
(***************************************************************************)
(* The console of the program: the JTAG UART, its driver, a thread that    *)
(* reads, writes and closes, blocking or not, and the host at the other    *)
(* end of the cable, which takes and sends bytes, polls, and may leave and *)
(* come back.                                                              *)
(*                                                                         *)
(* The bytes of each direction are numbered as in ByteStream; accepted,    *)
(* sent, reached and got are history variables.                            *)
(***************************************************************************)
EXTENDS JtagUartDriver

CONSTANT Traffic   \* sets of uses of the console, one of which a program makes

ASSUME TrafficAssumption == Traffic \subseteq SUBSET {"write", "close", "read", "send"}

VARIABLES
    uses,       \* what this program and its host do
    accepted,   \* the number of the next byte the thread hands over
    reached,    \* the number of the next byte to reach the host
    sent,       \* the number of the next byte of the host
    got,        \* the number of the next byte the thread gets
    present     \* the host is connected

history == <<accepted, reached, sent, got>>
hostVars == <<uses, history, present>>
vars == <<uartVars, driverVars, hostVars>>

From(b, n) == [i \in 1 .. n |-> (b + i - 1) % Numbers]

Init ==
    /\ UartInit
    /\ DriverInit
    /\ uses \in Traffic
    /\ accepted = 0 /\ reached = 0
    /\ sent = 0 /\ got = 0
    /\ present \in BOOLEAN

-----------------------------------------------------------------------------
Call ==
    /\ \E count \in {1, MaxCount}, nonblock \in BOOLEAN :
          \/ "write" \in uses /\ Begin("w_look", count, nonblock)
          \/ "read" \in uses /\ Begin("r_look", count, nonblock)
          \/ "close" \in uses /\ Begin("c_drain", 0, nonblock)
    /\ UNCHANGED hostVars

Copy ==
    /\ WriteCopy(From(accepted, call.n))
    /\ accepted' = (accepted + call.n) % Numbers
    /\ UNCHANGED <<uses, reached, sent, got, present>>

Get ==
    /\ ReadCopy
    /\ got' = (got + call.n) % Numbers
    /\ UNCHANGED <<uses, accepted, reached, sent, present>>

\* A byte of the host reaches the FIFO in the cycle in which the routine reads
\* it empty.
LateByte ==
    /\ present /\ "send" \in uses
    /\ IsrReceiveEnd(From(sent, 1))
    /\ sent' = (sent + 1) % Numbers
    /\ UNCHANGED <<uses, accepted, reached, got, present>>

Thread ==
    \/ Copy \/ Get
    \/ /\ \/ WriteLook \/ WriteKick \/ WriteSpin \/ WriteCheck
          \/ ReadLook \/ ReadFree \/ ReadSpin \/ ReadCheck \/ ReadKick
          \/ CloseDrain
       /\ UNCHANGED hostVars

Isr ==
    /\ \/ Interrupt \/ IsrControl \/ IsrReceive \/ IsrReceiveEnd(<<>>)
       \/ IsrTransmit \/ IsrTransmitEnd
    /\ UNCHANGED hostVars

Alarm == Timeout /\ UNCHANGED hostVars

Ioctl == (\E t \in Timeouts : SetTimeout(t)) /\ UNCHANGED hostVars

HostTake ==
    /\ present
    /\ HostTakes
    /\ reached' = (reached + 1) % Numbers
    /\ UNCHANGED <<rfifo, ien, pause_irq, ac, driverVars, uses, accepted, sent, got,
                   present>>

HostSend ==
    /\ present /\ "send" \in uses
    /\ HostSends(sent)
    /\ sent' = (sent + 1) % Numbers
    /\ UNCHANGED <<wfifo, ien, pause_irq, driverVars, uses, accepted, reached, got,
                   present>>

HostPause ==
    /\ present
    /\ HostPauses
    /\ UNCHANGED <<wfifo, rfifo, ien, driverVars, hostVars>>

\* The cable or the host's terminal program.
HostComesOrGoes ==
    /\ present' = ~present
    /\ UNCHANGED <<uartVars, driverVars, uses, history>>

Next ==
    \/ Call \/ Thread \/ Isr \/ LateByte \/ Alarm \/ Ioctl
    \/ HostTake \/ HostSend \/ HostPause \/ HostComesOrGoes

Spec == Init /\ [][Next]_vars

(***************************************************************************)
(* Fairness.  The processor runs the thread and the interrupt routine.     *)
(* The alarm's interrupt is taken sooner or later, although never inside   *)
(* another (strong, for it is disabled while the routine runs).  A host    *)
(* that is there, or comes back over and over, takes bytes and polls.      *)
(* Nothing is assumed of calls, of what the host sends, and of its coming. *)
(***************************************************************************)
Fairness ==
    /\ SF_vars(Thread)
    /\ WF_vars(Isr)
    /\ SF_vars(Alarm)
    /\ SF_vars(HostTake)
    /\ WF_vars(HostPause)

FairSpec == Spec /\ Fairness

-----------------------------------------------------------------------------
Ring(buf, out, in) ==
    [i \in 1 .. (in + BufLen - out) % BufLen |-> buf[(out + i - 1) % BufLen]]

Unsent == Ring(tx_buf, tx_out, tx_in)

\* Bytes the thread has copied but not yet freed are no longer unread.
Unread ==
    Ring(rx_buf, IF call.at = "r_free" THEN (rx_out + call.n) % BufLen ELSE rx_out,
         rx_in)

Output == INSTANCE ByteStream WITH
    Capacity <- BufLen - 1 + WriteDepth, offered <- accepted, queue <- wfifo \o Unsent,
    taken <- reached
Input == INSTANCE ByteStream WITH
    Capacity <- BufLen - 1 + ReadDepth, offered <- sent, queue <- Unread \o rfifo,
    taken <- got

\* Types of the device, the driver and the environment.
TypeOK ==
    /\ UartTypeOK
    /\ DriverTypeOK
    /\ uses \in Traffic
    /\ {accepted, reached, sent, got} \subseteq Byte
    /\ present \in BOOLEAN

\* What the thread writes reaches the host in order, complete and once, however
\* the interrupt routine overtakes the thread between its look at tx_out and its
\* update of tx_in (altera_avalon_jtag_uart_write.c:103-127, _init.c:169-195).
OutputInOrder == Output!Spec

\* What the host sends reaches the thread in order, complete and once, and no
\* byte is received into a place still to be read (_read.c:120-142,
\* _init.c:132-154).
InputInOrder == Input!Spec

\* Bytes in the transmit ring are never forgotten: the transmit interrupt is on
\* or the thread is about to turn it on (_write.c:136-139, _init.c:186-194).
UnsentIsKicked ==
    Unsent # <<>> => "WE" \in ien \/ call.at \in {"w_look", "w_copy", "w_kick"}

\* The receive interrupt is off only while there are bytes whose reader will
\* turn it on again, so a reader never waits for a byte that is not let in
\* (_init.c:156-166, _read.c:188-195).
ReceiverIsWoken ==
    "RE" \notin ien =>
        Unread # <<>> \/ call.at \in {"r_free", "r_kick"} \/ (call.at = "r_look" /\ call.done)

\* A write or a close ends, with the host there or not, and a read ends when the
\* host is gone for good, unless the time to wait is infinite
\* (_write.c:183-188, _read.c:173-178, _init.c:247-251).
Waiting ==
    \/ call.at \in WriteSteps \cup {"c_drain"}
    \/ call.at \in ReadSteps /\ ~present
CallsEnd == Waiting ~> ~Waiting \/ timeout > MaxInactive

\* A blocked read gets the byte that is in the device, however small the number
\* of bytes there (_init.c:125-167).
InputArrives ==
    call.at = "r_spin" /\ rfifo # <<>> ~> call.at # "r_spin" \/ ~present

\* While the host stays, every byte written reaches it (_init.c:169-195); the
\* bytes numbered 0 stand for all.
OutputArrives ==
    reached = 0 /\ wfifo \o Unsent # <<>> ~> reached # 0 \/ ~present

\* A write that saw the host take bytes while it waited does not fail with "Host
\* not connected" (_write.c:214) when TIOCGCONNECTED (_ioctl.c:70-77) says that
\* the host is.
ErrorMeansGone ==
    [][call.at = "w_check" /\ call'.result = "EIO" /\ call.old # tx_out => ~Connected]_vars
=============================================================================
