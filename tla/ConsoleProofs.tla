---------------------------- MODULE ConsoleProofs ----------------------------
(***************************************************************************)
(* Proofs about Console: its types, that neither direction of the driver   *)
(* forgets what lies in its ring, and that each direction implements       *)
(* ByteStream, for every size of FIFOs, rings and calls.                   *)
(***************************************************************************)
EXTENDS Console, ModularArithmetic, SequenceTheorems, TLAPS

(* An index that advances round the ring stays in it.                      *)
LEMMA IndexStays ==
    ASSUME NEW i \in Nat, NEW n \in Nat
    PROVE  (i + n) % BufLen \in Index
<1>1. i + n \in Nat /\ BufLen \in Nat \ {0}
  BY DriverAssumption
<1> QED
  BY <1>1, DivMod DEF Index

(* The next index is another one.                                          *)
LEMMA SuccMoves ==
    ASSUME NEW i \in Index
    PROVE  Succ(i) \in Index /\ Succ(i) # i
<1>1. BufLen \in Nat /\ BufLen > 1
  BY DriverAssumption
<1>2. CASE i + 1 < BufLen
  <2>1. (i + 1) % BufLen = i + 1
    BY <1>1, <1>2, ModSmall DEF Index
  <2> QED
    BY <1>1, <1>2, <2>1 DEF Index, Succ
<1>3. CASE i + 1 = BufLen
  <2>1. (i + 1) % BufLen = 0
    BY <1>1, <1>3, ModPlusModulus, 0 + BufLen = BufLen DEF Index
  <2> QED
    BY <1>1, <1>3, <2>1 DEF Index, Succ
<1> QED
  BY <1>1, <1>2, <1>3 DEF Index

(* How many bytes lie in a ring.                                           *)
LEMMA RingSize ==
    ASSUME NEW in \in Index, NEW out \in Index
    PROVE  (in + BufLen - out) % BufLen
             = IF in >= out THEN in - out ELSE in + BufLen - out
<1>1. BufLen \in Nat \ {0}
  BY DriverAssumption
<1>2. CASE in >= out
  <2>1. in - out \in 0 .. BufLen - 1
    BY <1>1, <1>2 DEF Index
  <2>2. in + BufLen - out = (in - out) + BufLen
    BY <1>1 DEF Index
  <2>3. ((in - out) + BufLen) % BufLen = in - out
    BY <1>1, <2>1, ModPlusModulus
  <2> QED
    BY <1>2, <2>2, <2>3
<1>3. CASE in < out
  <2>1. in + BufLen - out \in 0 .. BufLen - 1
    BY <1>1, <1>3 DEF Index
  <2>2. ~(in >= out)
    BY <1>3 DEF Index
  <2> QED
    BY <1>1, <2>1, <2>2, ModSmall
<1> QED
  BY <1>2, <1>3 DEF Index

(* A ring is empty exactly when its indexes meet.                          *)
LEMMA RingEmpty ==
    ASSUME NEW buf, NEW in \in Index, NEW out \in Index
    PROVE  Ring(buf, out, in) # <<>> <=> in # out
<1> DEFINE n == (in + BufLen - out) % BufLen
<1>1. n \in Nat /\ (n = 0 <=> in = out)
  BY RingSize, DriverAssumption DEF Index
<1>2. DOMAIN Ring(buf, out, in) = 1 .. n
  BY DEF Ring
<1>3. CASE n = 0
  <2>1. 1 .. n = {}
    BY <1>3
  <2>2. Ring(buf, out, in) = [i \in {} |-> buf[(out + i - 1) % BufLen]]
    BY <2>1 DEF Ring
  <2>3. Ring(buf, out, in) = <<>>
    BY <2>2
  <2> QED
    BY <1>1, <1>3, <2>3
<1>4. CASE n # 0
  <2>1. 1 \in 1 .. n
    BY <1>1, <1>4
  <2>2. DOMAIN << >> = {}
    OBVIOUS
  <2> QED
    BY <1>1, <1>2, <1>4, <2>1, <2>2
<1> QED
  BY <1>3, <1>4

(***************************************************************************)
(* The inductive invariant.                                                *)
(***************************************************************************)
\* The driver's copy of the enables is right, the device's interrupt of a pause
\* has bytes behind it, and a pass that receives has found some.
Enabled ==
    /\ ien = irq_enable
    /\ pause_irq => rfifo # <<>>
    /\ isr.at = "receive" => rfifo # <<>> \/ rx_in # rx_out

\* The locals of the thread and of the interrupt routine.
CallType ==
    [at : {"idle", "c_drain"} \cup WriteSteps \cup ReadSteps,
     nonblock : BOOLEAN, count : 0 .. MaxCount, done : BOOLEAN,
     old : Index, n : 0 .. MaxCount, result : {"done", "EWOULDBLOCK", "EIO"}]
IsrType ==
    [at : {"off", "control", "receive", "transmit"},
     wi : BOOLEAN, space : 0 .. WriteDepth, avail : BOOLEAN]

\* A piece is no larger than what is asked for, and a read that frees has some.
Pieces ==
    /\ call.at \in {"w_copy", "r_copy"} => call.n <= call.count
    /\ call.at = "r_free" => call.done

Kicked ==
    tx_in # tx_out => "WE" \in ien \/ call.at \in {"w_look", "w_copy", "w_kick"}

Woken ==
    "RE" \notin ien =>
        \/ rx_in # rx_out
        \/ call.at \in {"r_free", "r_kick"}
        \/ call.at = "r_look" /\ call.done

ConsoleInv == TypeOK /\ Enabled /\ Pieces /\ Kicked /\ Woken

LEMMA ConsoleInvInit == Init => ConsoleInv
<1> SUFFICES ASSUME Init PROVE ConsoleInv
  OBVIOUS
<1> USE UartAssumption, DriverAssumption, TrafficAssumption
<1>1. UartTypeOK
  <2>1. << >> \in Seq(Byte) /\ Len(<< >>) = 0
    OBVIOUS
  <2>2. ien \subseteq Enables
    BY DEF Init, DriverInit, Enables
  <2>3. wfifo = << >> /\ rfifo = << >>
    BY DEF Init, UartInit
  <2>4. pause_irq \in BOOLEAN /\ ac \in BOOLEAN
    BY Zenon DEF Init, UartInit
  <2> QED
    BY <2>1, <2>2, <2>3, <2>4 DEF UartTypeOK
<1>2. DriverTypeOK
  <2>1. 0 \in Index /\ 0 \in Byte /\ 0 \in 0 .. MaxCount
    BY DEF Index, Byte
  <2>2. isr \in IsrType
    BY DEF Init, DriverInit, NoIsr, IsrAt, IsrType
  <2>3. call \in CallType
    BY <2>1 DEF Init, DriverInit, Idle, CallType
  <2> QED
    BY <2>1, <2>2, <2>3 DEF Init, DriverInit, DriverTypeOK, Enables, CallType, IsrType
<1>3. TypeOK
  BY <1>1, <1>2 DEF Init, TypeOK, Byte
<1>4. Enabled /\ Pieces /\ Kicked /\ Woken
  BY DEF Init, UartInit, DriverInit, NoIsr, IsrAt, Idle, Enabled, Pieces, Kicked, Woken
<1> QED
  BY <1>3, <1>4 DEF ConsoleInv

-----------------------------------------------------------------------------
(***************************************************************************)
(* The thread.  Most of its steps change only its own locals.              *)
(***************************************************************************)
LEMMA OnlyTheCall ==
    ASSUME ConsoleInv, UNCHANGED <<uartVars, ringVars, irq_enable, host_inactive,
                                   timeout, isr, uses, present>>,
           {accepted', reached', sent', got'} \subseteq Byte,
           call' \in CallType, Pieces', Kicked', Woken'
    PROVE  ConsoleInv'
<1>1. UartTypeOK'
  BY DEF ConsoleInv, TypeOK, UartTypeOK, uartVars
<1>2. DriverTypeOK'
  BY DEF ConsoleInv, TypeOK, DriverTypeOK, ringVars, CallType
<1>3. Enabled'
  BY DEF ConsoleInv, Enabled, uartVars, ringVars
<1> QED
  BY <1>1, <1>2, <1>3 DEF ConsoleInv, TypeOK

LEMMA RoomIsThere ==
    ASSUME NEW in \in Index, NEW out \in Index
    PROVE  TxRoom(in, out) \in 0 .. BufLen /\ RxReady(in, out) \in 0 .. BufLen
  BY DriverAssumption DEF Index, TxRoom, RxReady

\* The history is unchanged by most steps.
LEMMA HistoryStays ==
    ASSUME ConsoleInv, UNCHANGED hostVars
    PROVE  UNCHANGED <<uses, present>> /\ {accepted', reached', sent', got'} \subseteq Byte
  BY DEF ConsoleInv, TypeOK, hostVars, history

LEMMA CallKeeps == ConsoleInv /\ Call => ConsoleInv'
<1> SUFFICES ASSUME ConsoleInv, Call PROVE ConsoleInv'
  OBVIOUS
<1>1. PICK step \in {"w_look", "r_look", "c_drain"}, count \in {0, 1, MaxCount},
           nonblock \in BOOLEAN : Begin(step, count, nonblock)
  BY DEF Call
<1>2. 0 \in Index /\ count \in 0 .. MaxCount /\ 0 \in 0 .. MaxCount
  BY DriverAssumption DEF Index
<1>3. call' = [at |-> step, nonblock |-> nonblock, count |-> count, done |-> FALSE,
               old |-> 0, n |-> 0, result |-> "done"]
  BY <1>1 DEF Begin, Idle
<1>4. call' \in CallType
  BY <1>2, <1>3 DEF CallType, WriteSteps, ReadSteps
<1>5. Pieces'
  BY <1>3 DEF Pieces
<1>6. UNCHANGED <<uartVars, ringVars, irq_enable, host_inactive, timeout, isr>>
      /\ call.at = "idle"
  BY <1>1 DEF Begin, At
<1>7. Kicked' /\ Woken'
  BY <1>6 DEF ConsoleInv, Kicked, Woken, uartVars, ringVars
<1> QED
  BY <1>4, <1>5, <1>6, <1>7, OnlyTheCall, HistoryStays DEF Call

\* Of a step that sets some fields of the thread's locals.
LEMMA ReturnType ==
    ASSUME NEW value \in {"done", "EWOULDBLOCK", "EIO"}, Return(value)
    PROVE  call' \in CallType /\ call'.at = "idle"
<1>1. 0 \in Index /\ 0 \in 0 .. MaxCount
  BY DriverAssumption DEF Index
<1> QED
  BY <1>1 DEF Return, Idle, CallType

LEMMA OutcomeType == Outcome \in {"done", "EWOULDBLOCK", "EIO"}
  BY DEF Outcome

(* A step of the thread that leaves the history alone and only moves call.  *)
LEMMA ThreadKeeps ==
    ASSUME ConsoleInv, UNCHANGED hostVars,
           UNCHANGED <<uartVars, ringVars, irq_enable, host_inactive, timeout, isr>>,
           call' \in CallType, Pieces',
           call.at \in {"w_look", "w_copy", "w_kick"} =>
               \/ tx_in = tx_out \/ "WE" \in ien
               \/ call'.at \in {"w_look", "w_copy", "w_kick"},
           (call.at \in {"r_free", "r_kick"} \/ (call.at = "r_look" /\ call.done))
              => \/ rx_in # rx_out
                 \/ call'.at \in {"r_free", "r_kick"} \/ (call'.at = "r_look" /\ call'.done)
    PROVE  ConsoleInv'
<1>1. Kicked'
  BY DEF ConsoleInv, Kicked, uartVars, ringVars
<1>2. Woken'
  BY DEF ConsoleInv, Woken, uartVars, ringVars
<1> QED
  BY <1>1, <1>2, OnlyTheCall, HistoryStays

LEMMA WriteLookKeeps == ConsoleInv /\ WriteLook /\ UNCHANGED hostVars => ConsoleInv'
<1> SUFFICES ASSUME ConsoleInv, WriteLook, UNCHANGED hostVars PROVE ConsoleInv'
  OBVIOUS
<1>1. call \in CallType /\ tx_in \in Index /\ tx_out \in Index
  BY DEF ConsoleInv, TypeOK, DriverTypeOK, CallType
<1> DEFINE n == TxRoom(tx_in, tx_out)
<1>2. n \in 0 .. BufLen
  BY <1>1, RoomIsThere
<1>3. CASE call.count = 0 \/ n = 0
  <2>1. \/ call' = [call EXCEPT !.at = "w_kick"]
        \/ call' = [call EXCEPT !.at = "w_kick", !.old = tx_out]
    BY <1>3 DEF WriteLook, Goto
  <2>2. call' \in CallType /\ call'.at = "w_kick"
    BY <1>1, <2>1 DEF CallType, WriteSteps
  <2> QED
    BY <2>2, ThreadKeeps DEF WriteLook, At, Pieces
<1>4. CASE call.count # 0 /\ n # 0
  <2> DEFINE m == Least(n, call.count)
  <2>1. m \in 0 .. MaxCount /\ m <= call.count
    BY <1>1, <1>2, DriverAssumption DEF Least, CallType
  <2>2. call' = [call EXCEPT !.at = "w_copy", !.n = m]
    BY <1>4 DEF WriteLook
  <2> HIDE DEF m
  <2>3. call' \in CallType /\ call'.at = "w_copy" /\ call'.n <= call'.count
    BY <1>1, <2>1, <2>2 DEF CallType, WriteSteps
  <2> QED
    BY <2>3, ThreadKeeps DEF WriteLook, At, Pieces
<1> QED
  BY <1>3, <1>4

LEMMA WriteSpinKeeps == ConsoleInv /\ WriteSpin /\ UNCHANGED hostVars => ConsoleInv'
<1> SUFFICES ASSUME ConsoleInv, WriteSpin, UNCHANGED hostVars PROVE ConsoleInv'
  OBVIOUS
<1>1. call' \in CallType /\ call'.at = "w_check"
  BY DEF ConsoleInv, TypeOK, DriverTypeOK, CallType, WriteSpin, Goto, WriteSteps
<1> QED
  BY <1>1, ThreadKeeps DEF WriteSpin, At, Pieces

LEMMA WriteCheckKeeps == ConsoleInv /\ WriteCheck /\ UNCHANGED hostVars => ConsoleInv'
<1> SUFFICES ASSUME ConsoleInv, WriteCheck, UNCHANGED hostVars PROVE ConsoleInv'
  OBVIOUS
<1>1. CASE host_inactive > 0
  BY <1>1, ReturnType, OutcomeType, ThreadKeeps DEF WriteCheck, At, Pieces
<1>2. CASE ~(host_inactive > 0)
  <2>1. call' = [call EXCEPT !.at = "w_look", !.old = 0]
    BY <1>2 DEF WriteCheck
  <2>2. call \in CallType /\ 0 \in Index
    BY DriverAssumption DEF ConsoleInv, TypeOK, DriverTypeOK, CallType, Index
  <2>3. call' \in CallType /\ call'.at = "w_look"
    BY <2>1, <2>2 DEF CallType, WriteSteps
  <2> QED
    BY <2>3, ThreadKeeps DEF WriteCheck, At, Pieces
<1> QED
  BY <1>1, <1>2

LEMMA ReadLookKeeps == ConsoleInv /\ ReadLook /\ UNCHANGED hostVars => ConsoleInv'
<1> SUFFICES ASSUME ConsoleInv, ReadLook, UNCHANGED hostVars PROVE ConsoleInv'
  OBVIOUS
<1>1. call \in CallType /\ rx_in \in Index /\ rx_out \in Index
  BY DEF ConsoleInv, TypeOK, DriverTypeOK, CallType
<1> DEFINE n == RxReady(rx_in, rx_out)
<1>2. n \in 0 .. BufLen
  BY <1>1, RoomIsThere
<1>3. CASE n > 0
  <2>1. rx_in # rx_out
    BY <1>1, <1>3 DEF RxReady, Index
  <2> DEFINE m == Least(n, call.count)
  <2>2. m \in 0 .. MaxCount /\ m <= call.count
    BY <1>1, <1>2, DriverAssumption DEF Least, CallType
  <2>3. call' = [call EXCEPT !.n = m, !.at = "r_copy"]
    BY <1>3 DEF ReadLook
  <2> HIDE DEF m
  <2>4. call' \in CallType /\ call'.at = "r_copy" /\ call'.n <= call'.count
    BY <1>1, <2>2, <2>3 DEF CallType, ReadSteps
  <2> QED
    BY <2>1, <2>4, ThreadKeeps DEF ReadLook, At, Pieces
<1>4. CASE ~(n > 0) /\ call.done
  <2>1. call' \in CallType /\ call'.at = "r_kick"
    BY <1>1, <1>4 DEF CallType, ReadSteps, ReadLook, Goto
  <2> QED
    BY <2>1, ThreadKeeps DEF ReadLook, At, Pieces
<1>5. CASE ~(n > 0) /\ ~call.done /\ call.nonblock
  <2>1. Return("EWOULDBLOCK")
    BY <1>5 DEF ReadLook
  <2> QED
    BY <1>5, <2>1, ReturnType, ThreadKeeps DEF ReadLook, At, Pieces
<1>6. CASE ~(n > 0) /\ ~call.done /\ ~call.nonblock
  <2>1. call' = [call EXCEPT !.old = rx_in, !.at = "r_spin"]
    BY <1>6 DEF ReadLook
  <2>2. call' \in CallType /\ call'.at = "r_spin"
    BY <1>1, <2>1 DEF CallType, ReadSteps
  <2> QED
    BY <1>6, <2>2, ThreadKeeps DEF ReadLook, At, Pieces
<1> QED
  BY <1>3, <1>4, <1>5, <1>6

LEMMA ReadSpinKeeps == ConsoleInv /\ ReadSpin /\ UNCHANGED hostVars => ConsoleInv'
<1> SUFFICES ASSUME ConsoleInv, ReadSpin, UNCHANGED hostVars PROVE ConsoleInv'
  OBVIOUS
<1>1. call' \in CallType /\ call'.at = "r_check"
  BY DEF ConsoleInv, TypeOK, DriverTypeOK, CallType, ReadSpin, Goto, ReadSteps
<1> QED
  BY <1>1, ThreadKeeps DEF ReadSpin, At, Pieces

LEMMA ReadCheckKeeps == ConsoleInv /\ ReadCheck /\ UNCHANGED hostVars => ConsoleInv'
<1> SUFFICES ASSUME ConsoleInv, ReadCheck, UNCHANGED hostVars PROVE ConsoleInv'
  OBVIOUS
<1>1. CASE call.old = rx_in
  BY <1>1, ReturnType, ThreadKeeps DEF ReadCheck, At, Pieces
<1>2. CASE call.old # rx_in
  <2>1. call' = [call EXCEPT !.at = "r_look", !.old = 0]
    BY <1>2 DEF ReadCheck
  <2>2. call \in CallType /\ 0 \in Index
    BY DriverAssumption DEF ConsoleInv, TypeOK, DriverTypeOK, CallType, Index
  <2>3. call' \in CallType /\ call'.at = "r_look"
    BY <2>1, <2>2 DEF CallType, ReadSteps
  <2> QED
    BY <2>3, ThreadKeeps DEF ReadCheck, At, Pieces
<1> QED
  BY <1>1, <1>2

LEMMA CloseDrainKeeps == ConsoleInv /\ CloseDrain /\ UNCHANGED hostVars => ConsoleInv'
<1> SUFFICES ASSUME ConsoleInv, CloseDrain, UNCHANGED hostVars PROVE ConsoleInv'
  OBVIOUS
<1>1. Return("done") \/ Return("EWOULDBLOCK")
  BY DEF CloseDrain
<1>2. call' \in CallType /\ call'.at = "idle"
  BY <1>1, ReturnType
<1> QED
  BY <1>2, ThreadKeeps DEF CloseDrain, At, Pieces

LEMMA KickKeeps ==
    ASSUME ConsoleInv, UNCHANGED hostVars,
           \/ call.at = "w_kick" /\ SetEnable(irq_enable \cup {"WE"})
           \/ call.at = "r_kick" /\ SetEnable(irq_enable \cup {"RE"}),
           UNCHANGED <<wfifo, rfifo, pause_irq, ac, ringVars, host_inactive, timeout, isr>>,
           call' \in CallType, Pieces'
    PROVE  ConsoleInv'
<1>1. /\ ien' = irq_enable' /\ ien \subseteq ien' /\ ien' \subseteq Enables
      /\ call.at = "w_kick" => "WE" \in ien'
      /\ call.at = "r_kick" => "RE" \in ien'
      /\ call.at \in {"w_kick", "r_kick"}
  BY DEF SetEnable, ConsoleInv, TypeOK, UartTypeOK, Enabled, Enables
<1>2. UartTypeOK'
  BY <1>1 DEF ConsoleInv, TypeOK, UartTypeOK
<1>3. DriverTypeOK'
  BY <1>1 DEF ConsoleInv, TypeOK, DriverTypeOK, ringVars, CallType
<1>4. Enabled'
  BY <1>1 DEF ConsoleInv, Enabled, ringVars
<1>5. Kicked'
  BY <1>1 DEF ConsoleInv, Kicked, ringVars
<1>6. Woken'
  BY <1>1 DEF ConsoleInv, Woken, ringVars
<1> QED
  BY <1>2, <1>3, <1>4, <1>5, <1>6, HistoryStays DEF ConsoleInv, TypeOK

LEMMA WriteKickKeeps == ConsoleInv /\ WriteKick /\ UNCHANGED hostVars => ConsoleInv'
<1> SUFFICES ASSUME ConsoleInv, WriteKick, UNCHANGED hostVars PROVE ConsoleInv'
  OBVIOUS
<1>1. call' \in CallType /\ call'.at \in {"idle", "w_spin"}
  <2>1. CASE call.count = 0 \/ call.nonblock
    BY <2>1, ReturnType, OutcomeType DEF WriteKick
  <2>2. CASE ~(call.count = 0 \/ call.nonblock)
    BY <2>2 DEF ConsoleInv, TypeOK, DriverTypeOK, CallType, WriteKick, Goto, WriteSteps
  <2> QED
    BY <2>1, <2>2
<1>2. Pieces'
  BY <1>1 DEF Pieces
<1>3. call.at = "w_kick"
  BY DEF WriteKick, At
<1>4. /\ SetEnable(irq_enable \cup {"WE"})
      /\ UNCHANGED <<wfifo, rfifo, pause_irq, ac, ringVars, host_inactive, timeout, isr>>
  BY DEF WriteKick
<1> QED
  BY <1>1, <1>2, <1>3, <1>4, KickKeeps

LEMMA ReadKickKeeps == ConsoleInv /\ ReadKick /\ UNCHANGED hostVars => ConsoleInv'
<1> SUFFICES ASSUME ConsoleInv, ReadKick, UNCHANGED hostVars PROVE ConsoleInv'
  OBVIOUS
<1>1. call' \in CallType /\ call'.at = "idle"
  BY ReturnType DEF ReadKick
<1>2. Pieces'
  BY <1>1 DEF Pieces
<1>3. call.at = "r_kick"
  BY DEF ReadKick, At
<1> QED
  BY <1>1, <1>2, <1>3, KickKeeps DEF ReadKick

LEMMA ReadFreeKeeps == ConsoleInv /\ ReadFree /\ UNCHANGED hostVars => ConsoleInv'
<1> SUFFICES ASSUME ConsoleInv, ReadFree, UNCHANGED hostVars PROVE ConsoleInv'
  OBVIOUS
<1>1. call \in CallType /\ rx_out \in Index /\ call.done /\ 0 \in 0 .. MaxCount
  BY DriverAssumption
     DEF ConsoleInv, TypeOK, DriverTypeOK, CallType, Pieces, ReadFree, At
<1>2. rx_out' \in Index
  BY <1>1, IndexStays, DriverAssumption DEF ReadFree, CallType, Index
<1>3. \/ call' = [call EXCEPT !.at = "r_look", !.n = 0]
      \/ call' = [call EXCEPT !.at = "r_kick", !.n = 0]
  BY DEF ReadFree
<1>4. call' \in CallType /\ ((call'.at = "r_look" /\ call'.done) \/ call'.at = "r_kick")
  BY <1>1, <1>3 DEF CallType, ReadSteps
<1>5. UartTypeOK'
  BY DEF ReadFree, ConsoleInv, TypeOK, UartTypeOK, uartVars
<1>6. DriverTypeOK'
  BY <1>2, <1>4 DEF ReadFree, ConsoleInv, TypeOK, DriverTypeOK, CallType
<1>7. Enabled'
  BY DEF ReadFree, At, ConsoleInv, Enabled, uartVars
<1>8. Pieces' /\ Woken'
  BY <1>4 DEF Pieces, Woken
<1>9. Kicked'
  BY DEF ReadFree, At, ConsoleInv, Kicked, uartVars
<1> QED
  BY <1>5, <1>6, <1>7, <1>8, <1>9, HistoryStays DEF ConsoleInv, TypeOK

(* The numbers of the next n bytes are bytes.                              *)
LEMMA NumbersAreBytes ==
    ASSUME NEW b \in Byte, NEW n \in Nat
    PROVE  (b + n) % Numbers \in Byte /\ From(b, n) \in [1 .. n -> Byte]
<1>1. Numbers \in Nat \ {0}
  BY UartAssumption
<1>2. \A k \in Nat : (b + k) % Numbers \in Byte
  BY <1>1, DivMod DEF Byte
<1>3. ASSUME NEW i \in 1 .. n PROVE (b + i - 1) % Numbers \in Byte
  <2>1. i - 1 \in Nat /\ b + (i - 1) = b + i - 1
    BY <1>1 DEF Byte
  <2> QED
    BY <1>2, <2>1
<1> QED
  BY <1>2, <1>3 DEF From

LEMMA CopyKeeps == ConsoleInv /\ Copy => ConsoleInv'
<1> SUFFICES ASSUME ConsoleInv, Copy PROVE ConsoleInv'
  OBVIOUS
<1> DEFINE bytes == From(accepted, call.n)
<1>1. WriteCopy(bytes)
  BY DEF Copy
<1>2. /\ call \in CallType /\ tx_in \in Index /\ accepted \in Byte
      /\ tx_buf \in [Index -> Byte] /\ call.n <= call.count
  BY <1>1 DEF ConsoleInv, TypeOK, DriverTypeOK, CallType, Pieces, WriteCopy, At
<1>3. call.n \in Nat /\ call.count \in 0 .. MaxCount /\ tx_in \in Nat
  BY <1>2, DriverAssumption DEF CallType, Index
<1>4. bytes \in [1 .. call.n -> Byte] /\ accepted' \in Byte
  BY <1>2, <1>3, NumbersAreBytes DEF Copy
<1> HIDE DEF bytes
<1>5. tx_buf' \in [Index -> Byte]
  <2>1. ASSUME NEW i \in Index, i \in tx_in .. tx_in + call.n - 1
        PROVE  bytes[i - tx_in + 1] \in Byte
    <3>1. i - tx_in + 1 \in 1 .. call.n
      BY <1>3, <2>1
    <3> QED
      BY <1>4, <3>1
  <2> QED
    BY <1>1, <1>2, <2>1 DEF WriteCopy
<1>6. tx_in' \in Index
  BY <1>1, <1>3, IndexStays DEF WriteCopy
<1>7. call' = [call EXCEPT !.at = "w_look", !.count = call.count - call.n,
                           !.done = TRUE, !.n = 0]
  BY <1>1 DEF WriteCopy
<1>8. call' \in CallType /\ call'.at = "w_look"
  <2>1. call.count - call.n \in 0 .. MaxCount /\ 0 \in 0 .. MaxCount
    BY <1>2, <1>3, DriverAssumption
  <2> QED
    BY <1>2, <1>7, <2>1 DEF CallType, WriteSteps
<1>9. UNCHANGED <<uartVars, rx_buf, rx_in, rx_out, tx_out, irq_enable, host_inactive,
                  timeout, isr, uses, reached, sent, got, present>>
      /\ call.at = "w_copy"
  BY <1>1 DEF WriteCopy, Copy, At
<1>10. UartTypeOK'
  BY <1>9 DEF ConsoleInv, TypeOK, UartTypeOK, uartVars
<1>11. DriverTypeOK'
  BY <1>5, <1>6, <1>8, <1>9 DEF ConsoleInv, TypeOK, DriverTypeOK, CallType
<1>12. Enabled' /\ Pieces' /\ Kicked'
  BY <1>8, <1>9 DEF ConsoleInv, Enabled, Pieces, Kicked, uartVars
<1>13. Woken'
  BY <1>9 DEF ConsoleInv, Woken, uartVars
<1> QED
  BY <1>4, <1>9, <1>10, <1>11, <1>12, <1>13 DEF ConsoleInv, TypeOK

LEMMA GetKeeps == ConsoleInv /\ Get => ConsoleInv'
<1> SUFFICES ASSUME ConsoleInv, Get PROVE ConsoleInv'
  OBVIOUS
<1>1. call \in CallType /\ got \in Byte /\ call.n <= call.count
  BY DEF ConsoleInv, TypeOK, DriverTypeOK, CallType, Pieces, Get, ReadCopy, At
<1>2. call.n \in Nat /\ call.count - call.n \in 0 .. MaxCount
  BY <1>1, DriverAssumption DEF CallType
<1>3. call' = [call EXCEPT !.at = "r_free", !.count = call.count - call.n, !.done = TRUE]
  BY DEF Get, ReadCopy
<1>4. call' \in CallType /\ call'.at = "r_free" /\ call'.done
  BY <1>1, <1>2, <1>3 DEF CallType, ReadSteps
<1>5. got' \in Byte
  BY <1>1, <1>2, NumbersAreBytes DEF Get
<1>6. UNCHANGED <<uartVars, ringVars, irq_enable, host_inactive, timeout, isr,
                  uses, accepted, reached, sent, present>> /\ call.at = "r_copy"
  BY DEF Get, ReadCopy, At
<1>7. Pieces' /\ Woken'
  BY <1>4 DEF Pieces, Woken
<1>8. Kicked'
  BY <1>6 DEF ConsoleInv, Kicked, uartVars, ringVars
<1>9. {accepted', reached', sent', got'} \subseteq Byte
  BY <1>5, <1>6 DEF ConsoleInv, TypeOK
<1> QED
  BY <1>4, <1>6, <1>7, <1>8, <1>9, OnlyTheCall

-----------------------------------------------------------------------------
(***************************************************************************)
(* The interrupt routine.                                                  *)
(***************************************************************************)
(* A pending interrupt to receive has bytes behind it.                     *)
LEMMA PendingHasBytes ==
    ASSUME ConsoleInv, ReadPending
    PROVE  rfifo # << >>
<1>1. CASE pause_irq
  BY <1>1 DEF ConsoleInv, Enabled
<1>2. CASE ReadDepth - Len(rfifo) <= Threshold
  <2>1. Len(<< >>) = 0 /\ ReadDepth \in Nat /\ Threshold \in Nat /\ Threshold < ReadDepth
    BY UartAssumption
  <2>2. ASSUME rfifo = << >> PROVE FALSE
    BY <1>2, <2>1, <2>2
  <2> QED
    BY <2>2
<1> QED
  BY <1>1, <1>2 DEF ReadPending

LEMMA PassKeeps == ConsoleInv /\ Pass /\ UNCHANGED hostVars => ConsoleInv'
<1> SUFFICES ASSUME ConsoleInv, Pass, UNCHANGED hostVars PROVE ConsoleInv'
  OBVIOUS
<1>1. WriteSpace \in 0 .. WriteDepth
  <2>1. Len(wfifo) \in Nat /\ Len(wfifo) <= WriteDepth /\ WriteDepth \in Nat
    BY UartAssumption, LenProperties DEF ConsoleInv, TypeOK, UartTypeOK
  <2> QED
    BY <2>1 DEF WriteSpace
<1>2. WritePending \in BOOLEAN /\ ReadPending \in BOOLEAN
  BY Zenon DEF WritePending, ReadPending
<1>3. isr' \in IsrType /\ (isr'.at = "receive" => ReadPending)
  <2>1. CASE Interrupting /\ ReadPending
    <3>1. isr' = [at |-> "receive", wi |-> WritePending, space |-> WriteSpace,
                  avail |-> ReadPending]
      BY <2>1 DEF Pass
    <3> QED
      BY <1>1, <1>2, <2>1, <3>1 DEF IsrType
  <2>2. CASE Interrupting /\ ~ReadPending
    <3>1. isr' = [at |-> "transmit", wi |-> WritePending, space |-> WriteSpace,
                  avail |-> ReadPending]
      BY <2>2 DEF Pass
    <3> QED
      BY <1>1, <1>2, <3>1 DEF IsrType
  <2>3. CASE ~Interrupting
    <3>1. 0 \in 0 .. WriteDepth
      BY UartAssumption
    <3> QED
      BY <2>3, <3>1 DEF Pass, NoIsr, IsrAt, IsrType
  <2> QED
    BY <2>1, <2>2, <2>3
<1>4. UNCHANGED <<uartVars, ringVars, irq_enable, host_inactive, timeout, call>>
  BY DEF Pass
<1>5. UartTypeOK'
  BY <1>4 DEF ConsoleInv, TypeOK, UartTypeOK, uartVars
<1>6. DriverTypeOK'
  BY <1>3, <1>4 DEF ConsoleInv, TypeOK, DriverTypeOK, ringVars, IsrType
<1>7. Enabled'
  <2>1. isr'.at = "receive" => rfifo # << >>
    BY <1>3, PendingHasBytes
  <2> QED
    BY <1>4, <2>1 DEF ConsoleInv, Enabled, uartVars, ringVars
<1>8. Pieces' /\ Kicked' /\ Woken'
  BY <1>4 DEF ConsoleInv, Pieces, Kicked, Woken, uartVars, ringVars
<1> QED
  BY <1>5, <1>6, <1>7, <1>8, HistoryStays DEF ConsoleInv, TypeOK

LEMMA IsrReceiveKeeps == ConsoleInv /\ IsrReceive /\ UNCHANGED hostVars => ConsoleInv'
<1> SUFFICES ASSUME ConsoleInv, IsrReceive, UNCHANGED hostVars PROVE ConsoleInv'
  OBVIOUS
<1>1. /\ rx_in \in Index /\ rx_buf \in [Index -> Byte] /\ isr \in IsrType
      /\ rfifo \in Seq(Byte) /\ rfifo # << >> /\ Len(rfifo) <= ReadDepth
      /\ ReadDepth \in Nat
  BY UartAssumption
     DEF ConsoleInv, TypeOK, UartTypeOK, DriverTypeOK, IsrType, IsrReceive
<1>2. Head(rfifo) \in Byte /\ Tail(rfifo) \in Seq(Byte) /\ Len(Tail(rfifo)) <= ReadDepth
  BY <1>1, HeadTailProperties, LenProperties
<1>3. rfifo' = Tail(rfifo) /\ pause_irq' = FALSE
  BY DEF IsrReceive, ReadData
<1>4. rx_in' \in Index /\ rx_in' # rx_out
  BY <1>1, SuccMoves DEF IsrReceive, RxFull
<1>5. rx_buf' \in [Index -> Byte]
  BY <1>1, <1>2 DEF IsrReceive
<1>6. isr' \in IsrType
  <2>1. (rfifo' # << >>) \in BOOLEAN
    OBVIOUS
  <2>2. isr' = [isr EXCEPT !.avail = (rfifo' # << >>)]
    BY DEF IsrReceive
  <2> QED
    BY <1>1, <2>1, <2>2 DEF IsrType
<1>7. UNCHANGED <<wfifo, ien, ac, rx_out, tx_buf, tx_in, tx_out, irq_enable,
                  host_inactive, timeout, call>>
  BY DEF IsrReceive
<1>8. UartTypeOK'
  BY <1>2, <1>3, <1>7 DEF ConsoleInv, TypeOK, UartTypeOK
<1>9. DriverTypeOK'
  BY <1>4, <1>5, <1>6, <1>7 DEF ConsoleInv, TypeOK, DriverTypeOK, IsrType
<1>10. Enabled' /\ Pieces' /\ Kicked' /\ Woken'
  BY <1>3, <1>4, <1>7 DEF ConsoleInv, Enabled, Pieces, Kicked, Woken
<1> QED
  BY <1>8, <1>9, <1>10, HistoryStays DEF ConsoleInv, TypeOK

\* The byte that arrives late, if any, is one of the host's.
LEMMA IsrReceiveEndKeeps ==
    ASSUME ConsoleInv, NEW late \in Seq(Byte), Len(late) <= ReadDepth,
           IsrReceiveEnd(late), UNCHANGED <<uses, present>>,
           {accepted', reached', sent', got'} \subseteq Byte
    PROVE  ConsoleInv'
<1>1. isr \in IsrType /\ {rx_in, rx_out} \subseteq Index
  BY DEF ConsoleInv, TypeOK, DriverTypeOK, IsrType
<1>2. PICK avail \in BOOLEAN :
           /\ EndReceive(avail)
           /\ avail => rx_in # rx_out
           /\ \/ UNCHANGED <<rfifo, pause_irq, ac>>
              \/ rfifo' = late /\ pause_irq' = FALSE /\ ac' \in BOOLEAN
  <2>1. CASE RxFull /\ EndReceive(isr.avail) /\ UNCHANGED <<rfifo, pause_irq, ac>>
    <3>1. rx_in # rx_out
      BY <1>1, <2>1, SuccMoves DEF RxFull
    <3>2. isr.avail \in BOOLEAN
      BY <1>1 DEF IsrType
    <3> QED
      BY <2>1, <3>1, <3>2
  <2>2. CASE rfifo = << >> /\ ReadNothing(late) /\ EndReceive(late # << >>)
    <3>1. rx_in # rx_out
      BY <2>2 DEF ConsoleInv, Enabled, IsrReceiveEnd
    <3>2. rfifo' = late /\ pause_irq' = FALSE /\ ac' \in BOOLEAN
      BY <2>2, Zenon DEF ReadNothing
    <3>3. (late # << >>) \in BOOLEAN
      OBVIOUS
    <3> QED
      BY <2>2, <3>1, <3>2, <3>3
  <2> QED
    BY <2>1, <2>2 DEF IsrReceiveEnd
<1>3. UNCHANGED <<wfifo, ringVars, host_inactive, timeout, call>>
  BY DEF IsrReceiveEnd
<1>4. /\ ien' = irq_enable' /\ ien' \subseteq Enables
      /\ "WE" \in ien => "WE" \in ien'
      /\ "RE" \notin ien' => "RE" \notin ien \/ rx_in # rx_out
  BY <1>2 DEF EndReceive, SetEnable, ConsoleInv, Enabled, TypeOK, UartTypeOK
<1>5. isr' \in IsrType /\ isr'.at # "receive"
  <2>1. isr' = [isr EXCEPT !.at = "transmit", !.avail = FALSE] \/ isr' = IsrAt("control")
    BY <1>2 DEF EndReceive
  <2>2. 0 \in 0 .. WriteDepth
    BY UartAssumption
  <2> QED
    <3>1. CASE isr' = [isr EXCEPT !.at = "transmit", !.avail = FALSE]
      BY <1>1, <3>1 DEF IsrType
    <3>2. CASE isr' = IsrAt("control")
      BY <2>2, <3>2 DEF IsrType, IsrAt
    <3> QED
      BY <2>1, <3>1, <3>2
<1>6. UartTypeOK'
  BY <1>2, <1>3, <1>4 DEF ConsoleInv, TypeOK, UartTypeOK
<1>7. DriverTypeOK'
  BY <1>3, <1>4, <1>5 DEF ConsoleInv, TypeOK, DriverTypeOK, ringVars, IsrType
<1>8. Enabled'
  BY <1>2, <1>4, <1>5 DEF ConsoleInv, Enabled
<1>9. Pieces' /\ Kicked' /\ Woken'
  BY <1>3, <1>4 DEF ConsoleInv, Pieces, Kicked, Woken, ringVars
<1> QED
  BY <1>6, <1>7, <1>8, <1>9 DEF ConsoleInv, TypeOK

LEMMA IsrTransmitKeeps == ConsoleInv /\ IsrTransmit /\ UNCHANGED hostVars => ConsoleInv'
<1> SUFFICES ASSUME ConsoleInv, IsrTransmit, UNCHANGED hostVars PROVE ConsoleInv'
  OBVIOUS
<1>1. /\ tx_out \in Index /\ tx_buf \in [Index -> Byte] /\ isr \in IsrType
      /\ wfifo \in Seq(Byte) /\ Len(wfifo) \in Nat /\ Len(wfifo) <= WriteDepth
      /\ WriteDepth \in Nat
  BY UartAssumption, LenProperties DEF ConsoleInv, TypeOK, UartTypeOK, DriverTypeOK, IsrType
<1>2. tx_buf[tx_out] \in Byte /\ tx_out' \in Index
  BY <1>1, SuccMoves DEF IsrTransmit
<1>3. wfifo' \in Seq(Byte) /\ Len(wfifo') <= WriteDepth
  <2>1. CASE Len(wfifo) < WriteDepth
    <3>1. wfifo' = Append(wfifo, tx_buf[tx_out])
      BY <2>1 DEF IsrTransmit, WriteData
    <3> QED
      BY <1>1, <1>2, <2>1, <3>1, AppendProperties
  <2>2. CASE ~(Len(wfifo) < WriteDepth)
    BY <1>1, <2>2 DEF IsrTransmit, WriteData
  <2> QED
    BY <2>1, <2>2
<1>4. isr' \in IsrType /\ isr'.at = isr.at
  <2>1. isr.space - 1 \in 0 .. WriteDepth
    BY <1>1 DEF IsrTransmit, IsrType
  <2>2. isr' = [isr EXCEPT !.space = isr.space - 1]
    BY DEF IsrTransmit
  <2> QED
    BY <1>1, <2>1, <2>2 DEF IsrType
<1>5. UNCHANGED <<rfifo, ien, pause_irq, ac, rx_buf, rx_in, rx_out, tx_buf, tx_in,
                  irq_enable, host_inactive, timeout, call>> /\ tx_out # tx_in
  BY DEF IsrTransmit
<1>6. UartTypeOK'
  BY <1>3, <1>5 DEF ConsoleInv, TypeOK, UartTypeOK
<1>7. DriverTypeOK'
  BY <1>2, <1>4, <1>5 DEF ConsoleInv, TypeOK, DriverTypeOK, IsrType
<1>8. Enabled' /\ Pieces' /\ Kicked' /\ Woken'
  BY <1>4, <1>5 DEF ConsoleInv, Enabled, Pieces, Kicked, Woken
<1> QED
  BY <1>6, <1>7, <1>8, HistoryStays DEF ConsoleInv, TypeOK

LEMMA IsrTransmitEndKeeps ==
    ConsoleInv /\ IsrTransmitEnd /\ UNCHANGED hostVars => ConsoleInv'
<1> SUFFICES ASSUME ConsoleInv, IsrTransmitEnd, UNCHANGED hostVars PROVE ConsoleInv'
  OBVIOUS
<1>1. isr.space \in 0 .. WriteDepth /\ WriteDepth \in Nat
  BY UartAssumption DEF ConsoleInv, TypeOK, DriverTypeOK
<1>2. /\ ien' = irq_enable' /\ ien' \subseteq Enables
      /\ "RE" \in ien => "RE" \in ien'
      /\ "WE" \in ien => "WE" \in ien' \/ tx_in = tx_out
  BY <1>1 DEF IsrTransmitEnd, SetEnable, ConsoleInv, Enabled, TypeOK, UartTypeOK
<1>3. isr' \in IsrType /\ isr'.at = "control"
  BY <1>1 DEF IsrTransmitEnd, IsrAt, IsrType
<1>4. UNCHANGED <<wfifo, rfifo, pause_irq, ac, ringVars, host_inactive, timeout, call>>
  BY DEF IsrTransmitEnd
<1>5. UartTypeOK'
  BY <1>2, <1>4 DEF ConsoleInv, TypeOK, UartTypeOK
<1>6. DriverTypeOK'
  BY <1>2, <1>3, <1>4 DEF ConsoleInv, TypeOK, DriverTypeOK, ringVars, IsrType
<1>7. Enabled'
  BY <1>2, <1>3, <1>4 DEF ConsoleInv, Enabled
<1>8. Pieces' /\ Kicked' /\ Woken'
  BY <1>2, <1>4 DEF ConsoleInv, Pieces, Kicked, Woken, ringVars
<1> QED
  BY <1>5, <1>6, <1>7, <1>8, HistoryStays DEF ConsoleInv, TypeOK

-----------------------------------------------------------------------------
(***************************************************************************)
(* The alarm, ioctl and the host.                                          *)
(***************************************************************************)
LEMMA AlarmKeeps == ConsoleInv /\ Alarm => ConsoleInv'
<1> SUFFICES ASSUME ConsoleInv, Alarm PROVE ConsoleInv'
  OBVIOUS
<1>1. host_inactive' \in 0 .. MaxInactive
  <2>1. host_inactive \in 0 .. MaxInactive /\ MaxInactive \in Nat
    BY DriverAssumption DEF ConsoleInv, TypeOK, DriverTypeOK
  <2> QED
    BY <2>1 DEF Alarm, Timeout
<1>2. ien' = ien /\ irq_enable' = irq_enable /\ ac' = FALSE
  BY DEF Alarm, Timeout, ConsoleInv, Enabled
<1>3. UNCHANGED <<wfifo, rfifo, pause_irq, ringVars, timeout, isr, call>>
      /\ UNCHANGED hostVars
  BY DEF Alarm, Timeout
<1>4. UartTypeOK'
  BY <1>2, <1>3 DEF ConsoleInv, TypeOK, UartTypeOK
<1>5. DriverTypeOK'
  BY <1>1, <1>2, <1>3 DEF ConsoleInv, TypeOK, DriverTypeOK, ringVars
<1>6. Enabled' /\ Pieces' /\ Kicked' /\ Woken'
  BY <1>2, <1>3 DEF ConsoleInv, Enabled, Pieces, Kicked, Woken, ringVars
<1> QED
  BY <1>3, <1>4, <1>5, <1>6, HistoryStays DEF ConsoleInv, TypeOK

LEMMA IoctlKeeps == ConsoleInv /\ Ioctl => ConsoleInv'
<1> SUFFICES ASSUME ConsoleInv, Ioctl PROVE ConsoleInv'
  OBVIOUS
<1>1. timeout' \in Timeouts
  BY DEF Ioctl, SetTimeout
<1>2. UNCHANGED <<uartVars, ringVars, irq_enable, host_inactive, isr, call>>
      /\ UNCHANGED hostVars
  BY DEF Ioctl, SetTimeout
<1>3. UartTypeOK'
  BY <1>2 DEF ConsoleInv, TypeOK, UartTypeOK, uartVars
<1>4. DriverTypeOK'
  BY <1>1, <1>2 DEF ConsoleInv, TypeOK, DriverTypeOK, ringVars
<1>5. Enabled' /\ Pieces' /\ Kicked' /\ Woken'
  BY <1>2 DEF ConsoleInv, Enabled, Pieces, Kicked, Woken, uartVars, ringVars
<1> QED
  BY <1>2, <1>3, <1>4, <1>5, HistoryStays DEF ConsoleInv, TypeOK

LEMMA HostKeeps ==
    ASSUME ConsoleInv, UNCHANGED <<ien, driverVars>>, UartTypeOK', uses' = uses,
           {accepted', reached', sent', got'} \subseteq Byte, present' \in BOOLEAN,
           pause_irq' => rfifo' # << >>, rfifo # << >> => rfifo' # << >>
    PROVE  ConsoleInv'
<1>1. DriverTypeOK'
  BY DEF ConsoleInv, TypeOK, DriverTypeOK, driverVars, ringVars
<1>2. Enabled' /\ Pieces' /\ Kicked' /\ Woken'
  BY DEF ConsoleInv, Enabled, Pieces, Kicked, Woken, driverVars, ringVars
<1> QED
  BY <1>1, <1>2 DEF ConsoleInv, TypeOK

LEMMA HostTakeKeeps == ConsoleInv /\ HostTake => ConsoleInv'
<1> SUFFICES ASSUME ConsoleInv, HostTake PROVE ConsoleInv'
  OBVIOUS
<1>1. /\ wfifo \in Seq(Byte) /\ wfifo # << >> /\ Len(wfifo) <= WriteDepth
      /\ WriteDepth \in Nat /\ wfifo' = Tail(wfifo) /\ reached \in Byte
  BY UartAssumption DEF ConsoleInv, TypeOK, UartTypeOK, HostTake, HostTakes
<1>2. wfifo' \in Seq(Byte) /\ Len(wfifo') <= WriteDepth
  BY <1>1, HeadTailProperties, LenProperties
<1>3. reached' \in Byte
  BY <1>1, NumbersAreBytes DEF HostTake
<1>4. UNCHANGED <<rfifo, ien, pause_irq, ac, driverVars, uses, accepted, sent, got, present>>
  BY DEF HostTake
<1>5. UartTypeOK'
  BY <1>2, <1>4 DEF ConsoleInv, TypeOK, UartTypeOK
<1>6. /\ {accepted', reached', sent', got'} \subseteq Byte /\ present' \in BOOLEAN
      /\ pause_irq' => rfifo' # << >>
  BY <1>3, <1>4 DEF ConsoleInv, TypeOK, Enabled
<1> QED
  BY <1>4, <1>5, <1>6, HostKeeps

LEMMA HostSendKeeps == ConsoleInv /\ HostSend => ConsoleInv'
<1> SUFFICES ASSUME ConsoleInv, HostSend PROVE ConsoleInv'
  OBVIOUS
<1>1. /\ rfifo \in Seq(Byte) /\ Len(rfifo) < ReadDepth /\ ReadDepth \in Nat
      /\ sent \in Byte /\ rfifo' = Append(rfifo, sent) /\ ac' = TRUE
  BY UartAssumption DEF ConsoleInv, TypeOK, UartTypeOK, HostSend, HostSends
<1>2. rfifo' \in Seq(Byte) /\ Len(rfifo') <= ReadDepth /\ rfifo' # << >>
  BY <1>1, AppendProperties, LenProperties
<1>3. sent' \in Byte
  BY <1>1, NumbersAreBytes DEF HostSend
<1>4. UNCHANGED <<wfifo, ien, pause_irq, driverVars, uses, accepted, reached, got, present>>
  BY DEF HostSend
<1>5. UartTypeOK'
  BY <1>1, <1>2, <1>4 DEF ConsoleInv, TypeOK, UartTypeOK
<1>6. {accepted', reached', sent', got'} \subseteq Byte /\ present' \in BOOLEAN
  BY <1>3, <1>4 DEF ConsoleInv, TypeOK
<1> QED
  BY <1>2, <1>4, <1>5, <1>6, HostKeeps

LEMMA HostPauseKeeps == ConsoleInv /\ HostPause => ConsoleInv'
<1> SUFFICES ASSUME ConsoleInv, HostPause PROVE ConsoleInv'
  OBVIOUS
<1>1. UNCHANGED <<wfifo, rfifo, ien, driverVars>> /\ UNCHANGED hostVars
  BY DEF HostPause
<1>2. pause_irq' \in BOOLEAN /\ ac' \in BOOLEAN
  BY Zenon DEF HostPause, HostPauses
<1>3. pause_irq' => rfifo' # << >>
  BY <1>1 DEF HostPause, HostPauses, ConsoleInv, Enabled
<1>4. UartTypeOK'
  BY <1>1, <1>2 DEF ConsoleInv, TypeOK, UartTypeOK
<1>5. /\ uses' = uses /\ present' \in BOOLEAN
      /\ {accepted', reached', sent', got'} \subseteq Byte
  BY <1>1, HistoryStays DEF ConsoleInv, TypeOK
<1> QED
  BY <1>1, <1>3, <1>4, <1>5, HostKeeps

LEMMA HostComesOrGoesKeeps == ConsoleInv /\ HostComesOrGoes => ConsoleInv'
<1> SUFFICES ASSUME ConsoleInv, HostComesOrGoes PROVE ConsoleInv'
  OBVIOUS
<1>1. UNCHANGED <<uartVars, driverVars, uses, history>> /\ present' \in BOOLEAN
  BY Zenon DEF HostComesOrGoes
<1>2. UartTypeOK'
  BY <1>1 DEF ConsoleInv, TypeOK, UartTypeOK, uartVars
<1>3. /\ {accepted', reached', sent', got'} \subseteq Byte
      /\ pause_irq' => rfifo' # << >>
      /\ rfifo # << >> => rfifo' # << >>
  BY <1>1 DEF ConsoleInv, TypeOK, Enabled, history, uartVars
<1> QED
  BY <1>1, <1>2, <1>3, HostKeeps DEF uartVars

LEMMA LateByteKeeps == ConsoleInv /\ LateByte => ConsoleInv'
<1> SUFFICES ASSUME ConsoleInv, LateByte PROVE ConsoleInv'
  OBVIOUS
<1>1. sent \in Byte /\ ReadDepth \in Nat \ {0}
  BY UartAssumption DEF ConsoleInv, TypeOK
<1>2. From(sent, 1) \in [1 .. 1 -> Byte] /\ sent' \in Byte
  BY <1>1, NumbersAreBytes DEF LateByte
<1>3. From(sent, 1) \in Seq(Byte) /\ Len(From(sent, 1)) <= ReadDepth
  <2>1. From(sent, 1) \in Seq(Byte)
    BY <1>2, SeqDef
  <2>2. Len(From(sent, 1)) \in Nat /\ 1 .. Len(From(sent, 1)) = 1 .. 1
    BY <1>2, <2>1, LenProperties
  <2>3. \A n \in Nat : n > 1 => 2 \in 1 .. n
    OBVIOUS
  <2> QED
    BY <1>1, <2>1, <2>2, <2>3, 2 \notin 1 .. 1
<1>4. {accepted', reached', sent', got'} \subseteq Byte
  BY <1>2 DEF LateByte, ConsoleInv, TypeOK
<1> QED
  BY <1>3, <1>4, IsrReceiveEndKeeps DEF LateByte

-----------------------------------------------------------------------------
LEMMA ThreadStepKeeps == ConsoleInv /\ Thread => ConsoleInv'
  BY CopyKeeps, GetKeeps, WriteLookKeeps, WriteKickKeeps, WriteSpinKeeps,
     WriteCheckKeeps, ReadLookKeeps, ReadFreeKeeps, ReadSpinKeeps, ReadCheckKeeps,
     ReadKickKeeps, CloseDrainKeeps DEF Thread

LEMMA IsrStepKeeps == ConsoleInv /\ Isr => ConsoleInv'
<1> SUFFICES ASSUME ConsoleInv, Isr PROVE ConsoleInv'
  OBVIOUS
<1>1. CASE IsrReceiveEnd(<< >>)
  <2>1. << >> \in Seq(Byte) /\ Len(<< >>) <= ReadDepth
    BY UartAssumption
  <2> QED
    BY <1>1, <2>1, IsrReceiveEndKeeps, HistoryStays DEF Isr
<1>2. CASE Interrupt \/ IsrControl
  BY <1>2, PassKeeps DEF Isr, Interrupt, IsrControl
<1>3. CASE IsrReceive \/ IsrTransmit \/ IsrTransmitEnd
  BY <1>3, IsrReceiveKeeps, IsrTransmitKeeps, IsrTransmitEndKeeps DEF Isr
<1> QED
  BY <1>1, <1>2, <1>3 DEF Isr

LEMMA StutterKeeps == ConsoleInv /\ UNCHANGED vars => ConsoleInv'
<1> SUFFICES ASSUME ConsoleInv, UNCHANGED vars PROVE ConsoleInv'
  OBVIOUS
<1>1. UNCHANGED <<uartVars, driverVars, uses, history, present>>
  BY DEF vars, hostVars
<1>2. UartTypeOK'
  BY <1>1 DEF ConsoleInv, TypeOK, UartTypeOK, uartVars
<1>3. /\ {accepted', reached', sent', got'} \subseteq Byte /\ present' \in BOOLEAN
      /\ pause_irq' => rfifo' # << >>
      /\ rfifo # << >> => rfifo' # << >>
  BY <1>1 DEF ConsoleInv, TypeOK, Enabled, history, uartVars
<1> QED
  BY <1>1, <1>2, <1>3, HostKeeps DEF uartVars

LEMMA ConsoleInvNext == ConsoleInv /\ [Next]_vars => ConsoleInv'
  BY CallKeeps, ThreadStepKeeps, IsrStepKeeps, LateByteKeeps, AlarmKeeps, IoctlKeeps,
     HostTakeKeeps, HostSendKeeps, HostPauseKeeps, HostComesOrGoesKeeps, StutterKeeps
     DEF Next

(* What holds of the program at all times.                                 *)
THEOREM ConsoleAlwaysInv == Spec => []ConsoleInv
  BY ConsoleInvInit, ConsoleInvNext, PTL DEF Spec

(* Every variable of the device, the driver and the environment keeps its  *)
(* type: in particular the indexes stay in their rings and no FIFO         *)
(* overflows (_init.c, _read.c, _write.c).                                 *)
THEOREM ConsoleTypeCorrect == Spec => []TypeOK
<1>1. ConsoleInv => TypeOK
  BY DEF ConsoleInv
<1> QED
  BY <1>1, ConsoleAlwaysInv, PTL

(* Bytes written to the ring are never left there with the transmit        *)
(* interrupt off and nobody about to turn it on (_write.c:136-139,         *)
(* _init.c:186-194).                                                       *)
THEOREM UnsentIsAlwaysKicked == Spec => []UnsentIsKicked
<1>1. ConsoleInv => UnsentIsKicked
  BY RingEmpty DEF ConsoleInv, Kicked, UnsentIsKicked, Unsent, TypeOK, DriverTypeOK
<1> QED
  BY <1>1, ConsoleAlwaysInv, PTL

(* The receive interrupt is never off with nothing left to make the reader *)
(* turn it on again (_init.c:156-166, _read.c:188-195).                    *)
THEOREM ReceiverIsAlwaysWoken == Spec => []ReceiverIsWoken
<1>1. ConsoleInv => ReceiverIsWoken
  <2> SUFFICES ASSUME ConsoleInv, "RE" \notin ien, call.at # "r_free"
               PROVE  rx_in # rx_out => Unread # << >>
    BY DEF ConsoleInv, Woken, ReceiverIsWoken
  <2>1. Unread = Ring(rx_buf, rx_out, rx_in)
    BY DEF Unread
  <2>2. rx_in \in Index /\ rx_out \in Index
    BY DEF ConsoleInv, TypeOK, DriverTypeOK
  <2> QED
    BY <2>1, <2>2, RingEmpty
<1> QED
  BY <1>1, ConsoleAlwaysInv, PTL

-----------------------------------------------------------------------------
(***************************************************************************)
(* The contents of a ring.                                                 *)
(***************************************************************************)
\* How many bytes lie between the indexes, and the place k behind an index.
Used(out, in) == IF in >= out THEN in - out ELSE in + BufLen - out
Place(i, k) == IF i + k < BufLen THEN i + k ELSE i + k - BufLen

LEMMA PlaceIsModulo ==
    ASSUME NEW i \in Index, NEW k \in 0 .. BufLen
    PROVE  (i + k) % BufLen = Place(i, k) /\ Place(i, k) \in Index
<1>1. BufLen \in Nat \ {0}
  BY DriverAssumption
<1>2. CASE i + k < BufLen
  <2>1. i + k \in 0 .. BufLen - 1
    BY <1>1, <1>2 DEF Index
  <2> QED
    BY <1>1, <1>2, <2>1, ModSmall DEF Place, Index
<1>3. CASE ~(i + k < BufLen)
  <2>1. i + k - BufLen \in 0 .. BufLen - 1 /\ (i + k - BufLen) + BufLen = i + k
    BY <1>1, <1>3 DEF Index
  <2>2. ((i + k - BufLen) + BufLen) % BufLen = i + k - BufLen
    BY <1>1, <2>1, ModPlusModulus
  <2> QED
    BY <1>3, <2>1, <2>2 DEF Place, Index
<1> QED
  BY <1>2, <1>3

LEMMA UsedProperties ==
    ASSUME NEW out \in Index, NEW in \in Index
    PROVE  Used(out, in) \in Nat /\ Used(out, in) < BufLen
  BY DriverAssumption DEF Index, Used

LEMMA RingProperties ==
    ASSUME NEW buf \in [Index -> Byte], NEW out \in Index, NEW in \in Index
    PROVE  /\ Ring(buf, out, in) \in Seq(Byte)
           /\ Len(Ring(buf, out, in)) = Used(out, in)
           /\ \A i \in 1 .. Used(out, in) : Ring(buf, out, in)[i] = buf[Place(out, i - 1)]
<1> DEFINE u == Used(out, in)
<1>1. u \in Nat /\ u < BufLen /\ (in + BufLen - out) % BufLen = u
  BY RingSize, UsedProperties DEF Used
<1>2. Ring(buf, out, in) = [i \in 1 .. u |-> buf[(out + i - 1) % BufLen]]
  BY <1>1 DEF Ring
<1>3. ASSUME NEW i \in 1 .. u
      PROVE  (out + i - 1) % BufLen = Place(out, i - 1) /\ Place(out, i - 1) \in Index
  <2>1. i - 1 \in 0 .. BufLen /\ out + (i - 1) = out + i - 1
    BY <1>1, DriverAssumption DEF Index
  <2> QED
    BY <2>1, PlaceIsModulo
<1> HIDE DEF u
<1>4. Ring(buf, out, in) \in [1 .. u -> Byte]
  BY <1>2, <1>3
<1>5. Ring(buf, out, in) \in Seq(Byte)
  BY <1>1, <1>4, SeqDef
<1>6. Len(Ring(buf, out, in)) = u
  BY <1>1, <1>2, <1>5
<1> QED
  BY <1>2, <1>3, <1>5, <1>6 DEF u

\* The ring new is buf with bytes written from in on.
Written(buf, new, in, bytes) ==
    \A i \in Index : new[i] = IF i \in in .. in + Len(bytes) - 1
                              THEN bytes[i - in + 1] ELSE buf[i]

(* n bytes behind a piece that fits are the ring's last n bytes.           *)
LEMMA RingAppend ==
    ASSUME NEW buf \in [Index -> Byte], NEW out \in Index, NEW in \in Index,
           NEW bytes \in Seq(Byte), Len(bytes) + Used(out, in) < BufLen,
           in + Len(bytes) <= BufLen,
           NEW new \in [Index -> Byte],
           Written(buf, new, in, bytes)
    PROVE  Ring(new, out, (in + Len(bytes)) % BufLen) = Ring(buf, out, in) \o bytes
<1>0. PICK n \in Nat : n = Len(bytes)
  BY LenProperties
<1>1. /\ BufLen \in Nat \ {0} /\ n \in 0 .. BufLen
      /\ n + Used(out, in) < BufLen /\ in + n <= BufLen
  BY <1>0, DriverAssumption, UsedProperties
<1>2. PICK end \in Index : end = Place(in, n) /\ (in + n) % BufLen = end
  BY <1>1, PlaceIsModulo
<1>3. PICK u \in Nat : u = Used(out, in) /\ u < BufLen /\ Used(out, end) = u + n
  BY <1>1, <1>2, UsedProperties, SMTT(30) DEF Used, Place, Index
<1>4. PICK all \in Seq(Byte) :
           /\ all = Ring(buf, out, in) /\ Len(all) = u
           /\ \A i \in 1 .. u : all[i] = buf[Place(out, i - 1)]
  BY <1>3, RingProperties, ZenonT(30)
<1>5. PICK longer \in Seq(Byte) :
           /\ longer = Ring(new, out, end) /\ Len(longer) = u + n
           /\ \A i \in 1 .. u + n : longer[i] = new[Place(out, i - 1)]
  <2> DEFINE r == Ring(new, out, end)
  <2>1. /\ r \in Seq(Byte) /\ Len(r) = Used(out, end)
        /\ \A i \in 1 .. Used(out, end) : r[i] = new[Place(out, i - 1)]
    BY RingProperties
  <2> HIDE DEF r
  <2>2. Len(r) = u + n /\ \A i \in 1 .. u + n : r[i] = new[Place(out, i - 1)]
    BY <1>3, <2>1
  <2> QED
    BY <2>1, <2>2 DEF r
<1>6. /\ all \o bytes \in Seq(Byte) /\ Len(all \o bytes) = u + n
      /\ \A i \in 1 .. u + n : (all \o bytes)[i]
             = IF i <= u THEN all[i] ELSE bytes[i - u]
  <2>1. /\ all \o bytes \in Seq(Byte) /\ Len(all \o bytes) = Len(all) + Len(bytes)
        /\ \A i \in 1 .. Len(all) + Len(bytes) : (all \o bytes)[i]
               = IF i <= Len(all) THEN all[i] ELSE bytes[i - Len(all)]
    BY ConcatProperties
  <2> QED
    BY <1>0, <1>4, <2>1
<1>7. ASSUME NEW i \in 1 .. u + n
      PROVE  longer[i] = (all \o bytes)[i]
  <2> DEFINE p == Place(out, i - 1)
  <2>1. i - 1 \in 0 .. BufLen
    BY <1>1, <1>3
  <2>2. p \in Index
    BY <2>1, PlaceIsModulo
  <2>3. CASE i <= u
    <3>1. p \notin in .. in + n - 1
      BY <1>1, <1>3, <2>3 DEF Place, Used, Index
    <3>2. new[p] = buf[p]
      BY <1>0, <2>2, <3>1 DEF Written
    <3> QED
      BY <1>3, <1>4, <1>5, <1>6, <2>3, <3>2
  <2>4. CASE i > u
    <3>1. p \in in .. in + n - 1 /\ p - in + 1 = i - u
      BY <1>1, <1>3, <2>4 DEF Place, Used, Index
    <3>2. new[p] = bytes[i - u]
      BY <1>0, <2>2, <3>1 DEF Written
    <3> QED
      BY <1>3, <1>5, <1>6, <2>4, <3>2, SMTT(30)
  <2>5. i <= u \/ i > u
    OBVIOUS
  <2> QED
    BY <2>3, <2>4, <2>5, Zenon
<1>8. longer = all \o bytes
  BY <1>3, <1>5, <1>6, <1>7, SeqEqual
<1> QED
  BY <1>0, <1>2, <1>4, <1>5, <1>8

LEMMA RingAppendOne ==
    ASSUME NEW buf \in [Index -> Byte], NEW out \in Index, NEW in \in Index,
           1 + Used(out, in) < BufLen, NEW b \in Byte
    PROVE  Ring([buf EXCEPT ![in] = b], out, Succ(in)) = Append(Ring(buf, out, in), b)
<1> DEFINE piece == << b >>
<1>1. piece \in Seq(Byte)
  OBVIOUS
<1>2. Len(piece) = 1 /\ piece[1] = b
  OBVIOUS
<1> HIDE DEF piece
<1>3. PICK new \in [Index -> Byte] : new = [buf EXCEPT ![in] = b]
  OBVIOUS
<1>4. Written(buf, new, in, piece)
  <2>1. ASSUME NEW i \in Index
        PROVE  new[i] = IF i \in in .. in + Len(piece) - 1
                        THEN piece[i - in + 1] ELSE buf[i]
    <3>1. CASE i = in
      <4>1. i \in in .. in + 1 - 1 /\ i - in + 1 = 1
        BY <3>1 DEF Index
      <4> QED
        BY <1>2, <1>3, <3>1, <4>1
    <3>2. CASE i # in
      <4>1. i \notin in .. in + 1 - 1
        BY <3>2 DEF Index
      <4> QED
        BY <1>2, <1>3, <3>2, <4>1
    <3> QED
      BY <3>1, <3>2
  <2> QED
    BY <2>1 DEF Written
<1>5. in + 1 <= BufLen
  BY DriverAssumption DEF Index
<1>6. Ring(new, out, (in + 1) % BufLen) = Ring(buf, out, in) \o piece
  <2>1. Ring(new, out, (in + Len(piece)) % BufLen) = Ring(buf, out, in) \o piece
    BY <1>1, <1>2, <1>4, <1>5, RingAppend, ZenonT(30)
  <2> QED
    BY <1>2, <2>1
<1>7. Ring(buf, out, in) \o << b >> = Append(Ring(buf, out, in), b)
  BY RingProperties, AppendIsConcat
<1> QED
  BY <1>3, <1>6, <1>7 DEF Succ, piece

(* Leaving out the first n bytes advances the index they were read at.     *)
LEMMA RingDrop ==
    ASSUME NEW buf \in [Index -> Byte], NEW out \in Index, NEW in \in Index,
           NEW n \in Nat, n <= Used(out, in)
    PROVE  /\ (out + n) % BufLen \in Index
           /\ Used((out + n) % BufLen, in) = Used(out, in) - n
           /\ Ring(buf, (out + n) % BufLen, in)
                = SubSeq(Ring(buf, out, in), n + 1, Used(out, in))
<1>1. BufLen \in Nat \ {0} /\ n \in 0 .. BufLen
  BY DriverAssumption, UsedProperties
<1> DEFINE start == Place(out, n)
           u == Used(out, in)
           all == Ring(buf, out, in)
<1>2. start \in Index /\ (out + n) % BufLen = start
  BY <1>1, PlaceIsModulo
<1>3. u \in Nat /\ u < BufLen /\ Used(start, in) = u - n
  BY <1>1, <1>2, UsedProperties DEF Used, Place, Index
<1>4. /\ all \in Seq(Byte) /\ Len(all) = u
      /\ \A i \in 1 .. u : all[i] = buf[Place(out, i - 1)]
  BY RingProperties
<1>5. /\ Ring(buf, start, in) \in Seq(Byte) /\ Len(Ring(buf, start, in)) = u - n
      /\ \A i \in 1 .. u - n : Ring(buf, start, in)[i] = buf[Place(start, i - 1)]
  <2> HIDE DEF start
  <2>1. /\ Ring(buf, start, in) \in Seq(Byte)
        /\ Len(Ring(buf, start, in)) = Used(start, in)
        /\ \A i \in 1 .. Used(start, in) :
              Ring(buf, start, in)[i] = buf[Place(start, i - 1)]
    BY <1>2, RingProperties
  <2> QED
    BY <1>3, <2>1
<1>6. \A i \in n + 1 .. u : all[i] \in Byte
  BY <1>3, <1>4, ElementOfSeq
<1>7. /\ SubSeq(all, n + 1, u) \in Seq(Byte)
      /\ Len(SubSeq(all, n + 1, u)) = u - n
      /\ \A i \in 1 .. u - n : SubSeq(all, n + 1, u)[i] = all[n + i]
  <2> HIDE DEF all, u
  <2>1. n + 1 \in Int /\ u \in Int /\ u - (n + 1) + 1 = u - n
        /\ (IF n + 1 <= u THEN u - n ELSE 0) = u - n
    BY <1>3 DEF u
  <2>2. \A i \in 1 .. u - n : (n + 1) + i - 1 = n + i
    BY <1>3
  <2> QED
    BY <1>6, <2>1, <2>2, SubSeqProperties
<1>8. ASSUME NEW i \in 1 .. u - n
      PROVE  Ring(buf, start, in)[i] = SubSeq(all, n + 1, u)[i]
  <2>1. Place(start, i - 1) = Place(out, n + i - 1)
    BY <1>1, <1>3 DEF Place, Index
  <2>2. n + i \in 1 .. u
    BY <1>3
  <2> HIDE DEF all, u, start
  <2> QED
    BY <1>4, <1>5, <1>7, <2>1, <2>2, SMTT(30)
<1> HIDE DEF start, u, all
<1>9. Ring(buf, start, in) = SubSeq(all, n + 1, u)
  BY <1>3, <1>5, <1>7, <1>8, SeqEqual
<1> QED
  BY <1>2, <1>3, <1>9 DEF u, all

-----------------------------------------------------------------------------
(***************************************************************************)
(* Bytes with consecutive numbers.                                         *)
(***************************************************************************)
LEMMA FromProperties ==
    ASSUME NEW b \in Byte, NEW n \in Nat
    PROVE  /\ From(b, n) \in Seq(Byte)
           /\ Len(From(b, n)) = n
           /\ \A i \in 1 .. n : From(b, n)[i] = (b + (i - 1)) % Numbers
<1>1. From(b, n) \in [1 .. n -> Byte]
  BY NumbersAreBytes
<1>2. From(b, n) \in Seq(Byte)
  BY <1>1, SeqDef
<1>3. Len(From(b, n)) = n
  BY <1>2 DEF From
<1>4. \A i \in 1 .. n : b + i - 1 = b + (i - 1)
  BY UartAssumption DEF Byte
<1> QED
  BY <1>2, <1>3, <1>4 DEF From

LEMMA NumberAhead ==
    ASSUME NEW b \in Byte, NEW m \in Nat, NEW k \in Nat
    PROVE  (((b + m) % Numbers) + k) % Numbers = (b + (m + k)) % Numbers
<1>1. Numbers \in Nat \ {0} /\ b + m \in Nat /\ (b + m) + k = b + (m + k)
  BY UartAssumption DEF Byte
<1> QED
  BY <1>1, ModAdd

LEMMA FromConcat ==
    ASSUME NEW b \in Byte, NEW m \in Nat, NEW n \in Nat
    PROVE  From(b, m) \o From((b + m) % Numbers, n) = From(b, m + n)
<1> DEFINE c == (b + m) % Numbers
           s == From(b, m)
           t == From(c, n)
           left == s \o t
<1>1. c \in Byte
  BY NumbersAreBytes
<1>2. /\ s \in Seq(Byte) /\ Len(s) = m
      /\ \A i \in 1 .. m : s[i] = (b + (i - 1)) % Numbers
  BY FromProperties
<1>3. /\ t \in Seq(Byte) /\ Len(t) = n
      /\ \A i \in 1 .. n : t[i] = (c + (i - 1)) % Numbers
  BY <1>1, FromProperties
<1>4. /\ From(b, m + n) \in Seq(Byte) /\ Len(From(b, m + n)) = m + n
      /\ \A i \in 1 .. m + n : From(b, m + n)[i] = (b + (i - 1)) % Numbers
  BY FromProperties
<1> HIDE DEF s, t, c
<1>5. /\ left \in Seq(Byte) /\ Len(left) = m + n
      /\ \A i \in 1 .. m + n : left[i] = IF i <= m THEN s[i] ELSE t[i - m]
  BY <1>2, <1>3, ConcatProperties
<1> HIDE DEF left
<1>6. ASSUME NEW i \in 1 .. m + n PROVE left[i] = From(b, m + n)[i]
  <2>1. CASE i <= m
    BY <1>2, <1>4, <1>5, <2>1
  <2>2. CASE i > m
    <3>1. i - m \in 1 .. n /\ (i - m) - 1 \in Nat /\ m + ((i - m) - 1) = i - 1
      BY <2>2
    <3>2. (c + ((i - m) - 1)) % Numbers = (b + (i - 1)) % Numbers
      BY <3>1, NumberAhead DEF c
    <3>3. left[i] = (c + ((i - m) - 1)) % Numbers
      BY <1>3, <1>5, <2>2, <3>1
    <3> QED
      BY <1>4, <3>2, <3>3
  <2> QED
    BY <2>1, <2>2
<1>7. left = From(b, m + n)
  BY <1>4, <1>5, <1>6, SeqEqual
<1> QED
  BY <1>7 DEF left, s, t, c

(* Two sequences in a row come apart again.                                *)
LEMMA PrefixAndRest ==
    ASSUME NEW a \in Seq(Byte), NEW x \in Seq(Byte)
    PROVE  /\ SubSeq(a \o x, 1, Len(a)) = a
           /\ SubSeq(a \o x, Len(a) + 1, Len(a \o x)) = x
<1>1. Len(a) \in Nat /\ Len(x) \in Nat
  BY LenProperties
<1>2. a \o x \in Seq(Byte) /\ Len(a \o x) = Len(a) + Len(x)
  BY ConcatProperties
<1>3. SubSeq(a \o x, 1, Len(a)) = a
  <2>1. CASE Len(a) = 0
    <3>1. SubSeq(a \o x, 1, Len(a)) = << >>
      BY <2>1, SubSeqEmpty
    <3> QED
      BY <2>1, <3>1, EmptySeq
  <2>2. CASE Len(a) # 0
    <3>1. 1 \in 1 .. Len(a) /\ Len(a) \in 1 .. Len(a)
      BY <1>1, <2>2
    <3>2. SubSeq(a \o x, 1, Len(a)) = SubSeq(a, 1, Len(a))
      BY <3>1, SubSeqOfConcat1
    <3> QED
      BY <3>2, SubSeqFull
  <2> QED
    BY <2>1, <2>2
<1>4. SubSeq(a \o x, Len(a) + 1, Len(a \o x)) = x
  <2>1. CASE Len(x) = 0
    <3>1. Len(a) + 1 \in Int /\ Len(a \o x) \in Int /\ Len(a \o x) < Len(a) + 1
      BY <1>1, <1>2, <2>1
    <3>2. SubSeq(a \o x, Len(a) + 1, Len(a \o x)) = << >>
      BY <3>1, SubSeqEmpty
    <3> QED
      BY <2>1, <3>2, EmptySeq
  <2>2. CASE Len(x) # 0
    <3>1. /\ Len(a) + 1 \in Len(a) + 1 .. Len(a) + Len(x)
          /\ Len(a) + Len(x) \in Len(a) + 1 .. Len(a) + Len(x)
          /\ Len(a) + 1 - Len(a) = 1 /\ Len(a) + Len(x) - Len(a) = Len(x)
      BY <1>1, <2>2
    <3>2. SubSeq(a \o x, Len(a) + 1, Len(a) + Len(x))
            = SubSeq(x, Len(a) + 1 - Len(a), Len(a) + Len(x) - Len(a))
      BY <3>1, SubSeqOfConcat2
    <3> QED
      BY <1>2, <3>1, <3>2, SubSeqFull
  <2> QED
    BY <2>1, <2>2
<1> QED
  BY <1>3, <1>4

LEMMA FromSplit ==
    ASSUME NEW b \in Byte, NEW m \in Nat, NEW n \in 0 .. m
    PROVE  /\ SubSeq(From(b, m), 1, n) = From(b, n)
           /\ SubSeq(From(b, m), n + 1, m) = From((b + n) % Numbers, m - n)
<1> DEFINE c == (b + n) % Numbers
           s == From(b, n)
           t == From(c, m - n)
<1>1. c \in Byte /\ m - n \in Nat /\ n + (m - n) = m /\ n \in Nat
  BY NumbersAreBytes
<1>2. s \in Seq(Byte) /\ Len(s) = n /\ t \in Seq(Byte)
  BY <1>1, FromProperties
<1>3. s \o t = From(b, m)
  <2>1. s \o t = From(b, n + (m - n))
    BY <1>1, FromConcat
  <2> QED
    BY <1>1, <2>1
<1>4. Len(From(b, m)) = m
  BY FromProperties
<1> HIDE DEF s, t
<1>5. SubSeq(s \o t, 1, Len(s)) = s /\ SubSeq(s \o t, Len(s) + 1, Len(s \o t)) = t
  BY <1>2, PrefixAndRest
<1> QED
  BY <1>2, <1>3, <1>4, <1>5 DEF s, t

\* The bytes q are consecutive, the first of them t, and o is the next one.
InOrder(o, q, t) == q = From(t, Len(q)) /\ o = (t + Len(q)) % Numbers

LEMMA PutKeepsOrder ==
    ASSUME NEW o \in Byte, NEW q \in Seq(Byte), NEW t \in Byte, NEW n \in Nat,
           InOrder(o, q, t)
    PROVE  InOrder((o + n) % Numbers, q \o From(o, n), t)
<1>1. PICK m \in Nat : m = Len(q)
  BY LenProperties
<1>2. q = From(t, m) /\ o = (t + m) % Numbers
  BY <1>1 DEF InOrder
<1>3. q \o From(o, n) = From(t, m + n)
  BY <1>2, FromConcat
<1>4. Len(From(t, m + n)) = m + n
  BY FromProperties
<1>5. (o + n) % Numbers = (t + (m + n)) % Numbers
  BY <1>2, NumberAhead
<1> QED
  BY <1>3, <1>4, <1>5 DEF InOrder

LEMMA GetKeepsOrder ==
    ASSUME NEW o \in Byte, NEW q \in Seq(Byte), NEW t \in Byte, NEW n \in 0 .. Len(q),
           InOrder(o, q, t)
    PROVE  /\ SubSeq(q, 1, n) = From(t, n)
           /\ InOrder(o, SubSeq(q, n + 1, Len(q)), (t + n) % Numbers)
<1>1. PICK m \in Nat : m = Len(q)
  BY LenProperties
<1>2. q = From(t, m) /\ o = (t + m) % Numbers /\ n \in 0 .. m
  BY <1>1 DEF InOrder
<1>3. SubSeq(q, 1, n) = From(t, n) /\ SubSeq(q, n + 1, m) = From((t + n) % Numbers, m - n)
  BY <1>2, FromSplit
<1>4. (t + n) % Numbers \in Byte /\ m - n \in Nat /\ n \in Nat /\ n + (m - n) = m
  BY <1>2, NumbersAreBytes
<1>5. Len(From((t + n) % Numbers, m - n)) = m - n
  BY <1>4, FromProperties
<1>6. (((t + n) % Numbers) + (m - n)) % Numbers = (t + m) % Numbers
  BY <1>4, NumberAhead
<1> QED
  BY <1>1, <1>2, <1>3, <1>5, <1>6 DEF InOrder

(* A byte may move from the head of what follows to the end of what        *)
(* precedes.                                                               *)
LEMMA MoveOne ==
    ASSUME NEW s \in Seq(Byte), NEW t \in Seq(Byte), t # << >>
    PROVE  Append(s, Head(t)) \o Tail(t) = s \o t
<1> DEFINE h == Head(t)
           rest == Tail(t)
<1>1. h \in Byte /\ rest \in Seq(Byte) /\ << h >> \in Seq(Byte)
  BY HeadTailProperties
<1>2. Len(t) \in Nat \ {0} /\ h = t[1]
  BY EmptySeq, LenProperties
<1>3. SubSeq(t, 1, Len(t)) = << t[1] >> \o SubSeq(t, 1 + 1, Len(t))
  <2>1. 1 \in 1 .. Len(t) /\ Len(t) \in 1 .. Len(t)
    BY <1>2
  <2> QED
    BY <2>1, SubSeqRecursiveFirst
<1>4. SubSeq(t, 1, Len(t)) = t /\ rest = SubSeq(t, 1 + 1, Len(t))
  BY SubSeqFull, TailIsSubSeq, 1 + 1 = 2
<1>5. t = << h >> \o rest
  BY <1>2, <1>3, <1>4
<1>6. Append(s, h) = s \o << h >>
  BY <1>1, AppendIsConcat
<1> HIDE DEF h, rest
<1>7. (s \o << h >>) \o rest = s \o (<< h >> \o rest)
  BY <1>1, ConcatAssociative
<1> QED
  BY <1>5, <1>6, <1>7 DEF h, rest

(* The first bytes of two sequences in a row are those of the first.       *)
LEMMA DropOfConcat ==
    ASSUME NEW s \in Seq(Byte), NEW t \in Seq(Byte), NEW n \in 0 .. Len(s)
    PROVE  SubSeq(s, n + 1, Len(s)) \o t = SubSeq(s \o t, n + 1, Len(s \o t))
<1> DEFINE a == SubSeq(s, 1, n)
           d == SubSeq(s, n + 1, Len(s))
<1>1. Len(s) \in Nat /\ n \in Nat /\ n <= Len(s)
  BY LenProperties
<1>2. \A i \in 1 .. Len(s) : s[i] \in Byte
  BY ElementOfSeq
<1>3. a \in Seq(Byte) /\ Len(a) = n
  <2>1. a \in Seq(Byte) /\ Len(a) = IF 1 <= n THEN n - 1 + 1 ELSE 0
    BY <1>1, <1>2, SubSeqProperties
  <2> QED
    BY <1>1, <2>1
<1>4. d \in Seq(Byte)
  BY <1>1, <1>2, SubSeqProperties
<1>5. a \o d = s
  <2>1. a \o d = SubSeq(s, 1, Len(s))
    <3>1. /\ 1 \in 1 .. Len(s) + 1 /\ n \in 1 - 1 .. Len(s)
          /\ Len(s) \in n .. Len(s)
      BY <1>1
    <3> QED
      BY <3>1, ConcatAdjacentSubSeq
  <2> QED
    BY <2>1, SubSeqFull
<1> HIDE DEF a, d
<1>6. (a \o d) \o t = a \o (d \o t) /\ d \o t \in Seq(Byte)
  BY <1>3, <1>4, ConcatAssociative, ConcatProperties, SMTT(30)
<1> DEFINE x == d \o t
<1>7. x \in Seq(Byte) /\ s \o t = a \o x
  BY <1>5, <1>6
<1> HIDE DEF x
<1>8. SubSeq(a \o x, Len(a) + 1, Len(a \o x)) = x
  BY <1>3, <1>7, PrefixAndRest
<1> QED
  BY <1>3, <1>7, <1>8 DEF x, d

-----------------------------------------------------------------------------
(***************************************************************************)
(* A piece fits where it goes: the hand-over between the thread, which     *)
(* looks at an index of the interrupt routine, and the routine, which      *)
(* advances it before the thread has copied.                               *)
(***************************************************************************)
Fits ==
    /\ isr.space <= WriteSpace
    /\ call.at = "w_copy" =>
           /\ call.n # 0
           /\ call.n + Used(tx_out, tx_in) < BufLen
           /\ tx_in + call.n <= BufLen
    /\ call.at \in {"r_copy", "r_free"} => call.n <= Used(rx_out, rx_in)

LEMMA FitsInit == Init => Fits
<1> SUFFICES ASSUME Init PROVE Fits
  OBVIOUS
<1>1. isr.space = 0 /\ call.at = "idle" /\ wfifo = << >>
  BY DEF Init, UartInit, DriverInit, NoIsr, IsrAt, Idle
<1>2. WriteSpace = WriteDepth /\ WriteDepth \in Nat
  BY <1>1, UartAssumption DEF WriteSpace
<1> QED
  BY <1>1, <1>2 DEF Fits

LEMMA FitsWithoutPiece ==
    ASSUME Fits, UNCHANGED <<wfifo, isr>>,
           call'.at \notin {"w_copy", "r_copy", "r_free"}
    PROVE  Fits'
  BY DEF Fits, WriteSpace

LEMMA FitsWithoutMove ==
    ASSUME Fits, UNCHANGED <<ringVars, call>>, isr'.space <= WriteSpace'
    PROVE  Fits'
  BY DEF Fits, ringVars, Used

LEMMA WriteLookFits == ConsoleInv /\ Fits /\ WriteLook => Fits'
<1> SUFFICES ASSUME ConsoleInv, Fits, WriteLook PROVE Fits'
  OBVIOUS
<1>1. /\ call \in CallType /\ tx_in \in Index /\ tx_out \in Index
      /\ UNCHANGED <<wfifo, isr, tx_in, tx_out>>
  BY DEF ConsoleInv, TypeOK, DriverTypeOK, CallType, WriteLook, uartVars, ringVars
<1> DEFINE n == TxRoom(tx_in, tx_out)
<1>2. n \in Nat /\ n + Used(tx_out, tx_in) < BufLen /\ tx_in + n <= BufLen
  BY <1>1, DriverAssumption DEF TxRoom, Used, Index
<1>3. CASE call.count = 0 \/ n = 0
  <2>1. call'.at = "w_kick"
    BY <1>1, <1>3 DEF WriteLook, Goto, CallType
  <2> QED
    BY <1>1, <2>1, FitsWithoutPiece
<1>4. CASE call.count # 0 /\ n # 0
  <2>1. Least(n, call.count) \in Nat \ {0} /\ Least(n, call.count) <= n
    BY <1>1, <1>2, <1>4, DriverAssumption DEF Least, CallType
  <2>2. call'.at = "w_copy" /\ call'.n = Least(n, call.count)
    BY <1>1, <1>4 DEF WriteLook, CallType
  <2>3. Used(tx_out, tx_in) \in Nat /\ tx_in \in Nat /\ BufLen \in Nat
    BY <1>1, UsedProperties, DriverAssumption DEF Index
  <2>4. /\ call'.n # 0 /\ call'.n + Used(tx_out, tx_in) < BufLen
        /\ tx_in + call'.n <= BufLen
    BY <1>2, <2>1, <2>2, <2>3
  <2>5. isr'.space <= WriteSpace' /\ Used(tx_out, tx_in)' = Used(tx_out, tx_in)
    BY <1>1 DEF Fits, WriteSpace, Used
  <2> QED
    BY <1>1, <2>2, <2>4, <2>5 DEF Fits
<1> QED
  BY <1>3, <1>4

LEMMA ReadLookFits == ConsoleInv /\ Fits /\ ReadLook => Fits'
<1> SUFFICES ASSUME ConsoleInv, Fits, ReadLook PROVE Fits'
  OBVIOUS
<1>1. /\ call \in CallType /\ rx_in \in Index /\ rx_out \in Index
      /\ UNCHANGED <<wfifo, isr, rx_in, rx_out>>
  BY DEF ConsoleInv, TypeOK, DriverTypeOK, CallType, ReadLook, uartVars, ringVars
<1> DEFINE n == RxReady(rx_in, rx_out)
<1>2. n \in Nat /\ n <= Used(rx_out, rx_in)
  BY <1>1, DriverAssumption DEF RxReady, Used, Index
<1>3. CASE n > 0
  <2>1. Least(n, call.count) \in Nat /\ Least(n, call.count) <= n
    BY <1>1, <1>2, DriverAssumption DEF Least, CallType
  <2>2. call'.at = "r_copy" /\ call'.n = Least(n, call.count)
    BY <1>1, <1>3 DEF ReadLook, CallType
  <2>3. Used(rx_out, rx_in) \in Nat
    BY <1>1, UsedProperties
  <2>4. call'.n <= Used(rx_out, rx_in)
    BY <1>2, <2>1, <2>2, <2>3
  <2>5. isr'.space <= WriteSpace' /\ Used(rx_out, rx_in)' = Used(rx_out, rx_in)
    BY <1>1 DEF Fits, WriteSpace, Used
  <2> QED
    BY <2>2, <2>4, <2>5 DEF Fits
<1>4. CASE ~(n > 0)
  <2>1. call'.at \in {"r_kick", "r_spin", "idle"}
    BY <1>1, <1>4 DEF ReadLook, Goto, Return, Idle, CallType
  <2> QED
    BY <1>1, <2>1, FitsWithoutPiece
<1> QED
  BY <1>3, <1>4

LEMMA GetFits == ConsoleInv /\ Fits /\ Get => Fits'
<1> SUFFICES ASSUME ConsoleInv, Fits, Get PROVE Fits'
  OBVIOUS
<1>1. /\ call'.at = "r_free" /\ call'.n = call.n /\ call.at = "r_copy"
      /\ UNCHANGED <<wfifo, isr, rx_in, rx_out>>
  BY DEF ConsoleInv, TypeOK, DriverTypeOK, Get, ReadCopy, At, uartVars, ringVars
<1> QED
  BY <1>1 DEF Fits, WriteSpace, Used

LEMMA ThreadFits == ConsoleInv /\ Fits /\ Thread => Fits'
<1> SUFFICES ASSUME ConsoleInv, Fits, Thread PROVE Fits'
  OBVIOUS
<1>1. call \in CallType
  BY DEF ConsoleInv, TypeOK, DriverTypeOK, CallType
<1>2. CASE Copy
  BY <1>1, <1>2, FitsWithoutPiece DEF Copy, WriteCopy, CallType, uartVars
<1>3. CASE WriteKick \/ ReadKick
  BY <1>1, <1>3, FitsWithoutPiece DEF WriteKick, ReadKick, Return, Goto, Idle, CallType
<1>4. CASE WriteSpin \/ ReadSpin
  BY <1>1, <1>4, FitsWithoutPiece DEF WriteSpin, ReadSpin, Goto, CallType, uartVars
<1>5. CASE WriteCheck \/ ReadCheck
  BY <1>1, <1>5, FitsWithoutPiece
     DEF WriteCheck, ReadCheck, Return, Idle, CallType, uartVars
<1>6. CASE ReadFree \/ CloseDrain
  BY <1>1, <1>6, FitsWithoutPiece
     DEF ReadFree, CloseDrain, Return, Idle, CallType, uartVars
<1> QED
  BY <1>2, <1>3, <1>4, <1>5, <1>6, WriteLookFits, ReadLookFits, GetFits DEF Thread

LEMMA IsrReceiveFits == ConsoleInv /\ Fits /\ IsrReceive => Fits'
<1> SUFFICES ASSUME ConsoleInv, Fits, IsrReceive PROVE Fits'
  OBVIOUS
<1>1. /\ rx_in \in Index /\ rx_out \in Index /\ isr \in IsrType /\ call \in CallType
      /\ UNCHANGED <<wfifo, rx_out, tx_in, tx_out, call>>
  BY DEF ConsoleInv, TypeOK, DriverTypeOK, IsrType, CallType, IsrReceive
<1>2. isr'.space = isr.space
  BY <1>1 DEF IsrReceive, IsrType
<1>3. 1 \in 0 .. BufLen /\ BufLen \in Nat
  BY DriverAssumption
<1>4. rx_in' = Place(rx_in, 1) /\ Place(rx_in, 1) # rx_out
  BY <1>1, <1>3, PlaceIsModulo DEF IsrReceive, RxFull, Succ
<1>5. Used(rx_out, rx_in)' = Used(rx_out, rx_in) + 1
  BY <1>1, <1>3, <1>4 DEF Used, Place, Index
<1>6. Used(rx_out, rx_in) \in Nat /\ call.n \in Nat
  BY <1>1, UsedProperties DEF CallType
<1>7. Used(tx_out, tx_in)' = Used(tx_out, tx_in) /\ WriteSpace' = WriteSpace
  BY <1>1 DEF Used, WriteSpace
<1> QED
  BY <1>1, <1>2, <1>5, <1>6, <1>7 DEF Fits

LEMMA IsrTransmitFits == ConsoleInv /\ Fits /\ IsrTransmit => Fits'
<1> SUFFICES ASSUME ConsoleInv, Fits, IsrTransmit PROVE Fits'
  OBVIOUS
<1>1. /\ tx_in \in Index /\ tx_out \in Index /\ isr \in IsrType /\ call \in CallType
      /\ tx_buf[tx_out] \in Byte /\ wfifo \in Seq(Byte)
      /\ UNCHANGED <<rx_in, rx_out, tx_in, call>> /\ tx_out # tx_in
  BY DEF ConsoleInv, TypeOK, DriverTypeOK, UartTypeOK, IsrType, CallType, IsrTransmit
<1>2. isr'.space = isr.space - 1 /\ isr.space \in Nat /\ isr.space > 0
  BY <1>1, UartAssumption DEF IsrTransmit, IsrType
<1>3. Len(wfifo) \in Nat /\ WriteDepth \in Nat
  BY <1>1, LenProperties, UartAssumption
<1>4. wfifo' = Append(wfifo, tx_buf[tx_out])
  BY <1>2, <1>3 DEF IsrTransmit, WriteData, Fits, WriteSpace
<1>5. Len(wfifo') = Len(wfifo) + 1
  BY <1>1, <1>4, AppendProperties
<1>6. isr'.space <= WriteSpace'
  BY <1>2, <1>3, <1>5 DEF Fits, WriteSpace
<1>7. 1 \in 0 .. BufLen /\ BufLen \in Nat
  BY DriverAssumption
<1>8. tx_out' = Place(tx_out, 1)
  BY <1>1, <1>7, PlaceIsModulo DEF IsrTransmit, Succ
<1>9. Used(tx_out, tx_in)' = Used(tx_out, tx_in) - 1 /\ Used(tx_out, tx_in) \in Nat
  BY <1>1, <1>7, <1>8, UsedProperties DEF Used, Place, Index
<1>10. Used(rx_out, rx_in)' = Used(rx_out, rx_in) /\ call.n \in Nat
  BY <1>1 DEF Used, CallType
<1> QED
  BY <1>1, <1>6, <1>7, <1>9, <1>10 DEF Fits

LEMMA EndReceiveSpace ==
    ASSUME isr \in IsrType, NEW late, IsrReceiveEnd(late)
    PROVE  isr'.space \in {isr.space, 0}
<1>1. \E avail : EndReceive(avail)
  BY DEF IsrReceiveEnd
<1>2. isr' = [isr EXCEPT !.at = "transmit", !.avail = FALSE] \/ isr' = IsrAt("control")
  BY <1>1 DEF EndReceive
<1>3. CASE isr' = [isr EXCEPT !.at = "transmit", !.avail = FALSE]
  BY <1>3 DEF IsrType
<1>4. CASE isr' = IsrAt("control")
  BY <1>4 DEF IsrAt
<1> QED
  BY <1>2, <1>3, <1>4

LEMMA IsrFits == ConsoleInv /\ Fits /\ Isr => Fits'
<1> SUFFICES ASSUME ConsoleInv, Fits, Isr PROVE Fits'
  OBVIOUS
<1>1. isr \in IsrType /\ wfifo \in Seq(Byte) /\ WriteSpace \in Nat
  BY UartAssumption, LenProperties
     DEF ConsoleInv, TypeOK, DriverTypeOK, UartTypeOK, IsrType, WriteSpace
<1>2. CASE Interrupt \/ IsrControl
  <2>1. isr'.space = WriteSpace \/ isr'.space = 0
    BY <1>2 DEF Interrupt, IsrControl, Pass, NoIsr, IsrAt
  <2>2. UNCHANGED <<wfifo, ringVars, call>>
    BY <1>2 DEF Interrupt, IsrControl, Pass, uartVars
  <2>3. isr'.space <= WriteSpace'
    BY <1>1, <2>1, <2>2 DEF WriteSpace
  <2> QED
    BY <2>2, <2>3, FitsWithoutMove
<1>3. CASE IsrReceiveEnd(<< >>) \/ IsrTransmitEnd
  <2>1. isr'.space = isr.space \/ isr'.space = 0
    BY <1>1, <1>3, EndReceiveSpace DEF IsrTransmitEnd, IsrAt
  <2>2. UNCHANGED <<wfifo, ringVars, call>>
    BY <1>3 DEF IsrReceiveEnd, IsrTransmitEnd
  <2>3. isr'.space <= WriteSpace'
    BY <1>1, <2>1, <2>2 DEF WriteSpace, Fits
  <2> QED
    BY <2>2, <2>3, FitsWithoutMove
<1> QED
  BY <1>2, <1>3, IsrReceiveFits, IsrTransmitFits DEF Isr

LEMMA FitsNext == ConsoleInv /\ Fits /\ [Next]_vars => Fits'
<1> SUFFICES ASSUME ConsoleInv, Fits, [Next]_vars PROVE Fits'
  OBVIOUS
<1>1. isr \in IsrType /\ wfifo \in Seq(Byte) /\ WriteSpace \in Nat
  BY UartAssumption, LenProperties
     DEF ConsoleInv, TypeOK, DriverTypeOK, UartTypeOK, IsrType, WriteSpace
<1>2. CASE Call
  <2>1. UNCHANGED <<wfifo, isr>> /\ call'.at \in {"w_look", "r_look", "c_drain"}
    BY <1>2 DEF Call, Begin, Idle, uartVars
  <2> QED
    BY <2>1, FitsWithoutPiece
<1>3. CASE LateByte
  <2>1. isr'.space = isr.space \/ isr'.space = 0
    BY <1>1, <1>3, EndReceiveSpace DEF LateByte
  <2>2. UNCHANGED <<wfifo, ringVars, call>>
    BY <1>3 DEF LateByte, IsrReceiveEnd
  <2>3. isr'.space <= WriteSpace'
    BY <1>1, <2>1, <2>2 DEF WriteSpace, Fits
  <2> QED
    BY <2>2, <2>3, FitsWithoutMove
<1>4. CASE HostTake
  <2>1. wfifo' = Tail(wfifo) /\ wfifo # << >> /\ UNCHANGED <<ringVars, call, isr>>
    BY <1>4 DEF HostTake, HostTakes, driverVars
  <2>2. Len(wfifo') = Len(wfifo) - 1 /\ Len(wfifo) \in Nat /\ WriteDepth \in Nat
    BY <1>1, <2>1, HeadTailProperties, LenProperties, UartAssumption
  <2>3. isr.space \in Nat
    BY <1>1, UartAssumption DEF IsrType
  <2>4. isr'.space <= WriteSpace'
    BY <2>1, <2>2, <2>3 DEF Fits, WriteSpace
  <2> QED
    BY <2>1, <2>4, FitsWithoutMove
<1>5. CASE Alarm \/ Ioctl \/ HostSend \/ HostPause \/ HostComesOrGoes \/ UNCHANGED vars
  <2>1. UNCHANGED <<wfifo, isr, ringVars, call>>
    BY <1>5 DEF Alarm, Timeout, Ioctl, SetTimeout, HostSend, HostPause,
                HostComesOrGoes, vars, driverVars, uartVars
  <2>2. isr'.space <= WriteSpace'
    BY <2>1 DEF Fits, WriteSpace
  <2> QED
    BY <2>1, <2>2, FitsWithoutMove
<1> QED
  BY <1>2, <1>3, <1>4, <1>5, ThreadFits, IsrFits DEF Next

-----------------------------------------------------------------------------
(***************************************************************************)
(* From the thread to the host.                                            *)
(***************************************************************************)
OutQueue == wfifo \o Unsent
OutOrder == InOrder(accepted, OutQueue, reached)

LEMMA OutFacts ==
    ASSUME ConsoleInv
    PROVE  /\ tx_in \in Index /\ tx_out \in Index /\ tx_buf \in [Index -> Byte]
           /\ wfifo \in Seq(Byte) /\ Len(wfifo) \in Nat /\ Len(wfifo) <= WriteDepth
           /\ Unsent \in Seq(Byte) /\ Len(Unsent) = Used(tx_out, tx_in)
           /\ Len(Unsent) \in Nat /\ Len(Unsent) <= BufLen - 1
           /\ accepted \in Byte /\ reached \in Byte /\ call \in CallType
           /\ OutQueue \in Seq(Byte) /\ Len(OutQueue) = Len(wfifo) + Len(Unsent)
<1>1. /\ tx_in \in Index /\ tx_out \in Index /\ tx_buf \in [Index -> Byte]
      /\ wfifo \in Seq(Byte) /\ Len(wfifo) <= WriteDepth
      /\ accepted \in Byte /\ reached \in Byte /\ call \in CallType
  BY DEF ConsoleInv, TypeOK, DriverTypeOK, UartTypeOK, CallType
<1>2. Unsent \in Seq(Byte) /\ Len(Unsent) = Used(tx_out, tx_in)
  BY <1>1, RingProperties DEF Unsent
<1>3. Used(tx_out, tx_in) \in Nat /\ Used(tx_out, tx_in) <= BufLen - 1
  BY <1>1, UsedProperties, DriverAssumption
<1>4. OutQueue \in Seq(Byte) /\ Len(OutQueue) = Len(wfifo) + Len(Unsent)
  BY <1>1, <1>2, ConcatProperties DEF OutQueue
<1> QED
  BY <1>1, <1>2, <1>3, <1>4, LenProperties

\* What a step does to this direction.
OutPut(n) ==
    /\ n \in 1 .. BufLen - 1 + WriteDepth
    /\ Len(OutQueue) + n <= BufLen - 1 + WriteDepth
    /\ OutQueue' = OutQueue \o From(accepted, n)
    /\ accepted' = (accepted + n) % Numbers
    /\ reached' = reached
OutGet ==
    /\ 1 <= Len(OutQueue)
    /\ OutQueue' = SubSeq(OutQueue, 1 + 1, Len(OutQueue))
    /\ reached' = (reached + 1) % Numbers
    /\ accepted' = accepted
OutStays == UNCHANGED <<accepted, OutQueue, reached>>

LEMMA CopyPuts == ConsoleInv /\ Fits /\ Copy => OutPut(call.n)
<1> SUFFICES ASSUME ConsoleInv, Fits, Copy PROVE OutPut(call.n)
  OBVIOUS
<1> DEFINE bytes == From(accepted, call.n)
<1>1. /\ tx_in \in Index /\ tx_out \in Index /\ tx_buf \in [Index -> Byte]
      /\ wfifo \in Seq(Byte) /\ Unsent \in Seq(Byte) /\ accepted \in Byte
  BY OutFacts
<1>2. call.n \in Nat \ {0} /\ call.n + Used(tx_out, tx_in) < BufLen
      /\ tx_in + call.n <= BufLen
  BY OutFacts, DriverAssumption DEF Copy, WriteCopy, At, Fits, CallType
<1>3. bytes \in Seq(Byte) /\ Len(bytes) = call.n
  BY <1>1, <1>2, FromProperties
<1>4. /\ tx_buf' = [i \in Index |-> IF i \in tx_in .. tx_in + call.n - 1
                                    THEN bytes[i - tx_in + 1] ELSE tx_buf[i]]
      /\ tx_in' = (tx_in + call.n) % BufLen
      /\ UNCHANGED <<wfifo, tx_out, reached>> /\ accepted' = (accepted + call.n) % Numbers
  BY DEF Copy, WriteCopy, uartVars
<1> HIDE DEF bytes
<1>5. Written(tx_buf, tx_buf', tx_in, bytes)
  BY <1>3, <1>4 DEF Written
<1>6. tx_buf' \in [Index -> Byte]
  BY CopyKeeps DEF ConsoleInv, TypeOK, DriverTypeOK
<1>7. Unsent' = Unsent \o bytes
  <2>1. Ring(tx_buf', tx_out, (tx_in + Len(bytes)) % BufLen)
          = Ring(tx_buf, tx_out, tx_in) \o bytes
    <3>1. Len(bytes) + Used(tx_out, tx_in) < BufLen /\ tx_in + Len(bytes) <= BufLen
      BY <1>2, <1>3
    <3> QED
      BY <1>1, <1>3, <1>5, <1>6, <3>1, RingAppend, SMTT(30)
  <2>2. Unsent' = Ring(tx_buf', tx_out, (tx_in + call.n) % BufLen)
    BY <1>4 DEF Unsent, Ring
  <2> QED
    BY <1>3, <2>1, <2>2 DEF Unsent
<1>8. OutQueue' = OutQueue \o bytes
  <2>1. OutQueue' = wfifo \o (Unsent \o bytes)
    BY <1>4, <1>7 DEF OutQueue
  <2>2. (wfifo \o Unsent) \o bytes = wfifo \o (Unsent \o bytes)
    BY <1>1, <1>3, ConcatAssociative, SMTT(30)
  <2> QED
    BY <2>1, <2>2 DEF OutQueue
<1>9. call.n \in 1 .. BufLen - 1 + WriteDepth
      /\ Len(OutQueue) + call.n <= BufLen - 1 + WriteDepth
  BY <1>2, OutFacts, DriverAssumption, UartAssumption
<1> QED
  BY <1>4, <1>8, <1>9 DEF OutPut, bytes

LEMMA HostTakeGets == ConsoleInv /\ HostTake => OutGet
<1> SUFFICES ASSUME ConsoleInv, HostTake PROVE OutGet
  OBVIOUS
<1>1. /\ wfifo # << >> /\ wfifo' = Tail(wfifo)
      /\ UNCHANGED <<tx_buf, tx_in, tx_out, accepted>>
      /\ reached' = (reached + 1) % Numbers
  BY DEF HostTake, HostTakes, driverVars, ringVars
<1>2. /\ wfifo \in Seq(Byte) /\ Unsent \in Seq(Byte) /\ Len(Unsent) \in Nat
      /\ Len(OutQueue) = Len(wfifo) + Len(Unsent)
  BY OutFacts
<1>3. Len(wfifo) \in Nat \ {0} /\ 1 \in 0 .. Len(wfifo)
  BY <1>1, <1>2, EmptySeq
<1>4. Tail(wfifo) = SubSeq(wfifo, 1 + 1, Len(wfifo))
  BY <1>1, <1>2, TailIsSubSeq, 1 + 1 = 2
<1>5. Unsent' = Unsent
  BY <1>1 DEF Unsent, Ring
<1>6. OutQueue' = SubSeq(wfifo, 1 + 1, Len(wfifo)) \o Unsent
  BY <1>1, <1>4, <1>5 DEF OutQueue
<1>7. OutQueue' = SubSeq(OutQueue, 1 + 1, Len(OutQueue))
  BY <1>2, <1>3, <1>6, DropOfConcat DEF OutQueue
<1> QED
  BY <1>1, <1>2, <1>3, <1>7 DEF OutGet

LEMMA TransmitStays ==
    ConsoleInv /\ Fits /\ IsrTransmit /\ UNCHANGED hostVars => OutStays
<1> SUFFICES ASSUME ConsoleInv, Fits, IsrTransmit, UNCHANGED hostVars PROVE OutStays
  OBVIOUS
<1>1. /\ tx_in \in Index /\ tx_out \in Index /\ tx_buf \in [Index -> Byte]
      /\ wfifo \in Seq(Byte) /\ Unsent \in Seq(Byte)
      /\ Len(Unsent) = Used(tx_out, tx_in)
  BY OutFacts
<1>2. wfifo' = Append(wfifo, tx_buf[tx_out])
  <2>1. Len(wfifo) \in Nat /\ WriteDepth \in Nat /\ isr.space \in Nat /\ isr.space > 0
    BY OutFacts, UartAssumption DEF ConsoleInv, TypeOK, DriverTypeOK, IsrTransmit
  <2> QED
    BY <2>1 DEF IsrTransmit, WriteData, Fits, WriteSpace
<1>3. Unsent # << >>
  BY <1>1, RingEmpty DEF IsrTransmit, Unsent
<1>4. Len(Unsent) \in Nat \ {0}
  BY <1>1, <1>3, EmptySeq
<1>5. Head(Unsent) = tx_buf[tx_out]
  <2>1. Unsent[1] = tx_buf[Place(tx_out, 1 - 1)]
    <3>1. \A i \in 1 .. Used(tx_out, tx_in) : Unsent[i] = tx_buf[Place(tx_out, i - 1)]
      BY <1>1, RingProperties DEF Unsent
    <3>2. 1 \in 1 .. Used(tx_out, tx_in)
      BY <1>1, <1>4
    <3> QED
      BY <3>1, <3>2
  <2>2. Place(tx_out, 1 - 1) = tx_out
    BY <1>1, DriverAssumption DEF Place, Index
  <2> QED
    BY <2>1, <2>2
<1>6. Unsent' = Tail(Unsent)
  <2>1. 1 \in Nat /\ 1 <= Used(tx_out, tx_in)
    BY <1>1, <1>4
  <2>2. Ring(tx_buf, (tx_out + 1) % BufLen, tx_in)
          = SubSeq(Ring(tx_buf, tx_out, tx_in), 1 + 1, Used(tx_out, tx_in))
    BY <1>1, <2>1, RingDrop
  <2>3. Unsent' = Ring(tx_buf, (tx_out + 1) % BufLen, tx_in)
    BY DEF IsrTransmit, Unsent, Ring, Succ
  <2>4. Tail(Unsent) = SubSeq(Unsent, 1 + 1, Len(Unsent))
    BY <1>1, <1>3, TailIsSubSeq, 1 + 1 = 2
  <2> QED
    BY <1>1, <2>2, <2>3, <2>4 DEF Unsent
<1>7. OutQueue' = Append(wfifo, Head(Unsent)) \o Tail(Unsent)
  BY <1>2, <1>5, <1>6 DEF OutQueue
<1>8. OutQueue' = OutQueue
  BY <1>1, <1>3, <1>7, MoveOne DEF OutQueue
<1> QED
  BY <1>8 DEF OutStays, hostVars, history

LEMMA OutUntouched ==
    ASSUME UNCHANGED <<wfifo, tx_buf, tx_in, tx_out, accepted, reached>>
    PROVE  OutStays
  BY DEF OutStays, OutQueue, Unsent, Ring

LEMMA OutSteps ==
    ASSUME ConsoleInv, Fits, [Next]_vars
    PROVE  OutPut(call.n) \/ OutGet \/ OutStays
<1>1. CASE Thread /\ UNCHANGED hostVars
  <2>1. UNCHANGED <<accepted, reached>>
    BY <1>1 DEF hostVars, history
  <2>2. CASE WriteLook \/ WriteSpin \/ WriteCheck \/ ReadLook \/ ReadSpin \/ ReadCheck
    BY <2>1, <2>2, OutUntouched
       DEF WriteLook, WriteSpin, WriteCheck, ReadLook, ReadSpin, ReadCheck,
           uartVars, ringVars
  <2>3. CASE WriteKick \/ ReadKick \/ ReadFree \/ CloseDrain \/ Get
    BY <2>1, <2>3, OutUntouched
       DEF WriteKick, ReadKick, ReadFree, CloseDrain, Get, ReadCopy, uartVars, ringVars
  <2> QED
    BY <1>1, <2>2, <2>3, CopyPuts DEF Thread
<1>2. CASE Get
  BY <1>2, OutUntouched DEF Get, ReadCopy, uartVars, ringVars
<1>3. CASE Isr
  <2>1. CASE Interrupt \/ IsrControl
    BY <1>3, <2>1, OutUntouched
       DEF Isr, Interrupt, IsrControl, Pass, uartVars, ringVars, hostVars, history
  <2>2. CASE IsrReceive \/ IsrReceiveEnd(<< >>) \/ IsrTransmitEnd
    BY <1>3, <2>2, OutUntouched
       DEF Isr, IsrReceive, IsrReceiveEnd, IsrTransmitEnd, ringVars, hostVars, history
  <2> QED
    BY <1>3, <2>1, <2>2, TransmitStays DEF Isr
<1>4. CASE Call \/ LateByte \/ Alarm \/ Ioctl
  BY <1>4, OutUntouched
     DEF Call, Begin, LateByte, IsrReceiveEnd, Alarm, Timeout, Ioctl, SetTimeout,
         uartVars, ringVars, hostVars, history
<1>5. CASE HostSend \/ HostPause \/ HostComesOrGoes \/ UNCHANGED vars
  BY <1>5, OutUntouched
     DEF HostSend, HostPause, HostComesOrGoes, vars, driverVars, uartVars, ringVars,
         hostVars, history
<1> QED
  BY <1>1, <1>2, <1>3, <1>4, <1>5, CopyPuts, HostTakeGets DEF Next, Thread

LEMMA OutOrderNext ==
    ASSUME ConsoleInv, Fits, OutOrder, [Next]_vars
    PROVE  /\ OutOrder'
           /\ [Output!Next]_<<accepted, wfifo \o Unsent, reached>>
<1>1. accepted \in Byte /\ reached \in Byte /\ OutQueue \in Seq(Byte)
  BY OutFacts
<1>2. CASE OutPut(call.n)
  <2> DEFINE n == call.n
  <2>1. n \in Nat /\ n \in 1 .. BufLen - 1 + WriteDepth
    BY <1>2, DriverAssumption, UartAssumption DEF OutPut
  <2>2. OutOrder'
    <3>1. InOrder((accepted + n) % Numbers, OutQueue \o From(accepted, n), reached)
      BY <1>1, <2>1, PutKeepsOrder DEF OutOrder
    <3> QED
      BY <1>2, <3>1 DEF OutPut, OutOrder, InOrder, From
  <2>3. Output!Put(n)
    BY <1>2 DEF OutPut, OutQueue, Output!Put, Output!From, From
  <2> HIDE DEF n
  <2>4. Output!Next
    BY <2>1, <2>3 DEF Output!Next
  <2> QED
    BY <2>2, <2>4
<1>3. CASE OutGet
  <2>1. 1 \in 0 .. Len(OutQueue) /\ 1 \in 1 .. BufLen - 1 + WriteDepth
    BY <1>1, <1>3, LenProperties, DriverAssumption, UartAssumption DEF OutGet
  <2>2. /\ SubSeq(OutQueue, 1, 1) = From(reached, 1)
        /\ InOrder(accepted, SubSeq(OutQueue, 1 + 1, Len(OutQueue)),
                   (reached + 1) % Numbers)
    BY <1>1, <2>1, GetKeepsOrder DEF OutOrder
  <2>3. OutOrder'
    BY <1>3, <2>2 DEF OutGet, OutOrder, InOrder, From
  <2>4. Output!Get(1)
    BY <1>3, <2>2 DEF OutGet, OutQueue, Output!Get, Output!From, From
  <2>5. Output!Next
    BY <2>1, <2>4 DEF Output!Next
  <2> QED
    BY <2>3, <2>5
<1>4. CASE OutStays
  BY <1>4 DEF OutStays, OutOrder, OutQueue, InOrder, From
<1> QED
  BY <1>2, <1>3, <1>4, OutSteps

LEMMA OutOrderInit ==
    ASSUME Init
    PROVE  OutOrder /\ Output!Init
<1>1. wfifo = << >> /\ accepted = 0 /\ reached = 0 /\ tx_in = tx_out /\ tx_in \in Index
  BY ConsoleInvInit DEF Init, UartInit, DriverInit, ConsoleInv, TypeOK, DriverTypeOK
<1>2. Unsent = << >>
  BY <1>1, RingEmpty DEF Unsent
<1>3. OutQueue = << >>
  BY <1>1, <1>2, ConcatEmptySeq, EmptySeq DEF OutQueue
<1>4. 0 \in Byte /\ 0 % Numbers = 0
  BY UartAssumption, ModSmall DEF Byte
<1>5. From(0, 0) = << >>
  BY <1>4, FromProperties, EmptySeq
<1> QED
  BY <1>1, <1>3, <1>4, <1>5 DEF OutOrder, InOrder, Output!Init, OutQueue

(* What the thread writes reaches the host in order, complete and once     *)
(* (_write.c:103-127, _init.c:169-195), for every size of ring, FIFO and   *)
(* call.                                                                   *)
THEOREM OutputAlwaysInOrder == Spec => OutputInOrder
<1> DEFINE I == ConsoleInv /\ Fits /\ OutOrder
<1>1. Init => I
  BY ConsoleInvInit, FitsInit, OutOrderInit
<1>2. I /\ [Next]_vars => I'
  BY ConsoleInvNext, FitsNext, OutOrderNext
<1>3. Init => Output!Init
  BY OutOrderInit
<1>4. I /\ [Next]_vars => [Output!Next]_<<accepted, wfifo \o Unsent, reached>>
  BY OutOrderNext
<1> QED
  BY <1>1, <1>2, <1>3, <1>4, PTL DEF Spec, OutputInOrder, Output!Spec

-----------------------------------------------------------------------------
(***************************************************************************)
(* From the host to the thread.                                            *)
(***************************************************************************)
\* Where the unread bytes begin.
ReadFrom == IF call.at = "r_free" THEN (rx_out + call.n) % BufLen ELSE rx_out

InQueue == Unread \o rfifo
ReadOrder == InOrder(sent, InQueue, got)

LEMMA UnreadIsRing == Unread = Ring(rx_buf, ReadFrom, rx_in)
  BY DEF Unread, ReadFrom

LEMMA InFacts ==
    ASSUME ConsoleInv, Fits
    PROVE  /\ rx_in \in Index /\ rx_out \in Index /\ rx_buf \in [Index -> Byte]
           /\ ReadFrom \in Index /\ call \in CallType
           /\ rfifo \in Seq(Byte) /\ Len(rfifo) \in Nat /\ Len(rfifo) <= ReadDepth
           /\ Unread \in Seq(Byte) /\ Len(Unread) = Used(ReadFrom, rx_in)
           /\ Len(Unread) \in Nat /\ Len(Unread) <= BufLen - 1
           /\ Used(ReadFrom, rx_in) <= Used(rx_out, rx_in)
           /\ sent \in Byte /\ got \in Byte
           /\ InQueue \in Seq(Byte) /\ Len(InQueue) = Len(Unread) + Len(rfifo)
<1>1. /\ rx_in \in Index /\ rx_out \in Index /\ rx_buf \in [Index -> Byte]
      /\ rfifo \in Seq(Byte) /\ Len(rfifo) <= ReadDepth
      /\ sent \in Byte /\ got \in Byte /\ call \in CallType
  BY DEF ConsoleInv, TypeOK, DriverTypeOK, UartTypeOK, CallType
<1>2. ReadFrom \in Index /\ Used(ReadFrom, rx_in) <= Used(rx_out, rx_in)
  <2>1. CASE call.at = "r_free"
    <3>1. call.n \in Nat /\ call.n <= Used(rx_out, rx_in) /\ Used(rx_out, rx_in) \in Nat
      BY <1>1, <2>1, UsedProperties DEF Fits, CallType
    <3>2. ReadFrom = (rx_out + call.n) % BufLen
      BY <2>1 DEF ReadFrom
    <3>3. /\ (rx_out + call.n) % BufLen \in Index
          /\ Used((rx_out + call.n) % BufLen, rx_in) = Used(rx_out, rx_in) - call.n
      BY <1>1, <3>1, RingDrop
    <3> QED
      BY <3>1, <3>2, <3>3
  <2>2. CASE call.at # "r_free"
    BY <1>1, <2>2, UsedProperties DEF ReadFrom
  <2> QED
    BY <2>1, <2>2
<1>3. Unread \in Seq(Byte) /\ Len(Unread) = Used(ReadFrom, rx_in)
  BY <1>1, <1>2, RingProperties, UnreadIsRing
<1>4. Used(ReadFrom, rx_in) \in Nat /\ Used(ReadFrom, rx_in) <= BufLen - 1
  BY <1>1, <1>2, UsedProperties, DriverAssumption
<1>5. InQueue \in Seq(Byte) /\ Len(InQueue) = Len(Unread) + Len(rfifo)
  BY <1>1, <1>3, ConcatProperties DEF InQueue
<1> QED
  BY <1>1, <1>2, <1>3, <1>4, <1>5, LenProperties

\* What a step does to this direction.
InPut ==
    /\ Len(InQueue) + 1 <= BufLen - 1 + ReadDepth
    /\ InQueue' = InQueue \o From(sent, 1)
    /\ sent' = (sent + 1) % Numbers
    /\ got' = got
InGet(n) ==
    /\ n \in 0 .. Len(InQueue)
    /\ n \in 0 .. BufLen - 1 + ReadDepth
    /\ InQueue' = SubSeq(InQueue, n + 1, Len(InQueue))
    /\ got' = (got + n) % Numbers
    /\ sent' = sent
InStays == UNCHANGED <<sent, InQueue, got>>

LEMMA ArrivalPuts ==
    ASSUME ConsoleInv, Fits, Len(rfifo) < ReadDepth, rfifo' = rfifo \o From(sent, 1),
           UNCHANGED <<rx_buf, rx_in, rx_out, call, got>>, sent' = (sent + 1) % Numbers
    PROVE  InPut
<1>1. From(sent, 1) \in Seq(Byte)
  BY InFacts, FromProperties
<1>2. Unread' = Unread
  BY DEF Unread, Ring
<1>3. InQueue' = Unread \o (rfifo \o From(sent, 1))
  BY <1>2 DEF InQueue
<1>4. (Unread \o rfifo) \o From(sent, 1) = Unread \o (rfifo \o From(sent, 1))
  <2>1. Unread \in Seq(Byte) /\ rfifo \in Seq(Byte)
    BY InFacts
  <2> QED
    BY <1>1, <2>1, ConcatAssociative, SMTT(30)
<1>5. Len(InQueue) + 1 <= BufLen - 1 + ReadDepth
  BY InFacts, DriverAssumption, UartAssumption
<1> QED
  BY <1>3, <1>4, <1>5 DEF InPut, InQueue

LEMMA HostSendPuts == ConsoleInv /\ Fits /\ HostSend => InPut
<1> SUFFICES ASSUME ConsoleInv, Fits, HostSend PROVE InPut
  OBVIOUS
<1>1. From(sent, 1) = << sent >>
  <2>1. sent \in Byte /\ sent % Numbers = sent /\ sent + 1 - 1 = sent
    BY InFacts, ModSmall, UartAssumption DEF Byte
  <2>2. From(sent, 1) = [i \in 1 .. 1 |-> (sent + i - 1) % Numbers]
    BY DEF From
  <2>3. From(sent, 1) \in Seq(Byte) /\ Len(From(sent, 1)) = 1 /\ From(sent, 1)[1] = sent
    BY <2>1, <2>2, FromProperties
  <2> QED
    BY <2>1, <2>3
<1>2. rfifo' = rfifo \o From(sent, 1)
  BY <1>1, InFacts, AppendIsConcat DEF HostSend, HostSends
<1> QED
  BY <1>2, ArrivalPuts DEF HostSend, HostSends, driverVars, ringVars

LEMMA LateBytePuts == ConsoleInv /\ Fits /\ LateByte => InPut
<1> SUFFICES ASSUME ConsoleInv, Fits, LateByte PROVE InPut
  OBVIOUS
<1>1. From(sent, 1) \in Seq(Byte) /\ From(sent, 1) # << >>
  BY InFacts, FromProperties, EmptySeq
<1>2. rfifo = << >> /\ rfifo' = From(sent, 1)
  BY <1>1 DEF LateByte, IsrReceiveEnd, ReadNothing
<1>3. rfifo' = rfifo \o From(sent, 1) /\ Len(rfifo) < ReadDepth
  BY <1>1, <1>2, ConcatEmptySeq, EmptySeq, UartAssumption
<1> QED
  BY <1>3, ArrivalPuts DEF LateByte, IsrReceiveEnd, ringVars

LEMMA GetGets == ConsoleInv /\ Fits /\ Get => InGet(call.n)
<1> SUFFICES ASSUME ConsoleInv, Fits, Get PROVE InGet(call.n)
  OBVIOUS
<1> DEFINE n == call.n
<1>1. /\ call.at = "r_copy" /\ call'.at = "r_free" /\ call'.n = n
      /\ UNCHANGED <<rfifo, rx_buf, rx_in, rx_out, sent>> /\ got' = (got + n) % Numbers
  BY DEF ConsoleInv, TypeOK, DriverTypeOK, Get, ReadCopy, At, uartVars, ringVars
<1>2. Unread = Ring(rx_buf, rx_out, rx_in)
  BY <1>1 DEF Unread
<1>3. n \in Nat /\ n <= Used(rx_out, rx_in) /\ n \in 0 .. Len(Unread)
      /\ Len(Unread) = Used(rx_out, rx_in)
  <2>1. n \in Nat /\ n <= Used(rx_out, rx_in)
    BY <1>1, InFacts DEF Fits, CallType
  <2>2. ReadFrom = rx_out
    BY <1>1 DEF ReadFrom
  <2> QED
    BY <2>1, <2>2, InFacts
<1>4. Unread' = SubSeq(Unread, n + 1, Len(Unread))
  <2>1. Unread' = Ring(rx_buf, (rx_out + n) % BufLen, rx_in)
    BY <1>1 DEF Unread, Ring
  <2>2. Ring(rx_buf, (rx_out + n) % BufLen, rx_in)
          = SubSeq(Ring(rx_buf, rx_out, rx_in), n + 1, Used(rx_out, rx_in))
    BY <1>3, InFacts, RingDrop, ZenonT(30)
  <2> QED
    BY <1>2, <1>3, <2>1, <2>2
<1>5. InQueue' = SubSeq(Unread, n + 1, Len(Unread)) \o rfifo
  BY <1>1, <1>4 DEF InQueue
<1>6. InQueue' = SubSeq(InQueue, n + 1, Len(InQueue))
  BY <1>3, <1>5, InFacts, DropOfConcat DEF InQueue
<1>7. n \in 0 .. Len(InQueue) /\ n \in 0 .. BufLen - 1 + ReadDepth
  BY <1>3, InFacts, DriverAssumption, UartAssumption
<1> QED
  BY <1>1, <1>6, <1>7 DEF InGet

LEMMA ReceiveStays ==
    ConsoleInv /\ Fits /\ IsrReceive /\ UNCHANGED hostVars => InStays
<1> SUFFICES ASSUME ConsoleInv, Fits, IsrReceive, UNCHANGED hostVars PROVE InStays
  OBVIOUS
<1>1. /\ rfifo # << >> /\ rfifo' = Tail(rfifo)
      /\ rx_buf' = [rx_buf EXCEPT ![rx_in] = Head(rfifo)]
      /\ UNCHANGED <<rx_out, call>> /\ Succ(rx_in) # rx_out /\ rx_in' = Succ(rx_in)
  BY DEF IsrReceive, ReadData, RxFull
<1>2. Head(rfifo) \in Byte
  BY <1>1, InFacts, HeadTailProperties
<1>3. 1 \in 0 .. BufLen /\ BufLen \in Nat
  BY DriverAssumption
<1>4. 1 + Used(rx_out, rx_in) < BufLen
  <2>1. Succ(rx_in) = Place(rx_in, 1)
    BY <1>3, InFacts, PlaceIsModulo DEF Succ
  <2>2. rx_in \in Index /\ rx_out \in Index
    BY InFacts
  <2> QED
    BY <1>1, <1>3, <2>1, <2>2 DEF Used, Place, Index
<1>5. 1 + Used(ReadFrom, rx_in) < BufLen
  <2>1. /\ Used(ReadFrom, rx_in) \in Nat /\ Used(rx_out, rx_in) \in Nat
        /\ Used(ReadFrom, rx_in) <= Used(rx_out, rx_in)
    BY InFacts, UsedProperties
  <2> QED
    BY <1>3, <1>4, <2>1
<1>6. Unread' = Append(Unread, Head(rfifo))
  <2>1. rx_in \in Index /\ ReadFrom \in Index /\ rx_buf \in [Index -> Byte]
    BY InFacts
  <2>2. Ring([rx_buf EXCEPT ![rx_in] = Head(rfifo)], ReadFrom, Succ(rx_in))
          = Append(Ring(rx_buf, ReadFrom, rx_in), Head(rfifo))
    BY <1>2, <1>5, <2>1, RingAppendOne
  <2>3. Unread' = Ring(rx_buf', ReadFrom, rx_in')
    BY <1>1 DEF Unread, Ring, ReadFrom
  <2> QED
    BY <1>1, <2>2, <2>3, UnreadIsRing
<1>7. InQueue' = Append(Unread, Head(rfifo)) \o Tail(rfifo)
  BY <1>1, <1>6 DEF InQueue
<1>8. InQueue' = InQueue
  BY <1>1, <1>7, InFacts, MoveOne DEF InQueue
<1> QED
  BY <1>8 DEF InStays, hostVars, history

LEMMA InUntouched ==
    ASSUME UNCHANGED <<rfifo, rx_buf, rx_in, sent, got>>, ReadFrom' = ReadFrom
    PROVE  InStays
<1>1. Unread' = Unread
  <2>1. Unread' = Ring(rx_buf', ReadFrom', rx_in')
    BY DEF Unread, ReadFrom, Ring
  <2>2. Ring(rx_buf', ReadFrom', rx_in') = Ring(rx_buf, ReadFrom, rx_in)
    BY DEF Ring
  <2> QED
    BY <2>1, <2>2, UnreadIsRing
<1> QED
  BY <1>1 DEF InStays, InQueue

LEMMA ReadFromStays ==
    ASSUME rx_out' = rx_out, call.at # "r_free", call'.at # "r_free"
    PROVE  ReadFrom' = ReadFrom
  BY DEF ReadFrom

LEMMA InSteps ==
    ASSUME ConsoleInv, Fits, [Next]_vars
    PROVE  InPut \/ InGet(call.n) \/ InStays
<1>1. call \in CallType
  BY DEF ConsoleInv, TypeOK, DriverTypeOK, CallType
<1>2. CASE Thread /\ UNCHANGED hostVars
  <2>1. UNCHANGED <<sent, got>>
    BY <1>2 DEF hostVars, history
  <2>2. CASE WriteLook \/ WriteSpin \/ WriteCheck \/ WriteKick
    <3>1. UNCHANGED <<rfifo, rx_buf, rx_in, rx_out>>
      BY <2>2 DEF WriteLook, WriteSpin, WriteCheck, WriteKick, uartVars, ringVars
    <3>2. call.at # "r_free" /\ call'.at # "r_free"
      BY <1>1, <2>2 DEF WriteLook, WriteSpin, WriteCheck, WriteKick, Goto, Return, Idle,
                        At, CallType
    <3> QED
      BY <2>1, <3>1, <3>2, ReadFromStays, InUntouched
  <2>3. CASE ReadLook \/ ReadSpin \/ ReadCheck \/ ReadKick \/ CloseDrain
    <3>1. UNCHANGED <<rfifo, rx_buf, rx_in, rx_out>>
      BY <2>3 DEF ReadLook, ReadSpin, ReadCheck, ReadKick, CloseDrain, uartVars, ringVars
    <3>2. call.at # "r_free" /\ call'.at # "r_free"
      BY <1>1, <2>3 DEF ReadLook, ReadSpin, ReadCheck, ReadKick, CloseDrain, Goto, Return,
                        Idle, At, CallType
    <3> QED
      BY <2>1, <3>1, <3>2, ReadFromStays, InUntouched
  <2>4. CASE ReadFree
    <3>1. UNCHANGED <<rfifo, rx_buf, rx_in>> /\ rx_out' = (rx_out + call.n) % BufLen
          /\ call.at = "r_free" /\ call'.at \in {"r_look", "r_kick"}
      BY <1>1, <2>4 DEF ReadFree, At, CallType, uartVars
    <3>2. ReadFrom' = ReadFrom
      BY <3>1 DEF ReadFrom
    <3> QED
      BY <2>1, <3>1, <3>2, InUntouched
  <2>5. CASE Copy
    <3>1. UNCHANGED <<rfifo, rx_buf, rx_in, rx_out>> /\ call.at = "w_copy"
          /\ call'.at = "w_look"
      BY <1>1, <2>5 DEF Copy, WriteCopy, At, CallType, uartVars
    <3> QED
      BY <2>1, <3>1, ReadFromStays, InUntouched
  <2> QED
    BY <1>2, <2>2, <2>3, <2>4, <2>5, GetGets DEF Thread
<1>3. CASE Copy
  <2>1. UNCHANGED <<rfifo, rx_buf, rx_in, rx_out, sent, got>> /\ call.at = "w_copy"
        /\ call'.at = "w_look"
    BY <1>1, <1>3 DEF Copy, WriteCopy, At, CallType, uartVars
  <2> QED
    BY <2>1, ReadFromStays, InUntouched
<1>4. CASE Isr
  <2>1. CASE Interrupt \/ IsrControl
    <3>1. UNCHANGED <<rfifo, rx_buf, rx_in, rx_out, call, sent, got>>
      BY <1>4, <2>1 DEF Isr, Interrupt, IsrControl, Pass, uartVars, ringVars, hostVars,
                        history
    <3> QED
      BY <3>1, InUntouched DEF ReadFrom
  <2>2. CASE IsrReceiveEnd(<< >>)
    <3>1. UNCHANGED <<rfifo, rx_buf, rx_in, rx_out, call, sent, got>>
      BY <1>4, <2>2 DEF Isr, IsrReceiveEnd, ReadNothing, ringVars, hostVars, history
    <3> QED
      BY <3>1, InUntouched DEF ReadFrom
  <2>3. CASE IsrTransmit \/ IsrTransmitEnd
    <3>1. UNCHANGED <<rfifo, rx_buf, rx_in, rx_out, call, sent, got>>
      BY <1>4, <2>3 DEF Isr, IsrTransmit, IsrTransmitEnd, ringVars, hostVars, history
    <3> QED
      BY <3>1, InUntouched DEF ReadFrom
  <2> QED
    BY <1>4, <2>1, <2>2, <2>3, ReceiveStays DEF Isr
<1>5. CASE Call
  <2>1. UNCHANGED <<rfifo, rx_buf, rx_in, rx_out, sent, got>> /\ call.at = "idle"
        /\ call'.at \in {"w_look", "r_look", "c_drain"}
    BY <1>5 DEF Call, Begin, At, Idle, uartVars, ringVars, hostVars, history
  <2> QED
    BY <2>1, ReadFromStays, InUntouched
<1>6. CASE Alarm \/ Ioctl \/ HostTake \/ HostPause \/ HostComesOrGoes \/ UNCHANGED vars
  <2>1. UNCHANGED <<rfifo, rx_buf, rx_in, rx_out, call, sent, got>>
    BY <1>6 DEF Alarm, Timeout, Ioctl, SetTimeout, HostTake, HostPause, HostComesOrGoes,
                vars, driverVars, uartVars, ringVars, hostVars, history
  <2> QED
    BY <2>1, InUntouched DEF ReadFrom
<1> QED
  BY <1>2, <1>3, <1>4, <1>5, <1>6, GetGets, LateBytePuts, HostSendPuts DEF Next, Thread

LEMMA ReadOrderNext ==
    ASSUME ConsoleInv, Fits, ReadOrder, [Next]_vars
    PROVE  /\ ReadOrder'
           /\ [Input!Next]_<<sent, Unread \o rfifo, got>>
<1>1. sent \in Byte /\ got \in Byte /\ InQueue \in Seq(Byte)
  BY InFacts
<1>2. CASE InPut
  <2>1. 1 \in Nat /\ 1 \in 1 .. BufLen - 1 + ReadDepth
    BY DriverAssumption, UartAssumption
  <2>2. ReadOrder'
    <3>1. InOrder((sent + 1) % Numbers, InQueue \o From(sent, 1), got)
      BY <1>1, <2>1, PutKeepsOrder DEF ReadOrder
    <3> QED
      BY <1>2, <3>1 DEF InPut, ReadOrder, InOrder, From
  <2>3. Input!Put(1)
    BY <1>2 DEF InPut, InQueue, Input!Put, Input!From, From
  <2>4. Input!Next
    BY <2>1, <2>3 DEF Input!Next
  <2> QED
    BY <2>2, <2>4
<1>3. CASE InGet(call.n)
  <2> DEFINE n == call.n
  <2>1. n \in 0 .. Len(InQueue) /\ n \in 0 .. BufLen - 1 + ReadDepth
    BY <1>3 DEF InGet
  <2>2. /\ SubSeq(InQueue, 1, n) = From(got, n)
        /\ InOrder(sent, SubSeq(InQueue, n + 1, Len(InQueue)), (got + n) % Numbers)
    BY <1>1, <2>1, GetKeepsOrder DEF ReadOrder
  <2>3. ReadOrder'
    BY <1>3, <2>2 DEF InGet, ReadOrder, InOrder, From
  <2>4. CASE n # 0
    <3>1. n \in 1 .. BufLen - 1 + ReadDepth /\ n <= Len(InQueue)
      BY <1>1, <2>1, <2>4, LenProperties
    <3>2. Input!Get(n)
      BY <1>3, <2>2, <3>1 DEF InGet, InQueue, Input!Get, Input!From, From
    <3> HIDE DEF n
    <3>3. Input!Next
      BY <3>1, <3>2 DEF Input!Next
    <3> QED
      BY <2>3, <3>3
  <2>5. CASE n = 0
    <3>1. InQueue' = InQueue
      BY <1>1, <1>3, <2>5, SubSeqFull, 0 + 1 = 1 DEF InGet
    <3>2. got' = got
      <4>1. got + 0 = got /\ got % Numbers = got
        BY <1>1, ModSmall, UartAssumption, SMTT(30) DEF Byte
      <4> QED
        BY <1>3, <2>5, <4>1 DEF InGet
    <3> QED
      BY <1>3, <2>3, <3>1, <3>2 DEF InGet, InQueue
  <2> QED
    BY <2>4, <2>5
<1>4. CASE InStays
  BY <1>4 DEF InStays, ReadOrder, InQueue, InOrder, From
<1> QED
  BY <1>2, <1>3, <1>4, InSteps

LEMMA ReadOrderInit ==
    ASSUME Init
    PROVE  ReadOrder /\ Input!Init
<1>1. /\ rfifo = << >> /\ sent = 0 /\ got = 0 /\ rx_in = rx_out /\ rx_in \in Index
      /\ call.at = "idle"
  BY ConsoleInvInit
     DEF Init, UartInit, DriverInit, Idle, ConsoleInv, TypeOK, DriverTypeOK
<1>2. Unread = << >>
  BY <1>1, RingEmpty, UnreadIsRing DEF ReadFrom
<1>3. InQueue = << >>
  BY <1>1, <1>2, ConcatEmptySeq, EmptySeq DEF InQueue
<1>4. 0 \in Byte /\ 0 % Numbers = 0
  BY UartAssumption, ModSmall DEF Byte
<1>5. From(0, 0) = << >>
  BY <1>4, FromProperties, EmptySeq
<1> QED
  BY <1>1, <1>3, <1>4, <1>5 DEF ReadOrder, InOrder, Input!Init, InQueue

(* What the host sends reaches the thread in order, complete and once, and *)
(* no byte is received into a place still to be read (_read.c:120-142,     *)
(* _init.c:132-154), for every size of ring, FIFO and call.                *)
THEOREM InputAlwaysInOrder == Spec => InputInOrder
<1> DEFINE I == ConsoleInv /\ Fits /\ ReadOrder
<1>1. Init => I
  BY ConsoleInvInit, FitsInit, ReadOrderInit
<1>2. I /\ [Next]_vars => I'
  BY ConsoleInvNext, FitsNext, ReadOrderNext
<1>3. Init => Input!Init
  BY ReadOrderInit
<1>4. I /\ [Next]_vars => [Input!Next]_<<sent, Unread \o rfifo, got>>
  BY ReadOrderNext
<1> QED
  BY <1>1, <1>2, <1>3, <1>4, PTL DEF Spec, InputInOrder, Input!Spec
=============================================================================
