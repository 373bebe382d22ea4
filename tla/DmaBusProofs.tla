---------------------------- MODULE DmaBusProofs -----------------------------
(***************************************************************************)
(* Theorems about the DMA with its bus, for every value of the constants.  *)
(***************************************************************************)
EXTENDS DmaBus, ModularArithmetic, SequenceTheorems

(***************************************************************************)
(* What holds of the control registers whatever transfers are asked for.   *)
(***************************************************************************)
ControlInv ==
    \A c \in Channel :
        /\ Active(c) => /\ burstcount_reg = BurstSize[c]
                        /\ burst_cnt_reg[c] < BurstSize[c]
        /\ state_reg \in {BurstStart(c), BurstWait(c)} => burst_cnt_reg[c] = 0
        /\ state_reg = BurstWait(c) => burstcount_out_reg = BurstSize[c]
        /\ read_reg => state_reg \in {BurstWait(d) : d \in Channel}

TypeInv == TypeOK /\ ControlInv

-----------------------------------------------------------------------------
(* The seven states are distinct.                                          *)
LEMMA StatesDistinct ==
    ASSUME NEW c \in Channel, NEW d \in Channel
    PROVE  /\ BurstStart(c) # "IDLE" /\ BurstWait(c) # "IDLE" /\ BurstRead(c) # "IDLE"
           /\ BurstStart(c) # BurstWait(d)
           /\ BurstStart(c) # BurstRead(d)
           /\ BurstWait(c) # BurstRead(d)
           /\ BurstStart(c) = BurstStart(d) => c = d
           /\ BurstWait(c) = BurstWait(d) => c = d
           /\ BurstRead(c) = BurstRead(d) => c = d
  BY DEF Channel, BurstStart, BurstWait, BurstRead

LEMMA StateType ==
    ASSUME NEW c \in Channel
    PROVE  /\ "IDLE" \in State
           /\ BurstStart(c) \in State
           /\ BurstWait(c) \in State
           /\ BurstRead(c) \in State
  BY DEF State

(* The cleared registers have their types.                                 *)
LEMMA ClearedValues ==
    /\ DOMAIN ClearedData = Channel
    /\ \A c \in Channel : ClearedData[c] \in [0 .. BurstSize[c] - 1 -> Word]
    /\ PerChannel(FALSE) \in [Channel -> BOOLEAN]
    /\ PerChannel(Mod4 - 1) \in [Channel -> 0 .. Mod4 - 1]
    /\ \A a \in Address : PerChannel(a) \in [Channel -> Address]
    /\ PerChannel(0) \in [Channel -> Nat]
    /\ \A c \in Channel : PerChannel(0)[c] = 0 /\ 0 <= BurstSize[c]
    /\ 0 \in Address /\ 0 \in 0 .. Mod17 - 1
<1>1. Mod4 - 1 \in 0 .. Mod4 - 1 /\ 0 \in Address /\ 0 \in 0 .. Mod17 - 1
  BY WidthAssumption, Mod32Assumption, SMT DEF Address
<1>2. \A c \in Channel : 0 <= BurstSize[c]
  BY BurstSizeAssumption, SMT
<1> QED
  BY <1>1, <1>2, WordAssumption DEF ClearedData, PerChannel

(* A cell address of the bus is within the memory, so a beat is a word.    *)
LEMMA BeatIsWord ==
    ASSUME TypeOK, pending # <<>>
    PROVE  NextBeat \in Word
<1>1. Head(pending) \in Burst
  BY HeadTailProperties DEF TypeOK
<1>2. /\ Head(pending).base \in Nat
      /\ Head(pending).sent \in Nat
  BY <1>1, Mod32Assumption, SMT DEF Burst, Address
<1>3. Head(pending).base \div AddressUnit \in Nat
  BY <1>2, DivMod, MemoryAssumption
<1>4. Head(pending).base \div AddressUnit + Head(pending).sent \in Nat
  BY <1>2, <1>3, SMT
<1>5. CellAt(Head(pending).base, Head(pending).sent) \in 0 .. MemorySize - 1
  BY <1>4, DivMod, MemoryAssumption DEF CellAt
<1> QED
  BY <1>5, MemoryAssumption DEF NextBeat

(* The bus keeps a sequence of bursts when it delivers a beat.             *)
LEMMA AfterBeatType ==
    ASSUME pending \in Seq(Burst), pending # <<>>
    PROVE  AfterBeat \in Seq(Burst)
<1> DEFINE b == Head(pending)
<1>1. b \in Burst /\ Tail(pending) \in Seq(Burst)
  BY HeadTailProperties
<1>2. [b EXCEPT !.sent = @ + 1] \in Burst
  <2>1. b.sent + 1 \in Nat
    BY <1>1 DEF Burst
  <2> HIDE DEF b
  <2> QED
    BY <1>1, <2>1, Zenon DEF Burst
<1> DEFINE left == [b EXCEPT !.sent = @ + 1]
<1>3. <<left>> \o Tail(pending) \in Seq(Burst)
  <2> HIDE DEF left, b
  <2>1. <<left>> \in Seq(Burst)
    BY <1>2 DEF left
  <2> QED
    BY <1>1, <2>1, ConcatProperties, Zenon
<1> QED
  BY <1>1, <1>3 DEF AfterBeat

LEMMA BusAsideType ==
    ASSUME pending \in Seq(Burst), BusAside
    PROVE  pending' \in Seq(Burst)
  BY AfterBeatType DEF BusAside, BusIdle, DeliverBeat
-----------------------------------------------------------------------------
LEMMA TypeInvInit == Init => TypeInv
<1> SUFFICES ASSUME Init PROVE TypeInv
  OBVIOUS
<1> USE DEF Init, DmaInit, BusInit
<1>1. DmaTypeOK
  BY ClearedValues, StateType DEF DmaTypeOK, Channel
<1>2. pending \in Seq(Burst) /\ base \in Address
  BY EmptySeq, Mod32Assumption, SMT DEF Address
<1>3. ControlInv
  BY StatesDistinct DEF ControlInv, Active
<1> QED
  BY <1>1, <1>2, <1>3 DEF TypeInv, TypeOK

(* Resting and resetting clear the registers.                              *)
LEMMA ClearedType ==
    ASSUME ClearDatapath, state_reg' = "IDLE",
           addr_reg' = PerChannel(0), length_reg' = PerChannel(0), burstcount_reg' = 0
    PROVE  DmaTypeOK' /\ ControlInv'
<1>1. DmaTypeOK'
  BY ClearedValues, StateType DEF ClearDatapath, DmaTypeOK, Channel
<1>2. ControlInv'
  BY StatesDistinct DEF ControlInv, Active, ClearDatapath
<1> QED
  BY <1>1, <1>2

LEMMA BeginType ==
    ASSUME TypeInv, NEW c \in Channel, NEW t \in Transfers[c], Begin(c, t)
    PROVE  TypeInv'
<1> USE DEF Begin, Accept
<1>1. t.addr \in Address /\ t.length \in Address
  BY TransfersAssumption
<1>2. BurstSize[c] \in Nat \ {0}
  BY BurstSizeAssumption
<1>3. DmaTypeOK'
  BY <1>1, <1>2, ClearedValues, StateType DEF ClearDatapath, DmaTypeOK, PerChannel
<1>4. ControlInv'
  BY <1>2, StatesDistinct, SMT DEF ControlInv, Active, ClearDatapath, PerChannel
<1>5. pending' \in Seq(Burst) /\ base' \in Address
  BY <1>1, BusAsideType DEF TypeInv, TypeOK
<1> QED
  BY <1>3, <1>4, <1>5 DEF TypeInv, TypeOK

LEMMA RequestType ==
    ASSUME TypeInv, NEW c \in Channel, Request(c)
    PROVE  TypeInv'
<1> USE DEF Request, StartBurst
<1>1. DmaTypeOK'
  BY BurstSizeAssumption, StateType DEF TypeInv, TypeOK, DmaTypeOK
<1>2. ControlInv'
  BY StatesDistinct DEF TypeInv, ControlInv, Active
<1>3. pending' \in Seq(Burst) /\ base' \in Address
  BY BusAsideType DEF TypeInv, TypeOK
<1> QED
  BY <1>1, <1>2, <1>3 DEF TypeInv, TypeOK

LEMMA WaitType ==
    ASSUME TypeInv, NEW c \in Channel, Wait(c) \/ Delay(c)
    PROVE  TypeInv'
<1>1. UNCHANGED <<dmaVars, base>>
  BY DEF Wait, Delay, HoldRequest, AwaitBeat
<1>2. DmaTypeOK' /\ ControlInv'
  BY <1>1 DEF TypeInv, TypeOK, DmaTypeOK, ControlInv, Active, dmaVars
<1>3. pending' \in Seq(Burst) /\ base' \in Address
  BY <1>1, BusAsideType DEF TypeInv, TypeOK, Wait, Delay, BusIdle
<1> QED
  BY <1>2, <1>3 DEF TypeInv, TypeOK

LEMMA RequestTakenType ==
    ASSUME TypeInv, NEW c \in Channel, RequestTaken(c)
    PROVE  TypeInv'
<1> USE DEF RequestTaken, EndRequest
<1>1. DmaTypeOK'
  BY BurstSizeAssumption, StateType DEF TypeInv, TypeOK, DmaTypeOK
<1>2. ControlInv'
  BY StatesDistinct DEF TypeInv, ControlInv, Active
<1>3. [base |-> address_reg, beats |-> burstcount_out_reg, sent |-> 0] \in Burst
  BY BurstSizeAssumption, SMT DEF TypeInv, TypeOK, DmaTypeOK, ControlInv, Burst
<1>4. pending' \in Seq(Burst)
  BY <1>3, AfterBeatType, AppendProperties DEF AcceptRequest, TypeInv, TypeOK
<1> QED
  BY <1>1, <1>2, <1>4 DEF TypeInv, TypeOK

LEMMA BeatType ==
    ASSUME TypeInv, NEW c \in Channel, Beat(c)
    PROVE  TypeInv'
<1> DEFINE w == NextBeat
<1>1. pending # <<>> /\ w \in Word
  BY BeatIsWord DEF TypeInv, Beat, DeliverBeat
<1> HIDE DEF w
<1>2. /\ BurstSize[c] \in Nat \ {0}
      /\ state_reg = BurstRead(c)
      /\ burstcount_reg = BurstSize[c]
      /\ burst_cnt_reg[c] \in Nat
      /\ burst_cnt_reg[c] < BurstSize[c]
      /\ ~read_reg
  <2>1. state_reg = BurstRead(c)
    BY DEF Beat, TakeBeat, FinishBurst, FinishTransfer
  <2>2. ~read_reg
    BY <2>1, StatesDistinct DEF TypeInv, ControlInv
  <2> QED
    BY <2>1, <2>2, BurstSizeAssumption
       DEF TypeInv, TypeOK, DmaTypeOK, ControlInv, Active
<1>3. burst_cnt_reg[c] \in 0 .. BurstSize[c] - 1
  BY <1>2, SMT
<1>4. /\ (word_cnt_reg + 1) % Mod17 \in 0 .. Mod17 - 1
      /\ (cnt_reg[c] + 1) % Mod4 \in 0 .. Mod4 - 1
      /\ (addr_reg[c] + burstcount_reg) % Mod32 \in Address
  <2>1. /\ word_cnt_reg + 1 \in Nat
        /\ cnt_reg[c] + 1 \in Nat
        /\ addr_reg[c] + burstcount_reg \in Nat
    <3>1. /\ word_cnt_reg \in Nat /\ cnt_reg[c] \in Nat
          /\ addr_reg[c] \in Nat /\ burstcount_reg \in Nat
      BY WidthAssumption, Mod32Assumption DEF TypeInv, TypeOK, DmaTypeOK, Address
    <3> QED
      BY <3>1
  <2> QED
    BY <2>1, DivMod, WidthAssumption, Mod32Assumption DEF Address
<1>5. StoreWord(c, w) => /\ DOMAIN data_reg' = Channel
                         /\ \A d \in Channel :
                              data_reg'[d] \in [0 .. BurstSize[d] - 1 -> Word]
                         /\ word_cnt_reg' \in 0 .. Mod17 - 1
                         /\ UNCHANGED <<length_reg, burstcount_reg, address_reg,
                                        burstcount_out_reg, read_reg>>
  BY <1>1, <1>3, <1>4 DEF StoreWord, TypeInv, TypeOK, DmaTypeOK
<1>6. PulseWrite(c) => /\ write_reg' \in [Channel -> BOOLEAN]
                       /\ cnt_reg' \in [Channel -> 0 .. Mod4 - 1]
  BY <1>4 DEF PulseWrite, TypeInv, TypeOK, DmaTypeOK
<1>7. DmaTypeOK' /\ ControlInv'
  <2>1. CASE TakeBeat(c, TRUE, w)
    <3>1. /\ burst_cnt_reg[c] + 1 \in Nat
          /\ burst_cnt_reg[c] + 1 < BurstSize[c]
          /\ burst_cnt_reg[c] + 1 <= BurstSize[c]
      BY <1>2, <2>1, SMT DEF TakeBeat, LastOfBurst
    <3>2. DmaTypeOK'
      BY <1>5, <2>1, <3>1
         DEF TakeBeat, TypeInv, TypeOK, DmaTypeOK
    <3>3. ControlInv'
      BY <1>2, <1>5, <2>1, <3>1, StatesDistinct
         DEF TakeBeat, TypeInv, TypeOK, DmaTypeOK, ControlInv, Active
    <3> QED
      BY <3>2, <3>3
  <2>2. CASE FinishBurst(c, TRUE, w)
    <3>1. DmaTypeOK'
      BY <1>4, <1>5, <1>6, <2>2, ClearedValues, StateType
         DEF FinishBurst, TypeInv, TypeOK, DmaTypeOK
    <3>2. ControlInv'
      BY <1>2, <1>5, <2>2, StatesDistinct, SMT
         DEF FinishBurst, TypeInv, TypeOK, DmaTypeOK, ControlInv, Active
    <3> QED
      BY <3>1, <3>2
  <2>3. CASE FinishTransfer(c, TRUE, w)
    <3>1. burst_cnt_reg[c] + 1 \in Nat /\ burst_cnt_reg[c] + 1 <= BurstSize[c]
      BY <1>2, SMT
    <3>2. DmaTypeOK'
      BY <1>5, <1>6, <2>3, <3>1, StateType
         DEF FinishTransfer, TypeInv, TypeOK, DmaTypeOK
    <3>3. ControlInv'
      BY <1>2, <1>5, <2>3, StatesDistinct DEF FinishTransfer, ControlInv, Active
    <3> QED
      BY <3>2, <3>3
  <2> QED
    BY <2>1, <2>2, <2>3 DEF Beat, w
<1>8. pending' \in Seq(Burst) /\ base' \in Address
  BY AfterBeatType DEF Beat, DeliverBeat, TypeInv, TypeOK
<1> QED
  BY <1>7, <1>8 DEF TypeInv, TypeOK

LEMMA TypeInvNext == TypeInv /\ [Next]_vars => TypeInv'
<1> SUFFICES ASSUME TypeInv, [Next]_vars PROVE TypeInv'
  OBVIOUS
<1>1. CASE Rest
  BY <1>1, ClearedType, BusAsideType DEF Rest, StayIdle, TypeInv, TypeOK
<1>2. CASE Reset
  <2>1. pending' \in Seq(Burst) /\ base' \in Address
    BY <1>2, EmptySeq, Mod32Assumption, SMT DEF Reset, BusReset, Address
  <2> QED
    BY <1>2, <2>1, ClearedType DEF Reset, DmaReset, TypeInv, TypeOK
<1>3. ASSUME NEW c \in Channel, Edge(c) PROVE TypeInv'
  BY <1>3, BeginType, RequestType, WaitType, RequestTakenType, BeatType DEF Edge
<1>4. CASE UNCHANGED vars
  BY <1>4 DEF vars, dmaVars, TypeInv, TypeOK, DmaTypeOK, ControlInv, Active
<1> QED
  BY <1>1, <1>2, <1>3, <1>4 DEF Next

(***************************************************************************)
(* The registers keep their types and every word is stored inside its data *)
(* register, whatever addresses and lengths software writes.               *)
(***************************************************************************)
THEOREM TypeCorrect == Spec => []TypeOK
<1>1. Spec => []TypeInv
  BY TypeInvInit, TypeInvNext, PTL DEF Spec
<1>2. TypeInv => TypeOK
  BY DEF TypeInv
<1> QED
  BY <1>1, <1>2, PTL
-----------------------------------------------------------------------------
(***************************************************************************)
(* The invariant of transfers of whole windows.  Done(c) counts the        *)
(* windows the transfer has completed; the word counter, the burst address *)
(* and the bus agree with it, and the words collected so far are the words *)
(* at the burst address.                                                   *)
(***************************************************************************)
Done(c) == (cnt_reg[c] + 1) % Mod4

ProgressInv(c) ==
    /\ length_reg[c] <= Mod17
    /\ \E n \in 1 .. Mod4 : length_reg[c] = n * BurstSize[c] /\ Done(c) < n
    /\ word_cnt_reg = Done(c) * BurstSize[c] + burst_cnt_reg[c]
    /\ addr_reg[c] = (base + Done(c) * BurstSize[c]) % Mod32
    /\ \A i \in 0 .. burst_cnt_reg[c] - 1 :
          data_reg[c][i] = Memory[CellAt(addr_reg[c], i)]

PortInv(c) ==
    /\ state_reg \in {"IDLE", BurstStart(c), BurstWait(c)} => pending = <<>>
    /\ state_reg = BurstWait(c) => address_reg = addr_reg[c]
    /\ state_reg = BurstRead(c) =>
          pending = <<[base  |-> addr_reg[c],
                       beats |-> BurstSize[c],
                       sent  |-> burst_cnt_reg[c]]>>

PulseInv(c) ==
    /\ write_reg[c] => state_reg \in {"IDLE", BurstStart(c)}
    /\ start_reg[c] => state_reg = "IDLE" /\ write_reg[c]
    /\ state_reg = "IDLE" /\ write_reg[c] => start_reg[c]
    /\ \A d \in Channel : write_reg[c] /\ write_reg[d] => c = d
    /\ write_reg[c] => data_reg[c] = WindowAt(c, base, cnt_reg[c])

TransferInv ==
    \A c \in Channel : /\ Active(c) => ProgressInv(c)
                       /\ PortInv(c)
                       /\ PulseInv(c)

Inv == TypeInv /\ TransferInv

LEMMA TransferInvInit == Init => TransferInv
<1> SUFFICES ASSUME Init, NEW c \in Channel
             PROVE  (Active(c) => ProgressInv(c)) /\ PortInv(c) /\ PulseInv(c)
  BY DEF TransferInv
<1> QED
  BY StatesDistinct
     DEF Init, DmaInit, BusInit, Active, PortInv, PulseInv, PerChannel

(* A window counter that has not wrapped counts on.                        *)
LEMMA DoneNat ==
    ASSUME TypeInv, NEW c \in Channel
    PROVE  Done(c) \in 0 .. Mod4 - 1
<1>1. cnt_reg[c] + 1 \in Nat
  BY WidthAssumption, SMT DEF TypeInv, TypeOK, DmaTypeOK
<1> QED
  BY <1>1, DivMod, WidthAssumption DEF Done

(* The reset value of the window counter stands for no window.             *)
LEMMA DoneCleared == (Mod4 - 1 + 1) % Mod4 = 0
<1>1. Mod4 - 1 + 1 = 0 + Mod4 /\ 0 \in 0 .. Mod4 - 1
  BY WidthAssumption, SMT
<1> QED
  BY <1>1, ModPlusModulus, WidthAssumption

LEMMA BeginTransfer ==
    ASSUME WholeWindows, Inv, NEW c \in Channel, NEW t \in Transfers[c], Begin(c, t)
    PROVE  TransferInv'
<1> USE DEF Begin, Accept
<1>1. /\ t.addr \in Address
      /\ t.length <= Mod17
      /\ BurstSize[c] \in Nat \ {0}
  BY TransfersAssumption, BurstSizeAssumption DEF WholeWindows
<1>2. /\ state_reg' = BurstStart(c)
      /\ length_reg'[c] = t.length
      /\ addr_reg'[c] = t.addr
      /\ base' = t.addr
      /\ word_cnt_reg' = 0
      /\ \A d \in Channel : /\ cnt_reg'[d] = Mod4 - 1
                            /\ burst_cnt_reg'[d] = 0
                            /\ ~write_reg'[d]
                            /\ ~start_reg'[d]
  BY DEF ClearDatapath, PerChannel
<1>3. pending' = <<>>
  BY DEF Inv, TransferInv, PortInv, BusAside, BusIdle, DeliverBeat
<1>4. Done(c)' = 0
  BY <1>2, DoneCleared DEF Done
<1>5. ProgressInv(c)'
  <2>1. PICK n \in 1 .. Mod4 : t.length = n * BurstSize[c]
    BY DEF WholeWindows
  <2>2. 0 * BurstSize[c] = 0 /\ 0 < n
    BY <1>1, WidthAssumption, SMT
  <2>3. t.addr \in 0 .. Mod32 - 1 /\ t.addr + 0 = t.addr
    BY <1>1, Mod32Assumption, SMT DEF Address
  <2>4. (t.addr + 0) % Mod32 = t.addr
    BY <2>3, ModSmall, Mod32Assumption
  <2>5. 0 .. 0 - 1 = {}
    BY SMT
  <2>6. length_reg'[c] = n * BurstSize[c] /\ Done(c)' < n
    BY <1>2, <1>4, <2>1, <2>2
  <2> QED
    BY <1>1, <1>2, <1>4, <2>2, <2>4, <2>5, <2>6 DEF ProgressInv
<1>6. ASSUME NEW d \in Channel
      PROVE  (Active(d) => ProgressInv(d))' /\ PortInv(d)' /\ PulseInv(d)'
  <2>1. Active(d)' => d = c
    BY <1>2, StatesDistinct DEF Active
  <2> QED
    BY <1>2, <1>3, <1>5, <2>1, StatesDistinct DEF PortInv, PulseInv
<1> QED
  BY <1>6 DEF TransferInv

LEMMA ClearedTransfer ==
    ASSUME ClearDatapath, state_reg' = "IDLE", pending' = <<>>
    PROVE  TransferInv'
<1> SUFFICES ASSUME NEW c \in Channel
             PROVE  (Active(c) => ProgressInv(c))' /\ PortInv(c)' /\ PulseInv(c)'
  BY DEF TransferInv
<1> QED
  BY StatesDistinct DEF ClearDatapath, Active, PortInv, PulseInv, PerChannel

LEMMA RequestTransfer ==
    ASSUME Inv, NEW c \in Channel, Request(c)
    PROVE  TransferInv'
<1> USE DEF Request, StartBurst
<1>1. pending' = <<>>
  BY DEF Inv, TransferInv, PortInv, BusAside, BusIdle, DeliverBeat
<1>2. ProgressInv(c)'
  <2>1. ProgressInv(c)
    BY DEF Inv, TransferInv, Active
  <2> QED
    BY <2>1 DEF ProgressInv, Done
<1>3. \A d \in Channel : ~write_reg'[d] /\ ~start_reg'[d]
  BY StatesDistinct DEF Inv, TypeInv, TypeOK, DmaTypeOK, TransferInv, PulseInv
<1>4. ASSUME NEW d \in Channel
      PROVE  (Active(d) => ProgressInv(d))' /\ PortInv(d)' /\ PulseInv(d)'
  <2>1. Active(d)' => d = c
    BY StatesDistinct DEF Active
  <2> QED
    BY <1>1, <1>2, <1>3, <2>1, StatesDistinct DEF PortInv, PulseInv
<1> QED
  BY <1>4 DEF TransferInv

LEMMA WaitTransfer ==
    ASSUME Inv, NEW c \in Channel, Wait(c) \/ Delay(c)
    PROVE  TransferInv'
<1>1. UNCHANGED <<dmaVars, base, pending>>
  BY DEF Wait, Delay, HoldRequest, AwaitBeat, BusAside, BusIdle, DeliverBeat,
         Inv, TransferInv, PortInv
<1>2. ASSUME NEW d \in Channel
      PROVE  (Active(d) => ProgressInv(d))' /\ PortInv(d)' /\ PulseInv(d)'
  BY <1>1 DEF Inv, TransferInv, Active, ProgressInv, Done, PortInv, PulseInv, dmaVars
<1> QED
  BY <1>2 DEF TransferInv

LEMMA RequestTakenTransfer ==
    ASSUME Inv, NEW c \in Channel, RequestTaken(c)
    PROVE  TransferInv'
<1> USE DEF RequestTaken, EndRequest
<1>1. /\ pending = <<>>
      /\ address_reg = addr_reg[c]
      /\ burstcount_out_reg = BurstSize[c]
      /\ burst_cnt_reg[c] = 0
  BY DEF Inv, TypeInv, ControlInv, TransferInv, PortInv
<1>2. pending' = <<[base |-> addr_reg[c], beats |-> BurstSize[c], sent |-> 0]>>
  <2>1. pending' = Append(<<>>, [base  |-> address_reg,
                                 beats |-> burstcount_out_reg,
                                 sent  |-> 0])
    BY <1>1 DEF AcceptRequest
  <2>2. \A r : Append(<<>>, r) = <<r>>
    OBVIOUS
  <2> QED
    BY <1>1, <2>1, <2>2
<1>3. ProgressInv(c)'
  <2>1. ProgressInv(c)
    BY DEF Inv, TransferInv, Active
  <2> QED
    BY <2>1 DEF ProgressInv, Done
<1>4. \A d \in Channel : ~write_reg'[d] /\ ~start_reg'[d]
  BY StatesDistinct DEF Inv, TypeInv, TypeOK, DmaTypeOK, TransferInv, PulseInv
<1>5. ASSUME NEW d \in Channel
      PROVE  (Active(d) => ProgressInv(d))' /\ PortInv(d)' /\ PulseInv(d)'
  <2>1. Active(d)' => d = c
    BY StatesDistinct DEF Active
  <2> QED
    BY <1>1, <1>2, <1>3, <1>4, <2>1, StatesDistinct DEF PortInv, PulseInv
<1> QED
  BY <1>5 DEF TransferInv

-----------------------------------------------------------------------------
(* What the invariant says of a beat the DMA collects.                     *)
LEMMA BeatFacts ==
    ASSUME Inv, NEW c \in Channel, Beat(c)
    PROVE  /\ BurstSize[c] \in Nat \ {0}
           /\ state_reg = BurstRead(c)
           /\ burstcount_reg = BurstSize[c]
           /\ burst_cnt_reg[c] \in 0 .. BurstSize[c] - 1
           /\ ProgressInv(c)
           /\ pending = <<[base  |-> addr_reg[c],
                           beats |-> BurstSize[c],
                           sent  |-> burst_cnt_reg[c]]>>
           /\ NextBeat = Memory[CellAt(addr_reg[c], burst_cnt_reg[c])]
           /\ \A d \in Channel : ~write_reg[d] /\ ~start_reg[d]
<1>1. state_reg = BurstRead(c)
  BY DEF Beat, TakeBeat, FinishBurst, FinishTransfer
<1>2. /\ BurstSize[c] \in Nat \ {0}
      /\ burstcount_reg = BurstSize[c]
      /\ burst_cnt_reg[c] \in Nat
      /\ burst_cnt_reg[c] < BurstSize[c]
  BY <1>1, BurstSizeAssumption
     DEF Inv, TypeInv, TypeOK, DmaTypeOK, ControlInv, Active
<1>3. burst_cnt_reg[c] \in 0 .. BurstSize[c] - 1
  BY <1>2, SMT
<1>4. ProgressInv(c) /\ PortInv(c)
  BY <1>1 DEF Inv, TransferInv, Active
<1>5. pending = <<[base  |-> addr_reg[c],
                   beats |-> BurstSize[c],
                   sent  |-> burst_cnt_reg[c]]>>
  BY <1>1, <1>4 DEF PortInv
<1>6. NextBeat = Memory[CellAt(addr_reg[c], burst_cnt_reg[c])]
  BY <1>5 DEF NextBeat
<1>7. \A d \in Channel : ~write_reg[d] /\ ~start_reg[d]
  BY <1>1, StatesDistinct DEF Inv, TypeInv, TypeOK, DmaTypeOK, TransferInv, PulseInv
<1> QED
  BY <1>1, <1>2, <1>3, <1>4, <1>5, <1>6, <1>7

(* A beat adds its word to the words collected from the burst.             *)
LEMMA StoredWords ==
    ASSUME Inv, NEW c \in Channel, Beat(c)
    PROVE  /\ \A i \in 0 .. burst_cnt_reg[c] :
                data_reg'[c][i] = Memory[CellAt(addr_reg[c], i)]
           /\ DOMAIN data_reg'[c] = 0 .. BurstSize[c] - 1
           /\ data_reg'[c] \in [0 .. BurstSize[c] - 1 -> Word]
           /\ word_cnt_reg' = (word_cnt_reg + 1) % Mod17
           /\ UNCHANGED <<length_reg, burstcount_reg, base>>
<1>1. StoreWord(c, NextBeat) /\ UNCHANGED base
  BY DEF Beat, TakeBeat, FinishBurst, FinishTransfer
<1>2. data_reg[c] \in [0 .. BurstSize[c] - 1 -> Word] /\ c \in DOMAIN data_reg
  BY DEF Inv, TypeInv, TypeOK, DmaTypeOK
<1>3. data_reg'[c] = [data_reg[c] EXCEPT ![burst_cnt_reg[c]] = NextBeat]
  BY <1>1, <1>2 DEF StoreWord
<1>4. ASSUME NEW i \in 0 .. burst_cnt_reg[c]
      PROVE  data_reg'[c][i] = Memory[CellAt(addr_reg[c], i)]
  <2>1. i \in 0 .. BurstSize[c] - 1
    BY BeatFacts, SMT
  <2>2. CASE i = burst_cnt_reg[c]
    BY <1>2, <1>3, <2>1, <2>2, BeatFacts
  <2>3. CASE i # burst_cnt_reg[c]
    <3>1. i \in 0 .. burst_cnt_reg[c] - 1
      BY <2>3, BeatFacts, SMT
    <3> QED
      BY <1>2, <1>3, <2>1, <2>3, <3>1, BeatFacts DEF ProgressInv
  <2> QED
    BY <2>2, <2>3
<1>5. data_reg'[c] \in [0 .. BurstSize[c] - 1 -> Word]
  <2>1. NextBeat \in Word
    BY BeatIsWord DEF Inv, TypeInv, Beat, DeliverBeat
  <2> QED
    BY <1>2, <1>3, <2>1
<1> QED
  BY <1>1, <1>3, <1>4, <1>5, <1>2 DEF StoreWord

(* The DMA takes the last beat of the last burst, and no other, for the    *)
(* last word of the transfer.                                              *)
LEMMA LastWordIsLast ==
    ASSUME Inv, NEW c \in Channel, Beat(c),
           NEW n \in 1 .. Mod4, length_reg[c] = n * BurstSize[c], Done(c) < n
    PROVE  /\ LastWord(c) <=> Done(c) + 1 = n /\ burst_cnt_reg[c] = BurstSize[c] - 1
           /\ (Done(c) + 1) * BurstSize[c] = Done(c) * BurstSize[c] + BurstSize[c]
           /\ ~LastWord(c) => word_cnt_reg' = word_cnt_reg + 1
           /\ word_cnt_reg \in Nat
<1> DEFINE k == Done(c)
           m == BurstSize[c]
           b == burst_cnt_reg[c]
<1>1. /\ k \in Nat /\ n \in Nat /\ k < n
      /\ m \in Nat \ {0}
      /\ b \in 0 .. m - 1
      /\ word_cnt_reg = k * m + b
      /\ length_reg[c] = n * m
      /\ length_reg[c] <= Mod17
      /\ burstcount_reg # 0
      /\ word_cnt_reg' = (word_cnt_reg + 1) % Mod17
  <2>1. k \in Nat /\ n \in Nat
    BY DoneNat, WidthAssumption, SMT DEF Inv
  <2> QED
    BY <2>1, BeatFacts, StoredWords DEF ProgressInv
<1> HIDE DEF k, m, b
<1>2. /\ word_cnt_reg \in Nat
      /\ n * m \in Nat
      /\ word_cnt_reg < length_reg[c]
      /\ word_cnt_reg = length_reg[c] - 1 <=> k + 1 = n /\ b = m - 1
      /\ (k + 1) * m = k * m + m
  BY <1>1, WindowPosition
<1>3. length_reg[c] \in Nat /\ length_reg[c] > 0
  BY <1>1, <1>2, SMT
<1>4. (length_reg[c] + Mod32 - 1) % Mod32 = length_reg[c] - 1
  <2>1. length_reg[c] - 1 \in 0 .. Mod32 - 1
    BY <1>1, <1>3, WidthAssumption, Mod32Assumption, SMT
  <2>2. length_reg[c] + Mod32 - 1 = (length_reg[c] - 1) + Mod32
    BY <1>3, Mod32Assumption, SMT
  <2> QED
    BY <2>1, <2>2, ModPlusModulus, Mod32Assumption
<1>5. LastWord(c) <=> k + 1 = n /\ b = m - 1
  BY <1>1, <1>2, <1>4 DEF LastWord
<1>6. ASSUME ~LastWord(c) PROVE word_cnt_reg' = word_cnt_reg + 1
  <2>1. word_cnt_reg + 1 \in 0 .. Mod17 - 1
    BY <1>1, <1>2, <1>3, <1>5, <1>6, WidthAssumption, SMT
  <2> QED
    BY <1>1, <2>1, ModSmall, WidthAssumption
<1> QED
  BY <1>2, <1>5, <1>6 DEF k, m, b

(* Delivering the last beat of the only burst on the bus drains the bus,   *)
(* delivering another one leaves the rest of that burst.                   *)
LEMMA BusAfterBeat ==
    ASSUME Inv, NEW c \in Channel, Beat(c)
    PROVE  /\ burst_cnt_reg[c] = BurstSize[c] - 1 => pending' = <<>>
           /\ burst_cnt_reg[c] # BurstSize[c] - 1 =>
                pending' = <<[base  |-> addr_reg[c],
                              beats |-> BurstSize[c],
                              sent  |-> burst_cnt_reg[c] + 1]>>
<1> DEFINE b == [base |-> addr_reg[c], beats |-> BurstSize[c], sent |-> burst_cnt_reg[c]]
<1>1. pending = <<b>> /\ pending' = AfterBeat
  BY BeatFacts DEF Beat, DeliverBeat
<1>2. Head(<<b>>) = b /\ Tail(<<b>>) = <<>>
  OBVIOUS
<1>3. burst_cnt_reg[c] + 1 = BurstSize[c] <=> burst_cnt_reg[c] = BurstSize[c] - 1
  BY BeatFacts, SMT
<1>4. \A r : <<r>> \o <<>> = <<r>>
  OBVIOUS
<1>5. [b EXCEPT !.sent = @ + 1] =
        [base |-> addr_reg[c], beats |-> BurstSize[c], sent |-> burst_cnt_reg[c] + 1]
  OBVIOUS
<1> QED
  BY <1>1, <1>2, <1>3, <1>4, <1>5 DEF AfterBeat

(* The window announced when the last beat of a burst is stored is whole.  *)
LEMMA AnnouncedWindow ==
    ASSUME Inv, NEW c \in Channel, Beat(c), PulseWrite(c),
           burst_cnt_reg[c] = BurstSize[c] - 1
    PROVE  /\ cnt_reg'[c] = Done(c)
           /\ data_reg'[c] = WindowAt(c, base, Done(c))
           /\ \A d \in Channel : write_reg'[d] <=> d = c
<1>1. cnt_reg'[c] = Done(c) /\ \A d \in Channel : write_reg'[d] <=> d = c
  BY BeatFacts DEF PulseWrite, Done, Inv, TypeInv, TypeOK, DmaTypeOK
<1>2. \A i \in 0 .. BurstSize[c] - 1 :
         data_reg'[c][i] = WindowAt(c, base, Done(c))[i]
  BY BeatFacts, StoredWords DEF ProgressInv, WindowAt
<1>3. data_reg'[c] \in [0 .. BurstSize[c] - 1 -> Word]
  BY StoredWords
<1>4. data_reg'[c] = WindowAt(c, base, Done(c))
  BY <1>2, <1>3 DEF WindowAt
<1> QED
  BY <1>1, <1>4

LEMMA TakeBeatTransfer ==
    ASSUME Inv, NEW c \in Channel, Beat(c), TakeBeat(c, TRUE, NextBeat)
    PROVE  TransferInv'
<1> USE DEF TakeBeat
<1>1. PICK n \in 1 .. Mod4 : length_reg[c] = n * BurstSize[c] /\ Done(c) < n
  BY BeatFacts DEF ProgressInv
<1>2. /\ burst_cnt_reg[c] \in Nat
      /\ burst_cnt_reg[c] # BurstSize[c] - 1
      /\ burst_cnt_reg'[c] = burst_cnt_reg[c] + 1
      /\ word_cnt_reg' = word_cnt_reg + 1
      /\ state_reg' = BurstRead(c)
      /\ UNCHANGED <<addr_reg, cnt_reg, write_reg, start_reg, length_reg, base>>
  BY <1>1, LastWordIsLast, BeatFacts, StoredWords
     DEF LastOfBurst, Inv, TypeInv, TypeOK, DmaTypeOK
<1>3. Done(c)' = Done(c) /\ Done(c) * BurstSize[c] \in Nat
  BY <1>2, DoneNat, BeatFacts, ProductNat, WidthAssumption, SMT DEF Done, Inv
<1>4. ProgressInv(c)'
  <2>1. word_cnt_reg' = Done(c)' * BurstSize[c] + burst_cnt_reg'[c]
    BY <1>2, <1>3, BeatFacts, SMT DEF ProgressInv
  <2>2. \A i \in 0 .. burst_cnt_reg'[c] - 1 :
           data_reg'[c][i] = Memory[CellAt(addr_reg'[c], i)]
    <3>1. 0 .. burst_cnt_reg'[c] - 1 = 0 .. burst_cnt_reg[c]
      BY <1>2, SMT
    <3> QED
      BY <1>2, <3>1, StoredWords
  <2>3. /\ length_reg'[c] <= Mod17
        /\ addr_reg'[c] = (base' + Done(c)' * BurstSize[c]) % Mod32
    BY <1>2, <1>3, BeatFacts DEF ProgressInv
  <2> QED
    BY <1>1, <1>2, <1>3, <2>1, <2>2, <2>3 DEF ProgressInv
<1>5. pending' = <<[base  |-> addr_reg'[c],
                    beats |-> BurstSize[c],
                    sent  |-> burst_cnt_reg'[c]]>>
  BY <1>2, BusAfterBeat
<1>6. ASSUME NEW d \in Channel
      PROVE  (Active(d) => ProgressInv(d))' /\ PortInv(d)' /\ PulseInv(d)'
  <2>1. Active(d)' => d = c
    BY <1>2, StatesDistinct DEF Active
  <2>2. ~write_reg'[d] /\ ~start_reg'[d] /\ \A e \in Channel : ~write_reg'[e]
    BY <1>2, BeatFacts
  <2> QED
    BY <1>2, <1>4, <1>5, <2>1, <2>2, StatesDistinct DEF PortInv, PulseInv
<1> QED
  BY <1>6 DEF TransferInv

LEMMA FinishBurstTransfer ==
    ASSUME Inv, NEW c \in Channel, Beat(c), FinishBurst(c, TRUE, NextBeat)
    PROVE  TransferInv'
<1> USE DEF FinishBurst
<1>1. PICK n \in 1 .. Mod4 : length_reg[c] = n * BurstSize[c] /\ Done(c) < n
  BY BeatFacts DEF ProgressInv
<1>2. /\ burst_cnt_reg[c] = BurstSize[c] - 1
      /\ burst_cnt_reg'[c] = 0
      /\ word_cnt_reg' = word_cnt_reg + 1
      /\ state_reg' = BurstStart(c)
      /\ addr_reg'[c] = (addr_reg[c] + BurstSize[c]) % Mod32
      /\ UNCHANGED <<start_reg, length_reg, base>>
  BY <1>1, LastWordIsLast, BeatFacts, StoredWords
     DEF LastOfBurst, Inv, TypeInv, TypeOK, DmaTypeOK
<1>3. pending' = <<>>
  BY <1>2, BusAfterBeat
<1>4. /\ cnt_reg'[c] = Done(c)
      /\ data_reg'[c] = WindowAt(c, base, Done(c))
      /\ \A d \in Channel : write_reg'[d] <=> d = c
  BY <1>2, AnnouncedWindow
<1>5. /\ Done(c) \in Nat
      /\ Done(c) + 1 < n
      /\ (Done(c) + 1) * BurstSize[c] = Done(c) * BurstSize[c] + BurstSize[c]
  BY <1>1, <1>2, LastWordIsLast, DoneNat, WidthAssumption, SMT DEF Inv
<1>6. Done(c)' = Done(c) + 1
  <2>1. Done(c) + 1 \in 0 .. Mod4 - 1
    BY <1>5, WidthAssumption, SMT
  <2> QED
    BY <1>4, <2>1, ModSmall, WidthAssumption DEF Done
<1>7. ProgressInv(c)'
  <2>1. word_cnt_reg' = Done(c)' * BurstSize[c] + burst_cnt_reg'[c]
    <3>1. Done(c) * BurstSize[c] \in Nat
      BY <1>5, BeatFacts, ProductNat
    <3> HIDE DEF FinishBurst
    <3> QED
      BY <1>2, <1>5, <1>6, <3>1, BeatFacts, SMT DEF ProgressInv
  <2>2. addr_reg'[c] = (base' + Done(c)' * BurstSize[c]) % Mod32
    <3>1. base \in Nat /\ Done(c) * BurstSize[c] \in Nat
      BY <1>5, BeatFacts, ProductNat, Mod32Assumption, SMT
         DEF Inv, TypeInv, TypeOK, Address
    <3>2. base + Done(c) * BurstSize[c] \in Nat
      BY <3>1, SMT
    <3>3. addr_reg'[c] = ((base + Done(c) * BurstSize[c]) + BurstSize[c]) % Mod32
      <4> DEFINE x == base + Done(c) * BurstSize[c]
      <4>1. addr_reg[c] = x % Mod32
        BY BeatFacts DEF ProgressInv
      <4>2. x \in Nat /\ BurstSize[c] \in Nat
        BY <3>2, BeatFacts
      <4> HIDE DEF x
      <4>3. ((x % Mod32) + BurstSize[c]) % Mod32 = (x + BurstSize[c]) % Mod32
        BY <4>2, ModAdd, Mod32Assumption
      <4> QED
        BY <1>2, <4>1, <4>3 DEF x
    <3>4. (base + Done(c) * BurstSize[c]) + BurstSize[c]
            = base + (Done(c) + 1) * BurstSize[c]
      BY <1>5, <3>1, BeatFacts, SMT
    <3> QED
      BY <1>2, <1>6, <3>3, <3>4
  <2>3. 0 .. 0 - 1 = {}
    BY SMT
  <2>4. length_reg'[c] <= Mod17 /\ Done(c)' < n
    BY <1>2, <1>5, <1>6, BeatFacts DEF ProgressInv
  <2> QED
    BY <1>1, <1>2, <2>1, <2>2, <2>3, <2>4 DEF ProgressInv
<1>8. ASSUME NEW d \in Channel
      PROVE  (Active(d) => ProgressInv(d))' /\ PortInv(d)' /\ PulseInv(d)'
  <2>1. Active(d)' => d = c
    BY <1>2, StatesDistinct DEF Active
  <2>2. ~start_reg'[d]
    BY <1>2, BeatFacts
  <2>3. PortInv(d)'
    BY <1>2, <1>3, StatesDistinct DEF PortInv
  <2>4. PulseInv(d)'
    BY <1>2, <1>4, <2>2, StatesDistinct DEF PulseInv, WindowAt
  <2> QED
    BY <1>7, <2>1, <2>3, <2>4
<1> QED
  BY <1>8 DEF TransferInv

LEMMA FinishTransferTransfer ==
    ASSUME Inv, NEW c \in Channel, Beat(c), FinishTransfer(c, TRUE, NextBeat)
    PROVE  TransferInv'
<1> USE DEF FinishTransfer
<1>1. PICK n \in 1 .. Mod4 : length_reg[c] = n * BurstSize[c] /\ Done(c) < n
  BY BeatFacts DEF ProgressInv
<1>2. /\ burst_cnt_reg[c] = BurstSize[c] - 1
      /\ state_reg' = "IDLE"
      /\ \A d \in Channel : start_reg'[d] <=> d = c
      /\ UNCHANGED base
  BY <1>1, LastWordIsLast, BeatFacts, StoredWords
     DEF Inv, TypeInv, TypeOK, DmaTypeOK
<1>3. pending' = <<>>
  BY <1>2, BusAfterBeat
<1>4. /\ cnt_reg'[c] = Done(c)
      /\ data_reg'[c] = WindowAt(c, base, Done(c))
      /\ \A d \in Channel : write_reg'[d] <=> d = c
  BY <1>2, AnnouncedWindow
<1>5. ASSUME NEW d \in Channel
      PROVE  (Active(d) => ProgressInv(d))' /\ PortInv(d)' /\ PulseInv(d)'
  <2>1. ~Active(d)'
    BY <1>2, StatesDistinct DEF Active
  <2>2. PortInv(d)'
    BY <1>2, <1>3, StatesDistinct DEF PortInv
  <2>3. PulseInv(d)'
    BY <1>2, <1>4 DEF PulseInv, WindowAt
  <2> QED
    BY <2>1, <2>2, <2>3
<1> QED
  BY <1>5 DEF TransferInv

-----------------------------------------------------------------------------
LEMMA InvInit == Init => Inv
  BY TypeInvInit, TransferInvInit DEF Inv

LEMMA InvNext ==
    ASSUME WholeWindows, Inv, [Next]_vars
    PROVE  Inv'
<1>1. TypeInv'
  BY TypeInvNext DEF Inv
<1>2. CASE Rest
  <2>1. pending' = <<>>
    BY <1>2 DEF Rest, StayIdle, BusAside, BusIdle, DeliverBeat, Inv, TransferInv,
                PortInv, Channel
  <2> QED
    BY <1>1, <1>2, <2>1, ClearedTransfer DEF Rest, StayIdle, Inv
<1>3. CASE Reset
  BY <1>1, <1>3, ClearedTransfer DEF Reset, DmaReset, BusReset, Inv
<1>4. ASSUME NEW c \in Channel, Edge(c) PROVE Inv'
  BY <1>1, <1>4, BeginTransfer, RequestTransfer, WaitTransfer, RequestTakenTransfer,
     TakeBeatTransfer, FinishBurstTransfer, FinishTransferTransfer DEF Edge, Beat, Inv
<1>5. CASE UNCHANGED vars
  <2>1. UNCHANGED <<dmaVars, base, pending>>
    BY <1>5 DEF vars
  <2>2. ASSUME NEW d \in Channel
        PROVE  (Active(d) => ProgressInv(d))' /\ PortInv(d)' /\ PulseInv(d)'
    BY <2>1 DEF Inv, TransferInv, Active, ProgressInv, Done, PortInv, PulseInv, dmaVars
  <2>3. TransferInv'
    BY <2>2 DEF TransferInv
  <2> QED
    BY <1>1, <2>3 DEF Inv
<1> QED
  BY <1>2, <1>3, <1>4, <1>5 DEF Next

LEMMA Invariance == WholeWindows /\ Spec => []Inv
<1>1. WholeWindows /\ Inv /\ [Next]_vars => Inv'
  BY InvNext
<1>2. Init => Inv
  BY InvInit
<1>3. ASSUME WholeWindows PROVE Spec => []Inv
  <2>1. Inv /\ [Next]_vars => Inv'
    BY <1>1, <1>3
  <2> QED
    BY <1>2, <2>1, PTL DEF Spec
<1> QED
  BY <1>3

(***************************************************************************)
(* Every window handed to the convolution block or the fully connected     *)
(* layer consists of the words of its own burst, all of them, in order.    *)
(***************************************************************************)
THEOREM WindowsAreIntact == WholeWindows /\ Spec => []WindowIntact
<1>1. Inv => WindowIntact
  BY DEF Inv, TransferInv, PulseInv, WindowIntact
<1> QED
  BY <1>1, Invariance, PTL

(***************************************************************************)
(* No beat is on its way when a transfer is reported finished.             *)
(***************************************************************************)
THEOREM FinishedTransfersAreDrained == WholeWindows /\ Spec => []FinishedMeansDrained
<1>1. Inv => FinishedMeansDrained
  BY DEF Inv, TransferInv, PulseInv, PortInv, FinishedMeansDrained
<1> QED
  BY <1>1, Invariance, PTL

(***************************************************************************)
(* The DMA never has two requests on the bus, so that it never takes a     *)
(* beat of one burst for a beat of another.                                *)
(***************************************************************************)
THEOREM OneRequestAtATime == WholeWindows /\ Spec => []OneOutstanding
<1>1. Inv => OneOutstanding
  BY DEF Inv, TypeInv, ControlInv, TransferInv, PortInv, OneOutstanding, Channel
<1> QED
  BY <1>1, Invariance, PTL

(***************************************************************************)
(* The words a transfer of whole windows has collected are words of the    *)
(* burst it requested, whatever was fetched before it and whatever resets  *)
(* came in between.                                                        *)
(***************************************************************************)
THEOREM WordsAreOwn == WholeWindows /\ Spec => []OwnWords
<1>1. Inv => OwnWords
  <2> SUFFICES ASSUME Inv, NEW c \in Channel, Active(c), NEW i \in 0 .. burst_cnt_reg[c] - 1
               PROVE  data_reg[c][i] = WindowAt(c, base, Done(c))[i]
    BY DEF OwnWords, Done
  <2>1. /\ ProgressInv(c)
        /\ burst_cnt_reg[c] \in Nat /\ burst_cnt_reg[c] < BurstSize[c]
        /\ BurstSize[c] \in Nat
    BY BurstSizeAssumption
       DEF Inv, TransferInv, TypeInv, TypeOK, DmaTypeOK, ControlInv
  <2>2. data_reg[c][i] = Memory[CellAt((base + Done(c) * BurstSize[c]) % Mod32, i)]
    BY <2>1 DEF ProgressInv
  <2>3. i \in 0 .. BurstSize[c] - 1
    BY <2>1
  <2> QED
    BY <2>2, <2>3 DEF WindowAt
<1> QED
  BY <1>1, Invariance, PTL

(* The number of windows of a transfer.                                    *)
LEMMA Windows ==
    ASSUME NEW c \in Channel, NEW n \in 1 .. Mod4, length_reg[c] = n * BurstSize[c]
    PROVE  length_reg[c] \div BurstSize[c] = n
<1>1. BurstSize[c] \in Nat \ {0} /\ n \in Nat
  BY BurstSizeAssumption, WidthAssumption, SMT
<1>2. n * BurstSize[c] \in Nat
  BY <1>1, ProductNat
<1>3. n * BurstSize[c] = n * BurstSize[c] + 0 /\ 0 \in 0 .. BurstSize[c] - 1
  BY <1>1, <1>2, SMT
<1> QED
  BY <1>1, <1>2, <1>3, ModUnique

(* The edges left while words are collected.                               *)
LEMMA EdgesOfRead ==
    ASSUME Inv, NEW c \in Channel, state_reg = BurstRead(c),
           NEW n \in 1 .. Mod4, length_reg[c] = n * BurstSize[c]
    PROVE  EdgesLeft(c) = (n - Done(c)) * (BurstSize[c] + 2) - (2 + burst_cnt_reg[c])
  BY Windows, StatesDistinct DEF EdgesLeft, Active, Done

(* The last word of a window leaves the edges of the windows after it.     *)
LEMMA EdgesAfterWindow ==
    ASSUME NEW m \in Nat \ {0}, NEW d \in Nat, NEW n \in Nat
    PROVE  (n - d) * (m + 2) - (2 + (m - 1)) = (n - (d + 1)) * (m + 2) - 0 + 1
<1> DEFINE k == n - (d + 1)
           w == m + 2
<1>1. n - d = k + 1 /\ k \in Int /\ w \in Int
  BY SMT
<1> HIDE DEF k
<1>2. (k + 1) * w = k * w + w
  <2> HIDE DEF w
  <2> QED
    BY <1>1, SMT
<1>3. k * w \in Int
  <2> HIDE DEF w
  <2> QED
    BY <1>1, SMT
<1>4. (n - d) * (m + 2) = k * w + (m + 2)
  BY <1>1, <1>2 DEF w
<1> DEFINE x == k * w
<1>5. (n - d) * (m + 2) = x + (m + 2) /\ x \in Int
  BY <1>3, <1>4
<1> HIDE DEF x, w
<1>6. (n - d) * (m + 2) - (2 + (m - 1)) = x - 0 + 1
  BY <1>5, SMT
<1> QED
  BY <1>6 DEF x, w, k

(* Driving a request and having it accepted take one edge each.            *)
LEMMA RequestSchedule ==
    ASSUME Inv, NEW c \in Channel, Request(c) \/ RequestTaken(c)
    PROVE  EdgesLeft(c)' = EdgesLeft(c) - 1
<1> DEFINE u == ((length_reg[c] \div BurstSize[c]) - ((cnt_reg[c] + 1) % Mod4))
                * (BurstSize[c] + 2)
<1>1. PICK n \in 1 .. Mod4 : length_reg[c] = n * BurstSize[c]
  BY DEF Request, StartBurst, RequestTaken, EndRequest, Inv, TransferInv, ProgressInv, Active
<1>2. u \in Int
  <2>1. u = (n - Done(c)) * (BurstSize[c] + 2)
    BY <1>1, Windows DEF Done
  <2>2. n - Done(c) \in Int /\ BurstSize[c] + 2 \in Int
    BY DoneNat, BurstSizeAssumption, WidthAssumption, SMT DEF Inv
  <2> QED
    BY <2>1, <2>2, SMT
<1>3. CASE Request(c)
  <2>1. EdgesLeft(c) = u - 0
    BY <1>3, StatesDistinct DEF EdgesLeft, Active, Request, StartBurst
  <2>2. EdgesLeft(c)' = u - 1
    BY <1>3, StatesDistinct DEF EdgesLeft, Active, Request, StartBurst
  <2> HIDE DEF u
  <2> QED
    BY <1>2, <2>1, <2>2, SMT
<1>4. CASE RequestTaken(c)
  <2>1. burst_cnt_reg[c] = 0
    BY <1>4 DEF RequestTaken, EndRequest, Inv, TypeInv, ControlInv
  <2>2. EdgesLeft(c) = u - 1
    BY <1>4, StatesDistinct DEF EdgesLeft, Active, RequestTaken, EndRequest
  <2>3. EdgesLeft(c)' = u - (2 + 0)
    BY <1>4, <2>1, StatesDistinct DEF EdgesLeft, Active, RequestTaken, EndRequest
  <2> HIDE DEF u
  <2> QED
    BY <1>2, <2>2, <2>3, SMT
<1> QED
  BY <1>3, <1>4

(* Each word takes one edge.                                               *)
LEMMA BeatSchedule ==
    ASSUME Inv, NEW c \in Channel, Beat(c)
    PROVE  EdgesLeft(c)' = EdgesLeft(c) - 1
<1>1. PICK n \in 1 .. Mod4 : length_reg[c] = n * BurstSize[c] /\ Done(c) < n
  BY BeatFacts DEF ProgressInv
<1> DEFINE m == BurstSize[c]
           k == Done(c)
           b == burst_cnt_reg[c]
<1>2. /\ m \in Nat \ {0} /\ b \in 0 .. m - 1
      /\ k \in Nat /\ n \in Nat /\ k < n
  BY <1>1, BeatFacts, DoneNat, WidthAssumption, SMT DEF Inv
<1>3. EdgesLeft(c) = (n - k) * (m + 2) - (2 + b)
  BY <1>1, BeatFacts, EdgesOfRead
<1>4. (n - k) * (m + 2) \in Int
  <2> HIDE DEF k, m
  <2>1. n - k \in Int /\ m + 2 \in Int
    BY <1>2, SMT
  <2> QED
    BY <2>1, SMT
<1>5. CASE TakeBeat(c, TRUE, NextBeat)
  <2>1. Inv' /\ state_reg' = BurstRead(c) /\ UNCHANGED <<cnt_reg, length_reg>>
    BY <1>5, TakeBeatTransfer, TypeInvNext, StoredWords DEF TakeBeat, Inv, Next, Edge
  <2>2. burst_cnt_reg'[c] = b + 1
    BY <1>5 DEF TakeBeat, Inv, TypeInv, TypeOK, DmaTypeOK
  <2>3. EdgesLeft(c)' = (n - k) * (m + 2) - (2 + (b + 1))
    BY <1>1, <2>1, <2>2, Windows, StatesDistinct DEF EdgesLeft, Active, Done
  <2> DEFINE x == (n - k) * (m + 2)
  <2>4. EdgesLeft(c) = x - (2 + b) /\ EdgesLeft(c)' = x - (2 + (b + 1)) /\ x \in Int
    BY <1>3, <1>4, <2>3
  <2> HIDE DEF x, m, k, b
  <2> QED
    BY <1>2, <2>4, SMT
<1>6. CASE FinishBurst(c, TRUE, NextBeat)
  <2>1. b = m - 1 /\ k + 1 # n
    BY <1>1, <1>6, BeatFacts, LastWordIsLast DEF FinishBurst, LastOfBurst
  <2>2. cnt_reg'[c] = k
    BY <1>6, <2>1, AnnouncedWindow DEF FinishBurst
  <2>3. (k + 1) % Mod4 = k + 1
    <3>1. k + 1 \in 0 .. Mod4 - 1
      BY <1>1, <2>1, DoneNat, WidthAssumption, SMT DEF Inv
    <3> QED
      BY <3>1, ModSmall, WidthAssumption
  <2>4. state_reg' = BurstStart(c) /\ length_reg' = length_reg
    BY <1>6, StoredWords DEF FinishBurst
  <2>5. EdgesLeft(c)' = (n - (k + 1)) * (m + 2) - 0
    BY <1>1, <2>2, <2>3, <2>4, Windows, StatesDistinct DEF EdgesLeft, Active
  <2>6. EdgesLeft(c) = (n - (k + 1)) * (m + 2) - 0 + 1
    BY <1>2, <1>3, <2>1, EdgesAfterWindow
  <2>7. EdgesLeft(c)' \in Int
    BY <1>2, <2>5
  <2> QED
    BY <2>5, <2>6, <2>7, SMT
<1>7. CASE FinishTransfer(c, TRUE, NextBeat)
  <2>1. k + 1 = n /\ b = m - 1
    BY <1>1, <1>7, LastWordIsLast DEF FinishTransfer
  <2>2. EdgesLeft(c)' = 0
    BY <1>7, StatesDistinct DEF FinishTransfer, EdgesLeft, Active
  <2>3. EdgesLeft(c) = (n - (k + 1)) * (m + 2) - 0 + 1
    BY <1>2, <1>3, <2>1, EdgesAfterWindow
  <2>4. n - (k + 1) = 0
    BY <1>2, <2>1, SMT
  <2>5. EdgesLeft(c) = 0 * (m + 2) - 0 + 1
    BY <2>3, <2>4
  <2> HIDE DEF m
  <2> QED
    BY <1>2, <2>2, <2>5, SMT
<1> QED
  BY <1>5, <1>6, <1>7 DEF Beat

(***************************************************************************)
(* A transfer of n windows of b words takes n * (b + 2) edges, not counted *)
(* those on which the memory lets it wait: it goes idle neither early nor  *)
(* late, for any sizes, delays and resets.                                 *)
(***************************************************************************)
THEOREM TransfersAreOnSchedule == WholeWindows /\ Spec => OnSchedule
<1>1. ASSUME Inv, Next, NEW c \in Channel, Active(c), ~Reset
      PROVE  EdgesLeft(c)' = EdgesLeft(c) - 1 \/ UNCHANGED vars
  <2>1. state_reg # "IDLE" /\ \A d \in Channel : Active(d) => d = c
    BY <1>1, StatesDistinct DEF Active
  <2>2. PICK d \in Channel : Edge(d)
    BY <1>1, <2>1 DEF Next, Rest, StayIdle
  <2>3. d = c /\ ~\E t \in Transfers[c] : Begin(c, t)
    BY <2>1, <2>2 DEF Edge, Begin, Accept, Active, Request, StartBurst, Wait, HoldRequest,
       RequestTaken, EndRequest, Delay, AwaitBeat, Beat, TakeBeat, FinishBurst, FinishTransfer
  <2>4. CASE Wait(c) \/ Delay(c)
    <3>1. UNCHANGED <<dmaVars, pending, base>>
      BY <1>1, <2>4 DEF Wait, Delay, HoldRequest, AwaitBeat, BusAside, BusIdle, DeliverBeat,
         Inv, TransferInv, PortInv
    <3> QED
      BY <3>1 DEF vars
  <2> QED
    BY <1>1, <2>2, <2>3, <2>4, RequestSchedule, BeatSchedule DEF Edge
<1>2. Inv /\ [Next]_vars =>
        [\A c \in Channel : Active(c) /\ ~Reset => EdgesLeft(c)' = EdgesLeft(c) - 1]_vars
  BY <1>1
<1>3. ASSUME WholeWindows PROVE Spec => OnSchedule
  <2>1. Spec => []Inv
    BY <1>3, Invariance
  <2> QED
    BY <1>2, <2>1, PTL DEF Spec, OnSchedule
<1> QED
  BY <1>3

-----------------------------------------------------------------------------
(* In a Wait state only waiting, acceptance and reset are possible.        *)
LEMMA OnlyWaitsInWait ==
    ASSUME TypeInv, read_reg, Next, ~Reset
    PROVE  \E c \in Channel : Wait(c) \/ RequestTaken(c)
<1>1. PICK d \in Channel : state_reg = BurstWait(d)
  BY DEF TypeInv, ControlInv, Channel
<1>2. ~Rest
  BY <1>1, StatesDistinct DEF Rest, StayIdle
<1>3. ASSUME NEW c \in Channel, Edge(c) PROVE Wait(c) \/ RequestTaken(c)
  BY <1>1, <1>3, StatesDistinct
     DEF Edge, Begin, Accept, Request, StartBurst, Delay, AwaitBeat,
         Beat, TakeBeat, FinishBurst, FinishTransfer
<1> QED
  BY <1>2, <1>3 DEF Next

(***************************************************************************)
(* The DMA keeps the Avalon rule that a master holds its request until it  *)
(* is accepted, whatever transfers are asked for.                          *)
(***************************************************************************)
THEOREM RequestsAreHeld == Spec => RequestHeld
<1> DEFINE r == [base |-> address_reg, beats |-> burstcount_out_reg, sent |-> 0]
           Held == \/ UNCHANGED <<read_reg, address_reg, burstcount_out_reg>>
                   \/ ~read_reg' /\ pending' # <<>> /\ pending'[Len(pending')] = r
<1>1. ASSUME TypeInv, Next, read_reg, ~Reset PROVE Held
  <2>1. PICK c \in Channel : Wait(c) \/ RequestTaken(c)
    BY <1>1, OnlyWaitsInWait
  <2>2. CASE Wait(c)
    BY <2>2 DEF Wait, HoldRequest, dmaVars
  <2>3. CASE RequestTaken(c)
    <3>1. ~read_reg'
      BY <2>3 DEF RequestTaken, EndRequest
    <3>2. PICK q \in Seq(Burst) : pending' = Append(q, r)
      BY <1>1, <2>3, AfterBeatType
         DEF RequestTaken, AcceptRequest, TypeInv, TypeOK
    <3>3. r \in Burst
      BY <1>1, <2>3, BurstSizeAssumption, SMT
         DEF RequestTaken, EndRequest, TypeInv, TypeOK, DmaTypeOK, ControlInv, Burst
    <3>4. pending' # <<>> /\ pending'[Len(pending')] = r
      BY <3>2, <3>3, AppendProperties
    <3> QED
      BY <3>1, <3>4
  <2> QED
    BY <2>1, <2>2, <2>3
<1>2. TypeInv /\ [Next]_vars => [read_reg /\ ~Reset => Held]_vars
  BY <1>1
<1>3. Spec => []TypeInv
  BY TypeInvInit, TypeInvNext, PTL DEF Spec
<1> QED
  BY <1>2, <1>3, PTL DEF Spec, RequestHeld

(***************************************************************************)
(* A transfer is reported finished only when exactly its words have been   *)
(* counted, whatever length software asked for.                            *)
(***************************************************************************)
StartInv == \A c \in Channel : start_reg[c] => state_reg = "IDLE"
LengthInv == TypeInv /\ StartInv /\ FinishedAtLength

LEMMA FinishedLength ==
    ASSUME TypeInv, NEW c \in Channel, FinishTransfer(c, TRUE, NextBeat)
    PROVE  /\ length_reg'[c] \in 1 .. Mod17
           /\ word_cnt_reg' = length_reg'[c] % Mod17
<1> DEFINE l == length_reg[c]
           w == word_cnt_reg
<1>1. /\ l \in 0 .. Mod32 - 1
      /\ w \in 0 .. Mod17 - 1
      /\ length_reg' = length_reg
      /\ word_cnt_reg' = (w + 1) % Mod17
  BY DEF FinishTransfer, StoreWord, TypeInv, TypeOK, DmaTypeOK, Address
<1>2. w = (l + Mod32 - 1) % Mod32
  <2>1. burstcount_reg # 0
    BY BurstSizeAssumption DEF FinishTransfer, TypeInv, ControlInv, Active
  <2> QED
    BY <2>1 DEF FinishTransfer, LastWord
<1> HIDE DEF l, w
<1>3. CASE l = 0
  <2>1. l + Mod32 - 1 \in 0 .. Mod32 - 1 /\ l + Mod32 - 1 = Mod32 - 1
    BY <1>3, Mod32Assumption, SMT
  <2>2. w = Mod32 - 1
    BY <1>2, <2>1, ModSmall, Mod32Assumption
  <2> QED
    BY <1>1, <2>2, WidthAssumption, Mod32Assumption, SMT
<1>4. CASE l # 0
  <2>1. l - 1 \in 0 .. Mod32 - 1 /\ l + Mod32 - 1 = (l - 1) + Mod32
    BY <1>1, <1>4, Mod32Assumption, SMT
  <2>2. w = l - 1
    BY <1>2, <2>1, ModPlusModulus, Mod32Assumption
  <2>3. l \in 1 .. Mod17 /\ w + 1 = l
    BY <1>1, <1>4, <2>2, WidthAssumption, Mod32Assumption, SMT
  <2> QED
    BY <1>1, <2>3 DEF l
<1> QED
  BY <1>3, <1>4

LEMMA LengthInvNext == LengthInv /\ [Next]_vars => LengthInv'
<1> SUFFICES ASSUME LengthInv, [Next]_vars PROVE StartInv' /\ FinishedAtLength'
  BY TypeInvNext DEF LengthInv
<1> USE DEF LengthInv, StartInv, FinishedAtLength
<1>1. CASE Rest
  BY <1>1 DEF Rest, StayIdle, ClearDatapath, PerChannel
<1>2. CASE Reset
  BY <1>2 DEF Reset, DmaReset, ClearDatapath, PerChannel
<1>3. ASSUME NEW c \in Channel, NEW t \in Transfers[c], Begin(c, t)
      PROVE  StartInv' /\ FinishedAtLength'
  BY <1>3 DEF Begin, Accept, ClearDatapath, PerChannel
<1>4. ASSUME NEW c \in Channel,
             Request(c) \/ Wait(c) \/ RequestTaken(c) \/ Delay(c)
      PROVE  StartInv' /\ FinishedAtLength'
  BY <1>4, StatesDistinct DEF Request, StartBurst, Wait, HoldRequest, RequestTaken,
     EndRequest, Delay, AwaitBeat, dmaVars
<1>5. ASSUME NEW c \in Channel, Beat(c)
      PROVE  StartInv' /\ FinishedAtLength'
  <2>1. \A d \in Channel : ~start_reg[d]
    BY <1>5, StatesDistinct DEF Beat, TakeBeat, FinishBurst, FinishTransfer
  <2>2. CASE TakeBeat(c, TRUE, NextBeat) \/ FinishBurst(c, TRUE, NextBeat)
    BY <2>1, <2>2 DEF TakeBeat, FinishBurst
  <2>3. CASE FinishTransfer(c, TRUE, NextBeat)
    <3>1. \A d \in Channel : start_reg'[d] <=> d = c
      BY <2>1, <2>3 DEF FinishTransfer, TypeInv, TypeOK, DmaTypeOK
    <3>2. state_reg' = "IDLE"
      BY <2>3 DEF FinishTransfer
    <3> QED
      BY <2>3, <3>1, <3>2, FinishedLength
  <2> QED
    BY <1>5, <2>2, <2>3 DEF Beat
<1>6. CASE UNCHANGED vars
  BY <1>6 DEF vars, dmaVars
<1> QED
  BY <1>1, <1>2, <1>3, <1>4, <1>5, <1>6 DEF Next, Edge

THEOREM TransfersFinishAtLength == Spec => []FinishedAtLength
<1>1. Init => LengthInv
  BY TypeInvInit DEF Init, DmaInit, LengthInv, StartInv, FinishedAtLength, PerChannel
<1>2. LengthInv => FinishedAtLength
  BY DEF LengthInv
<1> QED
  BY <1>1, <1>2, LengthInvNext, PTL DEF Spec
-----------------------------------------------------------------------------
(***************************************************************************)
(* The DMA with its bus implements the safety part of TransferSpec: every  *)
(* clock edge is a step of a window-by-window transfer or invisible in it. *)
(***************************************************************************)
(* The channel of a busy DMA.                                              *)
LEMMA CurrentChannel ==
    ASSUME NEW c \in Channel, Active(c)
    PROVE  Current = c /\ state_reg # "IDLE"
<1>1. \A d \in Channel : Active(d) => d = c
  BY StatesDistinct DEF Active
<1>2. state_reg # "IDLE"
  BY StatesDistinct DEF Active
<1> QED
  BY <1>1, <1>2 DEF Current, Channel

LEMMA MappingActive ==
    ASSUME NEW c \in Channel, Active(c)
    PROVE  /\ job = {[chan    |-> c,
                      addr    |-> base,
                      windows |-> length_reg[c] \div BurstSize[c]]}
           /\ delivered = Done(c)
  BY CurrentChannel DEF job, delivered, Done

LEMMA MappingIdle ==
    ASSUME state_reg = "IDLE"
    PROVE  job = {} /\ delivered = 0
  BY DEF job, delivered

LEMMA MappingQuiet ==
    ASSUME \A c \in Channel : ~write_reg[c]
    PROVE  out = {}
  BY DEF out

(* A window on the ports is withdrawn with the write pulse.                *)
LEMMA Quieten ==
    ASSUME \A c \in Channel : ~write_reg'[c], UNCHANGED <<job, delivered>>
    PROVE  [Transfer!Next]_(Transfer!transferVars)
<1>1. out' = {}
  BY DEF out
<1>2. CASE out = {}
  BY <1>1, <1>2 DEF Transfer!transferVars
<1>3. CASE out # {}
  BY <1>1, <1>3 DEF Transfer!Next, Transfer!Withdraw
<1> QED
  BY <1>2, <1>3

(* The mapping after a step into the states of channel c.                  *)
LEMMA MappingNext ==
    ASSUME NEW c \in Channel, Active(c)'
    PROVE  /\ job' = {[chan    |-> c,
                       addr    |-> base',
                       windows |-> length_reg'[c] \div BurstSize[c]]}
           /\ delivered' = Done(c)'
<1>1. \A d \in Channel : Active(d)' => d = c
  BY StatesDistinct DEF Active
<1>2. state_reg' # "IDLE"
  BY StatesDistinct DEF Active
<1>3. Current' = c
  BY <1>1 DEF Current, Channel
<1> QED
  BY <1>2, <1>3 DEF job, delivered, Done

LEMMA InitMapping == Init => Transfer!Init
  BY StatesDistinct DEF Init, DmaInit, PerChannel, job, delivered, out, Transfer!Init

LEMMA RestMapping ==
    ASSUME Rest
    PROVE  [Transfer!Next]_(Transfer!transferVars)
<1>1. \A c \in Channel : ~write_reg'[c]
  BY DEF Rest, StayIdle, ClearDatapath, PerChannel
<1>2. UNCHANGED <<job, delivered>>
  BY DEF Rest, StayIdle, job, delivered
<1> QED
  BY <1>1, <1>2, Quieten

LEMMA ResetMapping ==
    ASSUME Reset
    PROVE  Transfer!Next
<1>1. job' = {} /\ delivered' = 0 /\ out' = {}
  BY DEF Reset, DmaReset, ClearDatapath, PerChannel, job, delivered, out
<1> QED
  BY <1>1 DEF Transfer!Next, Transfer!Abandon

LEMMA BeginMapping ==
    ASSUME WholeWindows, Inv, NEW c \in Channel, NEW t \in Transfers[c], Begin(c, t)
    PROVE  Transfer!Next
<1> DEFINE j == [addr |-> t.addr, windows |-> t.length \div BurstSize[c]]
<1>1. j \in WindowJob[c]
  BY DEF WindowJob
<1>2. job = {}
  BY DEF Begin, Accept, job
<1>3. /\ Active(c)'
      /\ base' = t.addr
      /\ length_reg'[c] = t.length
      /\ cnt_reg'[c] = Mod4 - 1
      /\ \A d \in Channel : ~write_reg'[d]
  BY DEF Begin, Accept, ClearDatapath, PerChannel, Active
<1>4. Done(c)' = 0
  BY <1>3, DoneCleared DEF Done
<1>5. job' = {[chan |-> c, addr |-> j.addr, windows |-> j.windows]} /\ delivered' = 0
  BY <1>3, <1>4, MappingNext
<1>6. out' = {}
  BY <1>3 DEF out
<1>7. Transfer!Start(c, j)
  BY <1>2, <1>5, <1>6 DEF Transfer!Start
<1> HIDE DEF j
<1> QED
  BY <1>1, <1>7 DEF Transfer!Next, Transfer!Channel, Channel

(* Between two windows nothing of the transfer changes.                    *)
LEMMA WithinWindow ==
    ASSUME NEW c \in Channel, Active(c), Active(c)',
           UNCHANGED <<base, length_reg, cnt_reg>>
    PROVE  UNCHANGED <<job, delivered>>
  BY MappingActive, MappingNext DEF Done

LEMMA BusStepMapping ==
    ASSUME Inv, NEW c \in Channel,
           Request(c) \/ Wait(c) \/ RequestTaken(c) \/ Delay(c)
    PROVE  [Transfer!Next]_(Transfer!transferVars)
<1>1. /\ Active(c) /\ Active(c)'
      /\ UNCHANGED <<base, length_reg, cnt_reg>>
  BY DEF Active, Request, StartBurst, Wait, HoldRequest, RequestTaken, EndRequest,
         Delay, AwaitBeat, dmaVars
<1>2. \A d \in Channel : ~write_reg'[d]
  <2>1. \A d \in Channel : write_reg[d] => state_reg = BurstStart(d)
    BY <1>1, StatesDistinct DEF Inv, TransferInv, PulseInv, Active
  <2>2. CASE Request(c)
    BY <2>1, <2>2, StatesDistinct DEF Request, StartBurst, Inv, TypeInv, TypeOK, DmaTypeOK
  <2>3. CASE Wait(c) \/ RequestTaken(c) \/ Delay(c)
    BY <2>1, <2>3, StatesDistinct DEF Wait, HoldRequest, RequestTaken, EndRequest,
       Delay, AwaitBeat, dmaVars
  <2> QED
    BY <2>2, <2>3
<1> QED
  BY <1>1, <1>2, WithinWindow, Quieten

(* The beat that completes a window hands it over.                         *)
LEMMA HandOver ==
    ASSUME Inv, NEW c \in Channel, Beat(c), PulseWrite(c),
           burst_cnt_reg[c] = BurstSize[c] - 1,
           NEW n \in 1 .. Mod4, length_reg[c] = n * BurstSize[c],
           start_reg'[c] <=> Done(c) + 1 = n, start_reg'[c] \in BOOLEAN,
           job' = (IF Done(c) + 1 = n THEN {} ELSE job),
           delivered' = (IF Done(c) + 1 = n THEN 0 ELSE Done(c) + 1)
    PROVE  Transfer!Next
<1> DEFINE j == [chan |-> c, addr |-> base, windows |-> n]
<1>1. job = {j} /\ delivered = Done(c)
  BY MappingActive, Windows, BeatFacts DEF Active
<1>2. out = {}
  BY BeatFacts, MappingQuiet
<1>3. Done(c) % Mod4 = Done(c)
  BY DoneNat, ModSmall, WidthAssumption DEF Inv
<1>4. out' = {[chan |-> c, index |-> Done(c), words |-> WindowAt(c, base, Done(c)),
               last |-> Done(c) + 1 = n]}
  BY AnnouncedWindow DEF out
<1>5. Transfer!Deliver(j)
  BY <1>1, <1>2, <1>3, <1>4 DEF Transfer!Deliver
<1> QED
  BY <1>1, <1>5 DEF Transfer!Next

LEMMA BeatMapping ==
    ASSUME WholeWindows, Inv, NEW c \in Channel, Beat(c)
    PROVE  [Transfer!Next]_(Transfer!transferVars)
<1>1. /\ Active(c)
      /\ \A d \in Channel : ~write_reg[d] /\ ~start_reg[d]
      /\ start_reg \in [Channel -> BOOLEAN]
      /\ UNCHANGED <<base, length_reg>>
  BY BeatFacts, StoredWords DEF Active, Inv, TypeInv, TypeOK, DmaTypeOK
<1>2. PICK n \in 1 .. Mod4 : length_reg[c] = n * BurstSize[c] /\ Done(c) < n
  BY BeatFacts DEF ProgressInv
<1>3. CASE TakeBeat(c, TRUE, NextBeat)
  <2>1. Active(c)' /\ UNCHANGED <<cnt_reg, write_reg>>
    BY <1>1, <1>3 DEF TakeBeat, Active
  <2> QED
    BY <1>1, <2>1, WithinWindow, Quieten
<1>4. CASE FinishBurst(c, TRUE, NextBeat)
  <2>1. burst_cnt_reg[c] = BurstSize[c] - 1 /\ PulseWrite(c)
    BY <1>4, BeatFacts DEF FinishBurst, LastOfBurst
  <2>2. Done(c) + 1 # n
    BY <1>2, <1>4, <2>1, LastWordIsLast DEF FinishBurst
  <2>3. ~start_reg'[c] /\ start_reg'[c] \in BOOLEAN
    BY <1>1, <1>4 DEF FinishBurst
  <2>4. Active(c)' /\ cnt_reg'[c] = Done(c)
    BY <1>4, <2>1, AnnouncedWindow DEF FinishBurst, Active
  <2>5. Done(c)' = Done(c) + 1
    <3>1. Done(c) + 1 \in 0 .. Mod4 - 1
      BY <1>2, <2>2, DoneNat, WidthAssumption, SMT DEF Inv
    <3> QED
      BY <2>4, <3>1, ModSmall, WidthAssumption DEF Done
  <2>6. job' = job /\ delivered' = Done(c) + 1
    BY <1>1, <2>4, <2>5, MappingActive, MappingNext
  <2> QED
    BY <1>2, <2>1, <2>2, <2>3, <2>6, HandOver
<1>5. CASE FinishTransfer(c, TRUE, NextBeat)
  <2>1. PulseWrite(c) /\ start_reg'[c] /\ start_reg'[c] \in BOOLEAN /\ state_reg' = "IDLE"
    BY <1>1, <1>5 DEF FinishTransfer
  <2>2. Done(c) + 1 = n /\ burst_cnt_reg[c] = BurstSize[c] - 1
    BY <1>2, <1>5, LastWordIsLast DEF FinishTransfer
  <2>3. job' = {} /\ delivered' = 0
    BY <2>1 DEF job, delivered
  <2> QED
    BY <1>2, <2>1, <2>2, <2>3, HandOver
<1> QED
  BY <1>3, <1>4, <1>5 DEF Beat

LEMMA StepMapping ==
    ASSUME WholeWindows, Inv, [Next]_vars
    PROVE  [Transfer!Next]_(Transfer!transferVars)
<1>1. ASSUME NEW c \in Channel, Edge(c) PROVE [Transfer!Next]_(Transfer!transferVars)
  BY <1>1, BeginMapping, BusStepMapping, BeatMapping DEF Edge
<1>2. CASE UNCHANGED vars
  <2>1. UNCHANGED <<job, delivered, out>>
    BY <1>2 DEF vars, dmaVars, job, delivered, out, Current, Active
  <2> QED
    BY <2>1 DEF Transfer!transferVars
<1> QED
  BY <1>1, <1>2, RestMapping, ResetMapping DEF Next

(***************************************************************************)
(* Transfers of whole windows hand over every window once, in order and    *)
(* complete, and mark the last one, for any sizes, memory contents, bus    *)
(* delays and resets.                                                      *)
(***************************************************************************)
THEOREM DmaImplementsTransfer == WholeWindows /\ Spec => Transfer!SafetySpec
<1>1. ASSUME WholeWindows PROVE Spec => Transfer!SafetySpec
  <2>1. Inv /\ [Next]_vars => [Transfer!Next]_(Transfer!transferVars)
    BY <1>1, StepMapping
  <2>2. Spec => []Inv
    BY <1>1, Invariance
  <2> QED
    BY <2>1, <2>2, InitMapping, PTL DEF Spec, Transfer!SafetySpec
<1> QED
  BY <1>1
=============================================================================
