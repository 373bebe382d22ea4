--------------------------- MODULE InferenceProofs ---------------------------
(***************************************************************************)
(* Theorems about the whole system, for every value of the constants: the  *)
(* DMA inside the accelerator behaves as DmaBus, and a call that is not    *)
(* hurried returns the class of its image, whatever calls, hurried ones    *)
(* and resets came before.                                                 *)
(*                                                                         *)
(* What is proved of the DMA on its own, of the argmax stage and of the    *)
(* accumulation loop is taken from their proofs through an instance.       *)
(***************************************************************************)
EXTENDS Inference, TLAPS

FetchProofs == INSTANCE DmaBusProofs WITH
    Transfers <- [image  |-> [addr : Images, length : {ImageSize}],
                  weight |-> [addr : {nnWeights}, length : {WeightSize}]]

ArgmaxStage == INSTANCE ArgmaxProofs WITH last <- {}, earlier <- 0, peak <- 0

Arithmetic == INSTANCE MultiplyAccumulateProofs WITH
    Bias <- {}, Terms <- 0, i <- 0, sum <- 0, exact <- 0

Active(c) == state_reg \in {BurstStart(c), BurstWait(c), BurstRead(c)}

\* The registers hold what the program has written so far.
RegisterInv ==
    /\ start_out["image"] => step = 4
    /\ start_out["weight"] => step = 9
    /\ step \in 2 .. 12 => length_out["image"] = ImageSize
    /\ step \in 3 .. 12 => addr_out["image"] = test_image
    /\ step \in 7 .. 12 => length_out["weight"] = WeightSize
    /\ step \in 8 .. 12 => addr_out["weight"] = nnWeights

\* The request line is up while the DMA waits, and it fetches either the whole
\* image or all rows of weights.
PortInv == \A c \in Channel : state_reg = BurstWait(c) => read_reg
SizeInv ==
    /\ Active("image") => length_reg["image"] = ImageSize
    /\ Active("weight") => length_reg["weight"] = WeightSize
    /\ RowsHaveAPlace

\* The pulses on the way through the datapath.
PulseInv == relu_regs_ready_reg => \A c \in Channel : ~write_reg[c]

BestInv == max_val_reg = best /\ best \in Word /\ seen \in Word

-----------------------------------------------------------------------------
\* What a call that is not hurried finds on its way.
Features == [k \in 0 .. Mod4 - 1 |-> Activation(WindowAt("image", test_image, k))]
Rows == [row \in Class |-> WindowAt("weight", nnWeights, row)]

NoWindow == \A c \in Channel : ~write_reg[c]
NoPulse == ~relu_regs_ready_reg /\ ~predictions_ready
Resting == Started = {} /\ state_reg = "IDLE" /\ NoWindow

\* The windows of a transfer that the consumer has stored.
Stored(c) == IF write_reg[c] THEN cnt_reg[c] ELSE (cnt_reg[c] + 1) % Mod4

Calm == Resting /\ NoPulse

ImageAsked == Started = {"image"} /\ state_reg = "IDLE" /\ NoWindow /\ NoPulse

ImageComing ==
    /\ Started = {} /\ NoPulse /\ ~write_reg["weight"]
    /\ base = test_image
    /\ \/ Active("image")
       \/ state_reg = "IDLE" /\ write_reg["image"] /\ cnt_reg["image"] = Mod4 - 1
    /\ \A k \in 0 .. Mod4 - 1 : k < Stored("image") => conv_regs[k] = Features[k]

ImageThrough ==
    /\ Resting /\ relu_regs_ready_reg /\ ~predictions_ready
    /\ conv_regs = Features

ImageIn == Calm /\ relu_data_reg = Features

WeightsAsked ==
    /\ Started = {"weight"} /\ state_reg = "IDLE" /\ NoWindow /\ NoPulse
    /\ relu_data_reg = Features

WeightsComing ==
    /\ Started = {} /\ NoPulse /\ ~write_reg["image"]
    /\ relu_data_reg = Features
    /\ base = nnWeights
    /\ \/ Active("weight")
       \/ state_reg = "IDLE" /\ write_reg["weight"] /\ cnt_reg["weight"] = 2
    /\ \A row \in Class : row < Stored("weight") => weight_data_reg[row] = Rows[row]

ScoresThrough ==
    /\ Resting /\ ~relu_regs_ready_reg /\ predictions_ready
    /\ Predictions = NetworkScores(test_image)

\* The class found is right unless an earlier call had a better score.
Right(class) ==
    LET scores == NetworkScores(test_image)
    IN  Top(scores) >= seen => class = MaxIndex(scores)

ScoresIn == Calm /\ Right(max_idx_reg)

PhaseInv ==
    ~hurried =>
        /\ step = 0 => Calm /\ (prediction # NoPrediction => Right(prediction))
        /\ step \in 1 .. 3 => best = seen /\ Calm
        /\ step = 4 => best = seen /\ (ImageAsked \/ ImageComing \/ ImageThrough \/ ImageIn)
        /\ step = 5 => best = seen /\ (ImageThrough \/ ImageIn)
        /\ step \in 6 .. 8 => best = seen /\ ImageIn
        /\ step = 9 => \/ best = seen /\ (WeightsAsked \/ WeightsComing \/ ScoresThrough)
                       \/ ScoresIn
        /\ step = 10 => (best = seen /\ ScoresThrough) \/ ScoresIn
        /\ step = 11 => ScoresIn
        /\ step = 12 => Calm /\ Right(as_readdata)

BaseInv ==
    /\ TypeOK
    /\ FetchProofs!Inv
    /\ RegisterInv
    /\ PortInv
    /\ SizeInv
    /\ PulseInv
    /\ BestInv

IInv == BaseInv /\ PhaseInv
-----------------------------------------------------------------------------
(***************************************************************************)
(* The assumptions under which the instances were proved about.            *)
(***************************************************************************)
Asked == [image  |-> [addr : Images, length : {ImageSize}],
          weight |-> [addr : {nnWeights}, length : {WeightSize}]]

LEMMA SameNames ==
    /\ FetchProofs!Channel = Channel /\ Fetch!Channel = Channel
    /\ FetchProofs!Address = Address /\ Fetch!Address = Address
    /\ FetchProofs!MemorySize = MemorySize
    /\ Arithmetic!Double = Double /\ ArgmaxStage!Class = Class
  BY DEF FetchProofs!Channel, Fetch!Channel, Channel,
         FetchProofs!Address, Fetch!Address, Address,
         FetchProofs!MemorySize, MemorySize,
         Arithmetic!Double, Double, ArgmaxStage!Class, Class

LEMMA AskedType ==
    /\ \A c \in Channel : Asked[c] \subseteq [addr : Address, length : Address]
    /\ ImageSize \in Address /\ WeightSize \in Address /\ nnWeights \in Address
<1>1. BurstSize["image"] \in Nat \ {0} /\ BurstSize["weight"] \in Nat \ {0} /\ Mod4 \in Nat \ {0}
  BY BurstSizeAssumption, WidthAssumption DEF Channel
<1>2. ImageSize \in Nat /\ WeightSize \in Nat
  BY <1>1, ProgramAssumption, FetchProofs!ProductNat, SMT
<1>3. ImageSize \in Address /\ WeightSize \in Address
  BY <1>2, ProgramAssumption, Mod32Assumption, SMT DEF Address
<1>4. nnWeights \in Address /\ \A a \in Images : a \in Address
  BY ProgramAssumption, Zenon
<1>5. Asked["image"] \subseteq [addr : Address, length : Address]
  BY <1>3, <1>4 DEF Asked
<1>6. Asked["weight"] \subseteq [addr : Address, length : Address]
  BY <1>3, <1>4 DEF Asked
<1> QED
  BY <1>3, <1>4, <1>5, <1>6 DEF Channel

LEMMA FetchAssumptions ==
    /\ \A c \in FetchProofs!Channel :
          Asked[c] \subseteq [addr : FetchProofs!Address, length : FetchProofs!Address]
    /\ MaxPending \in Nat \ {0}
    /\ AddressUnit \in Nat \ {0}
    /\ FetchProofs!MemorySize \in Nat \ {0}
    /\ Memory \in [0 .. FetchProofs!MemorySize - 1 -> Word]
    /\ Mod32 \in Nat \ {0} /\ Zero \in Word
    /\ BurstSize \in [FetchProofs!Channel -> Nat \ {0}]
    /\ Mod4 \in Nat \ {0} /\ Mod17 \in Nat \ {0} /\ Mod17 < Mod32
<1>1. /\ AddressUnit \in Nat \ {0}
      /\ FetchProofs!MemorySize \in Nat \ {0}
      /\ Memory \in [0 .. FetchProofs!MemorySize - 1 -> Word]
  BY SameNames, MemoryAssumption, Zenon
<1>2. \A c \in FetchProofs!Channel :
          Asked[c] \subseteq [addr : FetchProofs!Address, length : FetchProofs!Address]
  BY SameNames, AskedType, Zenon
<1>3. BurstSize \in [FetchProofs!Channel -> Nat \ {0}]
  BY SameNames, BurstSizeAssumption, Zenon
<1> QED
  BY <1>1, <1>2, <1>3, ProgramAssumption, Mod32Assumption, WordAssumption, WidthAssumption, Zenon

\* All the transfers the program asks for are whole windows.
LEMMA WholeWindowsAsked == FetchProofs!WholeWindows
<1>1. ASSUME NEW t \in Asked["image"]
      PROVE  t.length = ImageSize
  BY <1>1 DEF Asked
<1>2. ASSUME NEW t \in Asked["weight"]
      PROVE  t.length = WeightSize
  BY <1>2 DEF Asked
<1>3. Mod4 \in 1 .. Mod4 /\ 3 \in 1 .. Mod4
  BY WidthAssumption, ProgramAssumption
<1>4. ASSUME NEW c \in FetchProofs!Channel, NEW t \in Asked[c]
      PROVE  t.length <= Mod17 /\ \E n \in 1 .. Mod4 : t.length = n * BurstSize[c]
  BY <1>1, <1>2, <1>3, SameNames, ProgramAssumption DEF Channel
<1> QED
  BY <1>4 DEF FetchProofs!WholeWindows, Asked
-----------------------------------------------------------------------------
(***************************************************************************)
(* The actions of the two instances of DmaBus are the same.                *)
(***************************************************************************)
LEMMA SameClear ==
    /\ Fetch!ClearDatapath <=> ClearDatapath
    /\ FetchProofs!ClearDatapath <=> ClearDatapath
    /\ \A v : Fetch!PerChannel(v) = PerChannel(v) /\ FetchProofs!PerChannel(v) = PerChannel(v)
  BY DEF Fetch!ClearDatapath, ClearDatapath, FetchProofs!ClearDatapath,
         Fetch!ClearedData, ClearedData, FetchProofs!ClearedData,
         Fetch!PerChannel, PerChannel, FetchProofs!PerChannel,
         Fetch!Channel, FetchProofs!Channel, Channel

LEMMA SameBus ==
    /\ Fetch!NextBeat = NextBeat /\ FetchProofs!NextBeat = NextBeat
    /\ Fetch!AfterBeat = AfterBeat /\ FetchProofs!AfterBeat = AfterBeat
    /\ Fetch!DeliverBeat <=> DeliverBeat
    /\ FetchProofs!DeliverBeat <=> DeliverBeat
    /\ Fetch!BusAside <=> BusIdle \/ DeliverBeat
    /\ FetchProofs!BusAside <=> BusIdle \/ DeliverBeat
    /\ Fetch!BusIdle <=> BusIdle
    /\ FetchProofs!BusIdle <=> BusIdle
  BY DEF Fetch!NextBeat, NextBeat, FetchProofs!NextBeat,
         Fetch!AfterBeat, AfterBeat, FetchProofs!AfterBeat,
         Fetch!DeliverBeat, DeliverBeat, FetchProofs!DeliverBeat,
         Fetch!CellAt, CellAt, FetchProofs!CellAt,
         Fetch!MemorySize, MemorySize, FetchProofs!MemorySize,
         Fetch!BusAside, FetchProofs!BusAside,
         Fetch!BusIdle, BusIdle, FetchProofs!BusIdle

LEMMA SameRest == Fetch!Rest <=> FetchProofs!Rest
  BY SameClear, SameBus
     DEF Fetch!Rest, FetchProofs!Rest, Fetch!StayIdle, FetchProofs!StayIdle

LEMMA SameReset == Fetch!Reset <=> FetchProofs!Reset
  BY SameClear
     DEF Fetch!Reset, FetchProofs!Reset, Fetch!DmaReset, FetchProofs!DmaReset,
         Fetch!BusReset, FetchProofs!BusReset

LEMMA SameBegin ==
    ASSUME NEW c \in Channel, NEW t
    PROVE  Fetch!Begin(c, t) <=> FetchProofs!Begin(c, t)
  BY SameClear, SameBus
     DEF Fetch!Begin, FetchProofs!Begin, Fetch!Accept, FetchProofs!Accept,
         Fetch!BurstStart, FetchProofs!BurstStart

LEMMA SameWaits ==
    ASSUME NEW c \in Channel
    PROVE  /\ Fetch!Request(c) <=> FetchProofs!Request(c)
           /\ Fetch!Wait(c) <=> FetchProofs!Wait(c)
           /\ Fetch!RequestTaken(c) <=> FetchProofs!RequestTaken(c)
           /\ Fetch!Delay(c) <=> FetchProofs!Delay(c)
  BY SameBus
     DEF Fetch!Request, FetchProofs!Request, Fetch!StartBurst, FetchProofs!StartBurst,
         Fetch!Wait, FetchProofs!Wait, Fetch!HoldRequest, FetchProofs!HoldRequest,
         Fetch!RequestTaken, FetchProofs!RequestTaken,
         Fetch!EndRequest, FetchProofs!EndRequest,
         Fetch!AcceptRequest, FetchProofs!AcceptRequest,
         Fetch!Delay, FetchProofs!Delay, Fetch!AwaitBeat, FetchProofs!AwaitBeat,
         Fetch!BurstStart, FetchProofs!BurstStart,
         Fetch!BurstWait, FetchProofs!BurstWait,
         Fetch!BurstRead, FetchProofs!BurstRead,
         Fetch!dmaVars, FetchProofs!dmaVars

LEMMA SameBeat ==
    ASSUME NEW c \in Channel
    PROVE  Fetch!Beat(c) <=> FetchProofs!Beat(c)
  BY SameBus
     DEF Fetch!Beat, FetchProofs!Beat, Fetch!TakeBeat, FetchProofs!TakeBeat,
         Fetch!FinishBurst, FetchProofs!FinishBurst,
         Fetch!FinishTransfer, FetchProofs!FinishTransfer,
         Fetch!LastWord, FetchProofs!LastWord, Fetch!LastOfBurst, FetchProofs!LastOfBurst,
         Fetch!PulseWrite, FetchProofs!PulseWrite,
         Fetch!StoreWord, FetchProofs!StoreWord,
         Fetch!BurstStart, FetchProofs!BurstStart,
         Fetch!BurstRead, FetchProofs!BurstRead

LEMMA SameNext ==
    ASSUME [Fetch!Next]_(Fetch!vars)
    PROVE  [FetchProofs!Next]_(FetchProofs!vars)
<1>1. ASSUME NEW c \in Channel, Fetch!Edge(c) PROVE FetchProofs!Edge(c)
  BY <1>1, SameBegin, SameWaits, SameBeat DEF Fetch!Edge, FetchProofs!Edge
<1>2. CASE UNCHANGED Fetch!vars
  BY <1>2 DEF Fetch!vars, FetchProofs!vars, Fetch!dmaVars, FetchProofs!dmaVars
<1> QED
  BY <1>1, <1>2, SameNames, SameRest, SameReset DEF Fetch!Next, FetchProofs!Next
-----------------------------------------------------------------------------
(***************************************************************************)
(* The DMA inside the accelerator behaves as DmaBus.                       *)
(***************************************************************************)
(* What the invariant of DmaBus says in terms of the accelerator.          *)
LEMMA DmaFacts ==
    ASSUME FetchProofs!Inv
    PROVE  /\ DmaTypeOK /\ pending \in Seq(Burst) /\ base \in Address
           /\ read_reg => \E d \in Channel : state_reg = BurstWait(d)
           /\ \A c \in Channel :
                 /\ write_reg[c] => state_reg \in {"IDLE", BurstStart(c)}
                 /\ start_reg[c] => state_reg = "IDLE" /\ write_reg[c]
                 /\ state_reg = "IDLE" /\ write_reg[c] => start_reg[c]
                 /\ \A d \in Channel : write_reg[c] /\ write_reg[d] => c = d
                 /\ write_reg[c] => data_reg[c] = WindowAt(c, base, cnt_reg[c])
<1>1. FetchProofs!TypeOK /\ FetchProofs!ControlInv /\ FetchProofs!TransferInv
  BY DEF FetchProofs!Inv, FetchProofs!TypeInv
<1>2. DmaTypeOK /\ pending \in Seq(Burst) /\ base \in Address
  BY <1>1, SameNames
     DEF FetchProofs!TypeOK, FetchProofs!DmaTypeOK, DmaTypeOK, FetchProofs!Burst, Burst,
         FetchProofs!State, State, FetchProofs!BurstStart, BurstStart,
         FetchProofs!BurstWait, BurstWait, FetchProofs!BurstRead, BurstRead
<1>3. read_reg => \E d \in Channel : state_reg = BurstWait(d)
  BY <1>1, SameNames DEF FetchProofs!ControlInv, FetchProofs!BurstWait, BurstWait, Channel
<1>4. ASSUME NEW c \in Channel
      PROVE  FetchProofs!PulseInv(c) /\ FetchProofs!WindowAt(c, base, cnt_reg[c])
                                          = WindowAt(c, base, cnt_reg[c])
  BY <1>1, SameNames
     DEF FetchProofs!TransferInv, FetchProofs!WindowAt, WindowAt,
         FetchProofs!CellAt, CellAt, FetchProofs!MemorySize, MemorySize
<1> QED
  BY <1>2, <1>3, <1>4, SameNames DEF FetchProofs!PulseInv, FetchProofs!BurstStart, BurstStart

(* The states are distinct.                                                *)
LEMMA States ==
    ASSUME NEW c \in Channel, NEW d \in Channel
    PROVE  /\ BurstStart(c) # "IDLE" /\ BurstWait(c) # "IDLE" /\ BurstRead(c) # "IDLE"
           /\ BurstStart(c) # BurstWait(d)
           /\ BurstStart(c) # BurstRead(d)
           /\ BurstWait(c) # BurstRead(d)
           /\ BurstStart(c) = BurstStart(d) => c = d
           /\ BurstWait(c) = BurstWait(d) => c = d
           /\ BurstRead(c) = BurstRead(d) => c = d
  BY DEF Channel, BurstStart, BurstWait, BurstRead

(* A start input rises with the transfer the program means.                *)
LEMMA StartsMean ==
    ASSUME RegisterInv, TypeOK, NEW c \in Channel, c \in Started
    PROVE  /\ Started = {c}
           /\ c = "image" => step = 4 /\ addr_out[c] = test_image /\ length_out[c] = ImageSize
           /\ c = "weight" => step = 9 /\ addr_out[c] = nnWeights /\ length_out[c] = WeightSize
           /\ [addr |-> addr_out[c], length |-> length_out[c]] \in Asked[c]
<1>1. /\ c = "image" => step = 4 /\ addr_out[c] = test_image /\ length_out[c] = ImageSize
      /\ c = "weight" => step = 9 /\ addr_out[c] = nnWeights /\ length_out[c] = WeightSize
  BY DEF RegisterInv, Started
<1>2. Started = {c}
  BY <1>1 DEF RegisterInv, Started, Channel
<1>3. CASE c = "image"
  <2>1. test_image \in Images
    BY DEF TypeOK
  <2> QED
    BY <1>1, <1>2, <1>3, <2>1 DEF Asked
<1>4. CASE c = "weight"
  BY <1>1, <1>2, <1>4 DEF Asked
<1> QED
  BY <1>3, <1>4 DEF Channel

(* An edge that takes no request from the DMA.                             *)
LEMMA BusStaysAside ==
    ASSUME NEW valid \in BOOLEAN, NEW waitrequest \in BOOLEAN, NEW readdata,
           ~read_reg \/ waitrequest,
           BusEdge(read_reg, address_reg, burstcount_out_reg, waitrequest, valid, readdata)
    PROVE  /\ BusIdle \/ DeliverBeat
           /\ valid => DeliverBeat /\ readdata = NextBeat
           /\ ~valid => BusIdle
  BY DEF BusEdge, DeliverBeat

(* What an edge is in DmaBus: a transfer begins only when one is asked for, *)
(* and it is that one.                                                     *)
LEMMA EdgeActions ==
    ASSUME TypeOK, FetchProofs!Inv, RegisterInv, PortInv, NEW cmd, Edge(cmd)
    PROVE  \/ Started = {} /\ Fetch!Rest
           \/ \E c \in Started :
                 Fetch!Begin(c, [addr |-> addr_out[c], length |-> length_out[c]])
           \/ \E c \in Channel : \/ Fetch!Request(c) \/ Fetch!Wait(c) \/ Fetch!RequestTaken(c)
                                 \/ Fetch!Delay(c) \/ Fetch!Beat(c)
<1>1. PICK waitrequest \in BOOLEAN, valid \in BOOLEAN :
          BusMay(waitrequest, valid, MaxPending) /\ AccEdge(cmd, waitrequest, valid)
  BY DEF Edge
<1>2. PICK rd : /\ rd = IF valid THEN NextBeat ELSE Zero
                /\ DmaEdge(Started, addr_out, length_out, waitrequest, valid, rd)
                /\ BusEdge(read_reg, address_reg, burstcount_out_reg, waitrequest, valid, rd)
  BY <1>1 DEF AccEdge
<1>3. base' = IF state_reg = "IDLE" /\ Started # {}
              THEN addr_out[IF "image" \in Started THEN "image" ELSE "weight"] ELSE base
  BY DEF Edge, History
<1>4. state_reg \notin {BurstWait(d) : d \in Channel} \/ waitrequest =>
          /\ BusIdle \/ DeliverBeat
          /\ valid => DeliverBeat /\ rd = NextBeat
          /\ ~valid => BusIdle
  BY <1>2, BusStaysAside, DmaFacts
<1>5. CASE StayIdle(Started)
  <2>1. state_reg \notin {BurstWait(d) : d \in Channel}
    BY <1>5, States DEF StayIdle
  <2>2. UNCHANGED base /\ Started = {}
    BY <1>3, <1>5 DEF StayIdle
  <2>3. Fetch!StayIdle({})
    BY <1>5, SameClear DEF StayIdle, Fetch!StayIdle
  <2> QED
    BY <1>4, <2>1, <2>2, <2>3, SameBus DEF Fetch!Rest
<1>6. ASSUME NEW c \in Channel, Accept(c, Started, addr_out, length_out)
      PROVE  c \in Started
             /\ Fetch!Begin(c, [addr |-> addr_out[c], length |-> length_out[c]])
  <2> DEFINE t == [addr |-> addr_out[c], length |-> length_out[c]]
  <2>1. state_reg \notin {BurstWait(d) : d \in Channel} /\ c \in Started
    BY <1>6, States DEF Accept
  <2>2. Started = {c} /\ t \in Asked[c]
    BY <2>1, StartsMean
  <2>3. base' = t.addr
    BY <1>3, <1>6, <2>2 DEF Accept, Channel
  <2>4. Fetch!Accept(c, {c}, Fetch!PerChannel(t.addr), Fetch!PerChannel(t.length))
    BY <1>6, SameClear DEF Accept, Fetch!Accept, PerChannel, Fetch!BurstStart, BurstStart
  <2>5. Fetch!Begin(c, t)
    BY <1>4, <2>1, <2>3, <2>4, SameBus DEF Fetch!Begin
  <2> QED
    BY <2>1, <2>5
<1>7. ASSUME NEW c \in Channel, StartBurst(c)
      PROVE  Fetch!Request(c)
  <2>1. state_reg \notin {BurstWait(d) : d \in Channel} /\ UNCHANGED base
    BY <1>3, <1>7, States DEF StartBurst
  <2> QED
    BY <1>4, <1>7, <2>1, SameBus DEF Fetch!Request, StartBurst, Fetch!StartBurst,
       Fetch!BurstStart, BurstStart, Fetch!BurstWait, BurstWait
<1>8. ASSUME NEW c \in Channel, HoldRequest(c, waitrequest)
      PROVE  Fetch!Wait(c)
  <2>1. waitrequest /\ UNCHANGED base
    BY <1>3, <1>8, States DEF HoldRequest
  <2> QED
    BY <1>4, <1>8, <2>1, SameBus DEF Fetch!Wait, HoldRequest, Fetch!HoldRequest,
       Fetch!BurstWait, BurstWait, Fetch!dmaVars, dmaVars
<1>9. ASSUME NEW c \in Channel, EndRequest(c, waitrequest)
      PROVE  Fetch!RequestTaken(c)
  <2>1. ~waitrequest /\ state_reg = BurstWait(c) /\ UNCHANGED base
    BY <1>3, <1>9, States DEF EndRequest
  <2>2. read_reg /\ Len(pending) < MaxPending
    BY <1>1, <2>1 DEF PortInv, BusMay
  <2>3. AcceptRequest(address_reg, burstcount_out_reg, valid)
    BY <1>2, <2>1, <2>2 DEF BusEdge
  <2>4. Fetch!AcceptRequest(address_reg, burstcount_out_reg, valid)
    BY <2>3, SameBus DEF AcceptRequest, Fetch!AcceptRequest
  <2>5. Fetch!EndRequest(c, FALSE)
    BY <1>9, <2>1 DEF EndRequest, Fetch!EndRequest, Fetch!BurstWait, BurstWait,
       Fetch!BurstRead, BurstRead
  <2> QED
    BY <2>1, <2>2, <2>4, <2>5 DEF Fetch!RequestTaken
<1>10. ASSUME NEW c \in Channel, AwaitBeat(c, valid)
       PROVE  Fetch!Delay(c)
  <2>1. state_reg \notin {BurstWait(d) : d \in Channel} /\ ~valid /\ UNCHANGED base
    BY <1>3, <1>10, States DEF AwaitBeat
  <2> QED
    BY <1>4, <1>10, <2>1, SameBus DEF Fetch!Delay, AwaitBeat, Fetch!AwaitBeat,
       Fetch!BurstRead, BurstRead, Fetch!dmaVars, dmaVars
<1>11. ASSUME NEW c \in Channel,
              TakeBeat(c, valid, rd) \/ FinishBurst(c, valid, rd) \/ FinishTransfer(c, valid, rd)
       PROVE  Fetch!Beat(c)
  <2>1. /\ state_reg \notin {BurstWait(d) : d \in Channel} /\ state_reg # "IDLE"
        /\ valid /\ UNCHANGED base
    BY <1>3, <1>11, States DEF TakeBeat, FinishBurst, FinishTransfer
  <2>2. DeliverBeat /\ rd = NextBeat /\ valid = TRUE
    BY <1>4, <2>1
  <2>3. \/ Fetch!TakeBeat(c, TRUE, NextBeat) \/ Fetch!FinishBurst(c, TRUE, NextBeat)
        \/ Fetch!FinishTransfer(c, TRUE, NextBeat)
    BY <1>11, <2>2 DEF TakeBeat, Fetch!TakeBeat, FinishBurst, Fetch!FinishBurst,
       FinishTransfer, Fetch!FinishTransfer, LastWord, Fetch!LastWord,
       LastOfBurst, Fetch!LastOfBurst, PulseWrite, Fetch!PulseWrite,
       StoreWord, Fetch!StoreWord, BurstStart, Fetch!BurstStart, BurstRead, Fetch!BurstRead
  <2> QED
    BY <2>1, <2>2, <2>3, SameBus DEF Fetch!Beat
<1> QED
  BY <1>2, <1>5, <1>6, <1>7, <1>8, <1>9, <1>10, <1>11 DEF DmaEdge

LEMMA EdgeFetches ==
    ASSUME TypeOK, FetchProofs!Inv, RegisterInv, PortInv, NEW cmd, Edge(cmd)
    PROVE  Fetch!Next
<1>1. ASSUME NEW c \in Started,
             Fetch!Begin(c, [addr |-> addr_out[c], length |-> length_out[c]])
      PROVE  Fetch!Next
  <2>1. c \in Channel /\ [addr |-> addr_out[c], length |-> length_out[c]] \in Asked[c]
    BY StartsMean DEF Started
  <2> QED
    BY <1>1, <2>1, SameNames DEF Fetch!Next, Fetch!Edge, Asked
<1>2. ASSUME NEW c \in Channel, \/ Fetch!Request(c) \/ Fetch!Wait(c) \/ Fetch!RequestTaken(c)
                               \/ Fetch!Delay(c) \/ Fetch!Beat(c)
      PROVE  Fetch!Next
  BY <1>2, SameNames DEF Fetch!Next, Fetch!Edge
<1> QED
  BY <1>1, <1>2, EdgeActions DEF Fetch!Next

-----------------------------------------------------------------------------
(***************************************************************************)
(* What an edge does to the DMA, as far as the consumers can tell.         *)
(***************************************************************************)
Done(c) == (cnt_reg[c] + 1) % Mod4
Windows(c) == IF c = "image" THEN Mod4 ELSE 3

Cleared == \A c \in Channel : cnt_reg'[c] = Mod4 - 1 /\ ~write_reg'[c]
Rests == /\ state_reg = "IDLE" /\ Started = {} /\ state_reg' = "IDLE"
         /\ base' = base /\ Cleared
Accepts(c) == /\ state_reg = "IDLE" /\ Started = {c} /\ state_reg' = BurstStart(c)
              /\ base' = addr_out[c] /\ length_reg'[c] = length_out[c] /\ Cleared
Proceeds(c) == /\ Active(c) /\ Active(c)' /\ UNCHANGED <<base, length_reg, cnt_reg>>
               /\ \A d \in Channel : ~write_reg'[d]
Announces(c) == /\ state_reg = BurstRead(c) /\ UNCHANGED <<base, length_reg>>
                /\ \A d \in Channel : ~write_reg[d] /\ (write_reg'[d] <=> d = c)
                /\ cnt_reg'[c] = Done(c)
                /\ Done(c) \in 0 .. Windows(c) - 1
                /\ state_reg' = IF Done(c) + 1 = Windows(c) THEN "IDLE" ELSE BurstStart(c)

LEMMA Cancel ==
    ASSUME NEW m \in Nat \ {0}, NEW k \in Nat, NEW n \in Nat, k * m = n * m
    PROVE  k = n
<1>1. k * m \in Nat /\ k * m = k * m + 0 /\ n * m = n * m + 0 /\ 0 \in 0 .. m - 1
  BY FetchProofs!ProductNat
<1>2. (k * m) \div m = k /\ (n * m) \div m = n
  BY <1>1, FetchProofs!ModUnique
<1> QED
  BY <1>2

(* A transfer in progress is of as many windows as the program asked for.  *)
LEMMA WindowsOfTransfer ==
    ASSUME SizeInv, NEW c \in Channel, Active(c),
           NEW n \in 1 .. Mod4, length_reg[c] = n * BurstSize[c]
    PROVE  n = Windows(c)
<1>1. length_reg[c] = Windows(c) * BurstSize[c]
  BY ProgramAssumption DEF SizeInv, Windows, Channel
<1>2. BurstSize[c] \in Nat \ {0} /\ n \in Nat /\ Windows(c) \in Nat
  BY BurstSizeAssumption, WidthAssumption DEF Windows
<1> QED
  BY <1>1, <1>2, Cancel

LEMMA BeatStep ==
    ASSUME FetchProofs!Inv, SizeInv, NEW c \in Channel, FetchProofs!Beat(c)
    PROVE  Proceeds(c) \/ Announces(c)
<1>1. /\ FetchProofs!ProgressInv(c) /\ state_reg = BurstRead(c)
      /\ burstcount_reg = BurstSize[c] /\ burst_cnt_reg[c] \in 0 .. BurstSize[c] - 1
      /\ \A d \in Channel : ~write_reg[d]
  BY FetchAssumptions, FetchProofs!BeatFacts, SameNames DEF Asked, FetchProofs!BurstRead, BurstRead
<1>2. Active(c) /\ FetchProofs!Done(c) = Done(c)
  BY <1>1 DEF Active, FetchProofs!Done, Done
<1>3. PICK n \in 1 .. Mod4 : length_reg[c] = n * BurstSize[c] /\ Done(c) < n
  BY <1>1, <1>2 DEF FetchProofs!ProgressInv
<1>4. n = Windows(c)
  BY <1>2, <1>3, WindowsOfTransfer
<1>5. FetchProofs!LastWord(c) <=> Done(c) + 1 = n /\ burst_cnt_reg[c] = BurstSize[c] - 1
  <2>1. c \in FetchProofs!Channel /\ FetchProofs!Done(c) < n
    BY <1>2, <1>3, SameNames
  <2>2. FetchProofs!LastWord(c) <=> FetchProofs!Done(c) + 1 = n
                                     /\ burst_cnt_reg[c] = BurstSize[c] - 1
    BY <1>3, <2>1, FetchAssumptions, FetchProofs!LastWordIsLast, ZenonT(30) DEF Asked
  <2> QED
    BY <1>2, <2>2
<1>6. cnt_reg \in [Channel -> 0 .. Mod4 - 1] /\ write_reg \in [Channel -> BOOLEAN]
  BY DmaFacts DEF DmaTypeOK
<1>7. Done(c) \in 0 .. Windows(c) - 1
  <2>1. cnt_reg[c] + 1 \in Nat
    BY <1>6
  <2>2. Done(c) \in Nat
    BY <2>1, WidthAssumption, FetchProofs!DivMod DEF Done
  <2> QED
    BY <1>3, <1>4, <2>2
<1>8. UNCHANGED <<base, length_reg>>
  BY DEF FetchProofs!Beat, FetchProofs!TakeBeat, FetchProofs!FinishBurst,
     FetchProofs!FinishTransfer, FetchProofs!StoreWord
<1>9. CASE FetchProofs!TakeBeat(c, TRUE, NextBeat)
  BY <1>1, <1>2, <1>8, <1>9 DEF FetchProofs!TakeBeat, Proceeds, Active
<1>10. ASSUME FetchProofs!PulseWrite(c)
       PROVE  /\ \A d \in Channel : write_reg'[d] <=> d = c
              /\ cnt_reg'[c] = Done(c)
  BY <1>1, <1>6, <1>10 DEF FetchProofs!PulseWrite, Done
<1>11. CASE FetchProofs!FinishBurst(c, TRUE, NextBeat)
  <2>1. state_reg' = BurstStart(c) /\ FetchProofs!PulseWrite(c)
        /\ ~FetchProofs!LastWord(c) /\ FetchProofs!LastOfBurst(c)
    BY <1>11 DEF FetchProofs!FinishBurst, FetchProofs!BurstStart, BurstStart
  <2>2. Done(c) + 1 # Windows(c)
    BY <1>1, <1>4, <1>5, <2>1 DEF FetchProofs!LastOfBurst
  <2> QED
    BY <1>1, <1>7, <1>8, <1>10, <2>1, <2>2 DEF Announces
<1>12. CASE FetchProofs!FinishTransfer(c, TRUE, NextBeat)
  <2>1. state_reg' = "IDLE" /\ FetchProofs!PulseWrite(c) /\ FetchProofs!LastWord(c)
    BY <1>12 DEF FetchProofs!FinishTransfer
  <2>2. Done(c) + 1 = Windows(c)
    BY <1>4, <1>5, <2>1
  <2> QED
    BY <1>1, <1>7, <1>8, <1>10, <2>1, <2>2 DEF Announces
<1> QED
  BY <1>9, <1>11, <1>12, SameBus DEF FetchProofs!Beat

(* An edge leaves the DMA at rest, begins a transfer, continues it, or     *)
(* announces its next window.                                              *)
LEMMA DmaStep ==
    ASSUME TypeOK, FetchProofs!Inv, RegisterInv, PortInv, SizeInv, NEW cmd, Edge(cmd)
    PROVE  \/ Rests
           \/ \E c \in Started : Accepts(c)
           \/ \E c \in Channel : Proceeds(c) \/ Announces(c)
<1>1. CASE Started = {} /\ Fetch!Rest
  BY <1>1, SameClear
     DEF Fetch!Rest, Fetch!StayIdle, ClearDatapath, PerChannel, Rests, Cleared
<1>2. ASSUME NEW c \in Started,
             Fetch!Begin(c, [addr |-> addr_out[c], length |-> length_out[c]])
      PROVE  Accepts(c)
  <2>1. Started = {c} /\ c \in Channel
    BY StartsMean DEF Started
  <2>2. /\ state_reg = "IDLE" /\ state_reg' = BurstStart(c) /\ base' = addr_out[c]
        /\ length_reg' = [Fetch!PerChannel(0) EXCEPT ![c] = Fetch!PerChannel(length_out[c])[c]]
        /\ ClearDatapath
    BY <1>2, SameClear DEF Fetch!Begin, Fetch!Accept, Fetch!BurstStart, BurstStart
  <2>3. length_reg'[c] = length_out[c]
    BY <2>1, <2>2, SameClear DEF PerChannel
  <2>4. Cleared
    BY <2>2 DEF ClearDatapath, PerChannel, Cleared
  <2> QED
    BY <2>1, <2>2, <2>3, <2>4 DEF Accepts
<1>3. ASSUME NEW c \in Channel,
             Fetch!Request(c) \/ Fetch!Wait(c) \/ Fetch!RequestTaken(c) \/ Fetch!Delay(c)
      PROVE  Proceeds(c)
  <2>1. /\ Active(c) /\ Active(c)'
        /\ UNCHANGED <<base, length_reg, cnt_reg>>
    BY <1>3 DEF Active, Fetch!Request, Fetch!StartBurst, Fetch!Wait, Fetch!HoldRequest,
       Fetch!RequestTaken, Fetch!EndRequest, Fetch!Delay, Fetch!AwaitBeat, Fetch!dmaVars,
       Fetch!BurstStart, BurstStart, Fetch!BurstWait, BurstWait, Fetch!BurstRead, BurstRead
  <2>2. \A d \in Channel : write_reg[d] => state_reg = BurstStart(c) /\ d = c
    BY <2>1, DmaFacts, States DEF Active
  <2>3. CASE Fetch!Request(c)
    <3>1. write_reg' = [write_reg EXCEPT ![c] = FALSE]
      BY <2>3 DEF Fetch!Request, Fetch!StartBurst
    <3>2. write_reg \in [Channel -> BOOLEAN]
      BY DmaFacts DEF DmaTypeOK
    <3> QED
      BY <2>1, <2>2, <3>1, <3>2 DEF Proceeds
  <2>4. CASE Fetch!Wait(c) \/ Fetch!RequestTaken(c) \/ Fetch!Delay(c)
    <3>1. write_reg' = write_reg /\ state_reg \in {BurstWait(c), BurstRead(c)}
      BY <2>4 DEF Fetch!Wait, Fetch!HoldRequest, Fetch!RequestTaken, Fetch!EndRequest,
         Fetch!Delay, Fetch!AwaitBeat, Fetch!dmaVars,
         Fetch!BurstWait, BurstWait, Fetch!BurstRead, BurstRead
    <3>2. \A d \in Channel : ~write_reg[d]
      BY <2>2, <3>1, States
    <3> QED
      BY <2>1, <3>1, <3>2 DEF Proceeds
  <2> QED
    BY <1>3, <2>3, <2>4
<1>4. ASSUME NEW c \in Channel, Fetch!Beat(c)
      PROVE  Proceeds(c) \/ Announces(c)
  BY <1>4, SameBeat, BeatStep
<1> QED
  BY <1>1, <1>2, <1>3, <1>4, EdgeActions

-----------------------------------------------------------------------------
(***************************************************************************)
(* Types.                                                                  *)
(***************************************************************************)
LEMMA SameArithmetic ==
    /\ \A xs, bias, ys : Arithmetic!ConvFilter(xs, bias, ys) = ConvFilter(xs, bias, ys)
    /\ \A xs, ys : Arithmetic!Neuron(ys, xs) = Neuron(ys, xs)
    /\ \A n : Arithmetic!Vectors(n) = [0 .. n - 1 -> Word]
<1>1. ASSUME NEW start, NEW xs, NEW ys
      PROVE  Arithmetic!Accumulate(start, xs, ys) = Accumulate(start, xs, ys)
  BY DEF Arithmetic!Accumulate, Accumulate, Arithmetic!Cardinality, Cardinality,
         Arithmetic!MulAdd, MulAdd, Arithmetic!Signed, Signed
<1>2. \A x : Arithmetic!Narrow(x) = Narrow(x)
  BY DEF Arithmetic!Narrow, Narrow
<1>3. \A xs, bias, ys : Arithmetic!ConvFilter(xs, bias, ys) = ConvFilter(xs, bias, ys)
  BY <1>1, <1>2 DEF Arithmetic!ConvFilter, ConvFilter
<1>4. \A xs, ys : Arithmetic!Neuron(ys, xs) = Neuron(ys, xs)
  BY <1>1, <1>2 DEF Arithmetic!Neuron, Neuron
<1>5. \A n : Arithmetic!Vectors(n) = [0 .. n - 1 -> Word]
  BY DEF Arithmetic!Vectors
<1> QED
  BY <1>3, <1>4, <1>5

LEMMA DotProducts ==
    ASSUME NEW n \in Nat, NEW xs \in [0 .. n - 1 -> Word], NEW ys \in [0 .. n - 1 -> Word]
    PROVE  /\ \A bias \in Double : ConvFilter(xs, bias, ys) \in Word
           /\ Neuron(ys, xs) \in Word
<1>1. xs \in Arithmetic!Vectors(n) /\ ys \in Arithmetic!Vectors(n)
  BY SameArithmetic, Zenon
<1>2. {} \subseteq Arithmetic!Double /\ 0 \in Nat
  OBVIOUS
<1>3. /\ \A bias \in Arithmetic!Double : Arithmetic!ConvFilter(xs, bias, ys) \in Word
      /\ Arithmetic!Neuron(ys, xs) \in Word
  BY <1>1, <1>2, Arithmetic!DotProductType, FixedPointAssumption, WordAssumption,
     Mod32Assumption, ZenonT(30)
<1> QED
  BY <1>3, SameNames, SameArithmetic, ZenonT(30)

LEMMA PredictionsType ==
    ASSUME FcTypeOK
    PROVE  Predictions \in [Class -> Word]
<1>1. Mod4 \in Nat
  BY WidthAssumption
<1>2. \A row \in Class : Neuron(relu_data_reg, weight_data_reg[row]) \in Word
  <2>1. \A row \in Class : weight_data_reg[row] \in [0 .. Mod4 - 1 -> Word]
    BY DEF FcTypeOK, Vector
  <2>2. relu_data_reg \in [0 .. Mod4 - 1 -> Word]
    BY DEF FcTypeOK, Vector
  <2> QED
    BY <1>1, <2>1, <2>2, DotProducts
<1> QED
  BY <1>2 DEF Predictions

LEMMA ActivationType ==
    ASSUME NEW window \in [0 .. BurstSize["image"] - 1 -> Word]
    PROVE  Activation(window) \in Word
<1>1. BurstSize["image"] \in Nat /\ conv_weights \in [0 .. BurstSize["image"] - 1 -> Word]
      /\ conv_bias \in Double
  BY BurstSizeAssumption, ShapeAssumption DEF Channel
<1>2. ConvFilter(conv_weights, conv_bias, window) \in Word
  BY <1>1, DotProducts
<1>3. Word \subseteq Int /\ 0 \in Word
  BY FixedPointAssumption, WordAssumption
<1> QED
  BY <1>2, <1>3 DEF Activation, ReLU

(* What an edge does to the registers outside of the DMA.                  *)
LEMMA EdgeRegisters ==
    ASSUME NEW cmd, Edge(cmd)
    PROVE  /\ RegEdge(cmd, Predictions, max_idx_reg)
           /\ ConvEdge(write_reg["image"], start_reg["image"],
                       cnt_reg["image"], data_reg["image"])
           /\ FcEdge(relu_regs_ready_reg, conv_regs,
                     write_reg["weight"], start_reg["weight"],
                     cnt_reg["weight"], data_reg["weight"])
           /\ ArgmaxEdge(predictions_ready, Predictions)
           /\ best' = IF predictions_ready THEN Larger(best, Top(Predictions)) ELSE best
  BY DEF Edge, AccEdge, History
-----------------------------------------------------------------------------
(***************************************************************************)
(* The registers software writes.                                          *)
(***************************************************************************)
LEMMA ProgramLines ==
    /\ Len(Program) = 11
    /\ Program[1] = Write(3, ImageSize)
    /\ Program[2] = Write(2, test_image)
    /\ Program[3] = Write(0, 1)
    /\ Program[4] = Delay
    /\ Program[5] = Write(0, 0)
    /\ Program[6] = Write(5, WeightSize)
    /\ Program[7] = Write(4, nnWeights)
    /\ Program[8] = Write(1, 1)
    /\ Program[9] = Delay
    /\ Program[10] = Write(1, 0)
    /\ Program[11] = Read(0)
  BY DEF Program

(* What a command does to the registers of a channel.                      *)
LEMMA Written ==
    ASSUME NEW reg, NEW data, NEW c \in Channel, Edge(Write(reg, data))
    PROVE  /\ c \in Started' <=> reg = StartRegister[c] /\ data % 2 = 1
           /\ start_out'[c] <=> reg = StartRegister[c] /\ data % 2 = 1
           /\ addr_out'[c] = IF reg = AddrRegister[c] THEN data ELSE addr_out[c]
           /\ length_out'[c] = IF reg = LengthRegister[c] THEN data ELSE length_out[c]
           /\ as_readdata' = as_readdata
<1> DEFINE cmd == Write(reg, data)
<1>1. RegEdge(cmd, Predictions, max_idx_reg)
  BY EdgeRegisters
<1>2. cmd.op = "write" /\ cmd.reg = reg /\ cmd.data = data /\ cmd.op # "read"
  BY DEF Write
<1> HIDE DEF cmd
<1>3. /\ start_out'[c] = StartBit(cmd, c)
      /\ addr_out'[c] = IF Writes(cmd, AddrRegister[c]) THEN cmd.data ELSE addr_out[c]
      /\ length_out'[c] = IF Writes(cmd, LengthRegister[c]) THEN cmd.data ELSE length_out[c]
      /\ as_readdata' = as_readdata
  BY <1>1, <1>2 DEF RegEdge
<1>4. c \in Started' <=> start_out'[c]
  BY DEF Started
<1> QED
  BY <1>2, <1>3, <1>4 DEF StartBit, Writes

LEMMA NotWritten ==
    ASSUME NEW cmd, cmd.op # "write", Edge(cmd)
    PROVE  /\ Started' = {}
           /\ \A c \in Channel : /\ ~start_out'[c]
                                 /\ addr_out'[c] = addr_out[c]
                                 /\ length_out'[c] = length_out[c]
<1>1. RegEdge(cmd, Predictions, max_idx_reg)
  BY EdgeRegisters
<1>2. ASSUME NEW c \in Channel
      PROVE  /\ ~start_out'[c]
             /\ addr_out'[c] = addr_out[c]
             /\ length_out'[c] = length_out[c]
  BY <1>1 DEF RegEdge, StartBit, Writes
<1> QED
  BY <1>2 DEF Started

LEMMA RegisterNumbers ==
    /\ StartRegister["image"] = 0 /\ StartRegister["weight"] = 1
    /\ AddrRegister["image"] = 2 /\ AddrRegister["weight"] = 4
    /\ LengthRegister["image"] = 3 /\ LengthRegister["weight"] = 5
    /\ "image" \in Channel /\ "weight" \in Channel
  BY DEF StartRegister, AddrRegister, LengthRegister, Channel

(* An edge without a command leaves the registers as they are.             *)
LEMMA QuietRegisters ==
    ASSUME RegisterInv, Edge(Nothing), UNCHANGED test_image,
           step' = step \/ (step' = step + 1 /\ step \in {4, 9})
    PROVE  RegisterInv' /\ Started' = {}
<1>1. /\ Started' = {}
      /\ \A c \in Channel : /\ ~start_out'[c]
                            /\ addr_out'[c] = addr_out[c]
                            /\ length_out'[c] = length_out[c]
  BY NotWritten DEF Nothing
<1>2. CASE step' = step
  BY <1>1, <1>2, RegisterNumbers DEF RegisterInv
<1>3. CASE step' = step + 1 /\ step \in {4, 9}
  BY <1>1, <1>3, RegisterNumbers DEF RegisterInv
<1> QED
  BY <1>1, <1>2, <1>3

LEMMA AccessRegisters ==
    ASSUME RegisterInv, Access
    PROVE  /\ RegisterInv'
           /\ Started' = CASE step = 3 -> {"image"}
                           [] step = 8 -> {"weight"}
                           [] OTHER -> {}
<1>1. step \in 1 .. 11 /\ step' = step + 1 /\ test_image' = test_image /\ Edge(Program[step])
      /\ Program[step] # Delay
  BY ProgramLines DEF Access
<1>2. ASSUME NEW reg, NEW data, Edge(Write(reg, data))
      PROVE  /\ "image" \in Started' <=> reg = 0 /\ data % 2 = 1
             /\ "weight" \in Started' <=> reg = 1 /\ data % 2 = 1
             /\ start_out'["image"] <=> reg = 0 /\ data % 2 = 1
             /\ start_out'["weight"] <=> reg = 1 /\ data % 2 = 1
             /\ addr_out'["image"] = IF reg = 2 THEN data ELSE addr_out["image"]
             /\ addr_out'["weight"] = IF reg = 4 THEN data ELSE addr_out["weight"]
             /\ length_out'["image"] = IF reg = 3 THEN data ELSE length_out["image"]
             /\ length_out'["weight"] = IF reg = 5 THEN data ELSE length_out["weight"]
  BY <1>2, Written, RegisterNumbers
<1>3. Started' \subseteq {"image", "weight"}
  BY DEF Started, Channel
<1>4. CASE step \in {1, 2, 3}
  BY <1>1, <1>2, <1>3, <1>4, ProgramLines DEF RegisterInv
<1>5. CASE step \in {5, 6, 7, 8, 10}
  BY <1>1, <1>2, <1>3, <1>5, ProgramLines DEF RegisterInv
<1>6. CASE step = 11
  <2>1. Read(0).op # "write" /\ Edge(Read(0))
    BY <1>1, <1>6, ProgramLines DEF Read
  <2> QED
    BY <1>1, <1>6, <2>1, NotWritten, RegisterNumbers DEF RegisterInv
<1>7. step \notin {4, 9}
  BY <1>1, ProgramLines
<1> QED
  BY <1>1, <1>4, <1>5, <1>6, <1>7
-----------------------------------------------------------------------------
(***************************************************************************)
(* The parts of the invariant about the DMA are kept by every edge.        *)
(***************************************************************************)
LEMMA FetchNext ==
    ASSUME FetchProofs!Inv, [Fetch!Next]_(Fetch!vars)
    PROVE  FetchProofs!Inv'
<1>1. [FetchProofs!Next]_(FetchProofs!vars)
  BY SameNext
<1>2. FetchProofs!WholeWindows
  BY WholeWindowsAsked
<1> QED
  BY <1>1, <1>2, FetchAssumptions, FetchProofs!InvNext, ZenonT(30) DEF Asked

(* DmaFacts after a step.                                                  *)
LEMMA TypesAfter ==
    ASSUME FetchProofs!Inv'
    PROVE  /\ DmaTypeOK' /\ pending' \in Seq(Burst) /\ base' \in Address
           /\ \A c, d \in Channel : write_reg'[c] /\ write_reg'[d] => c = d
           /\ \A c \in Channel :
                 /\ start_reg'[c] => state_reg' = "IDLE" /\ write_reg'[c]
                 /\ state_reg' = "IDLE" /\ write_reg'[c] => start_reg'[c]
                 /\ write_reg'[c] => data_reg'[c] = WindowAt(c, base', cnt_reg'[c])
<1>1. FetchProofs!TypeOK' /\ FetchProofs!TransferInv'
  BY DEF FetchProofs!Inv, FetchProofs!TypeInv
<1>2. DmaTypeOK' /\ pending' \in Seq(Burst) /\ base' \in Address
  BY <1>1, SameNames
     DEF FetchProofs!TypeOK, FetchProofs!DmaTypeOK, DmaTypeOK, FetchProofs!Burst, Burst,
         FetchProofs!State, State, FetchProofs!BurstStart, BurstStart,
         FetchProofs!BurstWait, BurstWait, FetchProofs!BurstRead, BurstRead
<1>3. ASSUME NEW c \in Channel
      PROVE  FetchProofs!PulseInv(c)' /\ FetchProofs!WindowAt(c, base', cnt_reg'[c])
                                           = WindowAt(c, base', cnt_reg'[c])
  BY <1>1, SameNames
     DEF FetchProofs!TransferInv, FetchProofs!WindowAt, WindowAt,
         FetchProofs!CellAt, CellAt, FetchProofs!MemorySize, MemorySize
<1> QED
  BY <1>2, <1>3, SameNames DEF FetchProofs!PulseInv

LEMMA EdgePort ==
    ASSUME TypeOK, FetchProofs!Inv, RegisterInv, PortInv, NEW cmd, Edge(cmd)
    PROVE  PortInv'
<1>1. CASE Fetch!Rest
  BY <1>1, States DEF Fetch!Rest, Fetch!StayIdle, PortInv
<1>2. ASSUME NEW c \in Started,
             Fetch!Begin(c, [addr |-> addr_out[c], length |-> length_out[c]])
      PROVE  PortInv'
  <2>1. c \in Channel /\ state_reg' = BurstStart(c)
    BY <1>2 DEF Started, Fetch!Begin, Fetch!Accept, Fetch!BurstStart, BurstStart
  <2> QED
    BY <2>1, States DEF PortInv
<1>3. ASSUME NEW c \in Channel, Fetch!Request(c) \/ Fetch!Wait(c)
      PROVE  PortInv'
  BY <1>3, States DEF Fetch!Request, Fetch!StartBurst, Fetch!Wait, Fetch!HoldRequest,
     Fetch!dmaVars, PortInv
<1>4. ASSUME NEW c \in Channel, Fetch!RequestTaken(c) \/ Fetch!Delay(c) \/ Fetch!Beat(c)
      PROVE  PortInv'
  <2>1. state_reg' \in {BurstRead(c), BurstStart(c), "IDLE"}
    BY <1>4 DEF Fetch!RequestTaken, Fetch!EndRequest, Fetch!Delay, Fetch!AwaitBeat,
       Fetch!dmaVars, Fetch!Beat, Fetch!TakeBeat, Fetch!FinishBurst, Fetch!FinishTransfer,
       Fetch!BurstStart, BurstStart, Fetch!BurstRead, BurstRead
  <2> QED
    BY <2>1, States DEF PortInv
<1> QED
  BY <1>1, <1>2, <1>3, <1>4, EdgeActions

LEMMA OneActive ==
    ASSUME NEW c \in Channel
    PROVE  /\ Active(c) => state_reg # "IDLE" /\ \A d \in Channel : Active(d) => d = c
           /\ Active(c)' => state_reg' # "IDLE" /\ \A d \in Channel : Active(d)' => d = c
           /\ state_reg' = BurstStart(c) => Active(c)'
           /\ state_reg = BurstRead(c) => Active(c)
  BY States DEF Active

LEMMA EdgeSize ==
    ASSUME TypeOK, FetchProofs!Inv, RegisterInv, PortInv, SizeInv, NEW cmd, Edge(cmd)
    PROVE  SizeInv'
<1>1. CASE Rests
  BY <1>1, OneActive, RegisterNumbers DEF Rests, Cleared, SizeInv, RowsHaveAPlace
<1>2. ASSUME NEW c \in Started, Accepts(c)
      PROVE  SizeInv'
  BY <1>2, OneActive, StartsMean, RegisterNumbers
     DEF Started, Accepts, Cleared, SizeInv, RowsHaveAPlace
<1>3. ASSUME NEW c \in Channel, Proceeds(c)
      PROVE  SizeInv'
  BY <1>3, OneActive, RegisterNumbers DEF Proceeds, SizeInv, RowsHaveAPlace
<1>4. ASSUME NEW c \in Channel, Announces(c)
      PROVE  SizeInv'
  <2>1. \A d \in Channel : Active(d)' => d = c
    BY <1>4, OneActive DEF Announces
  <2>2. RowsHaveAPlace'
    BY <1>4, RegisterNumbers DEF Announces, RowsHaveAPlace, Windows, Class
  <2> QED
    BY <1>4, <2>1, <2>2, OneActive, RegisterNumbers DEF Announces, SizeInv
<1> QED
  BY <1>1, <1>2, <1>3, <1>4, DmaStep

LEMMA EdgeDma ==
    ASSUME TypeOK, FetchProofs!Inv, RegisterInv, PortInv, SizeInv, NEW cmd, Edge(cmd)
    PROVE  FetchProofs!Inv' /\ PortInv' /\ SizeInv'
  BY EdgeFetches, FetchNext, EdgePort, EdgeSize
-----------------------------------------------------------------------------
(***************************************************************************)
(* Types and pulses after an edge.                                         *)
(***************************************************************************)
Legal(cmd) == /\ cmd.op = "write" => cmd.data \in Address
              /\ cmd.op = "read" => cmd.reg = 0

LEMMA EdgeRegTypes ==
    ASSUME AccTypeOK, NEW cmd, Edge(cmd), Legal(cmd)
    PROVE  /\ RegTypeOK'
           /\ cmd.op = "read" => as_readdata' = max_idx_reg
<1>1. RegEdge(cmd, Predictions, max_idx_reg) /\ RegTypeOK /\ FcTypeOK /\ ArgmaxTypeOK
  BY EdgeRegisters DEF AccTypeOK
<1>2. \A class \in Class : Pattern(Predictions[class]) \in Nat
  <2>1. 2 * Half \in Nat \ {0} /\ Word \subseteq Int
    BY FixedPointAssumption
  <2>2. \A class \in Class : Predictions[class] \in Word
    BY <1>1, PredictionsType
  <2>3. \A x \in Int : x % (2 * Half) \in Nat
    BY <2>1
  <2> QED
    BY <2>1, <2>2, <2>3 DEF Pattern
<1>3. /\ start_out' \in [Channel -> BOOLEAN]
      /\ prediction_regs' \in [Class -> Nat]
  BY <1>1, <1>2 DEF RegEdge, StartBit, Writes
<1>4. /\ addr_out' \in [Channel -> Address]
      /\ length_out' \in [Channel -> Address]
  BY <1>1 DEF RegEdge, RegTypeOK, Legal, Writes
<1>5. ReadValue(0, max_idx_reg) = max_idx_reg /\ max_idx_reg \in Nat
  BY <1>1 DEF ReadValue, ArgmaxTypeOK, Class
<1>6. cmd.op = "read" => as_readdata' = max_idx_reg
  BY <1>1, <1>5 DEF RegEdge, Legal
<1>7. as_readdata' \in Nat
  BY <1>1, <1>5, <1>6 DEF RegEdge, RegTypeOK
<1> QED
  BY <1>3, <1>4, <1>6, <1>7 DEF RegTypeOK

LEMMA EdgeConvTypes ==
    ASSUME AccTypeOK, NEW cmd, Edge(cmd)
    PROVE  ConvTypeOK'
<1>1. /\ ConvEdge(write_reg["image"], start_reg["image"], cnt_reg["image"], data_reg["image"])
      /\ ConvTypeOK /\ DmaTypeOK
  BY EdgeRegisters DEF AccTypeOK
<1>2. Activation(data_reg["image"]) \in Word
  <2>1. data_reg["image"] \in [0 .. BurstSize["image"] - 1 -> Word]
    BY <1>1, RegisterNumbers DEF DmaTypeOK
  <2> QED
    BY <2>1, ActivationType
<1>3. write_reg["image"] \in BOOLEAN /\ start_reg["image"] \in BOOLEAN
  BY <1>1, RegisterNumbers DEF DmaTypeOK
<1> QED
  BY <1>1, <1>2, <1>3 DEF ConvEdge, ConvTypeOK, Activations

LEMMA EdgeFcTypes ==
    ASSUME AccTypeOK, RowsHaveAPlace, NEW cmd, Edge(cmd)
    PROVE  FcTypeOK'
<1>1. /\ FcEdge(relu_regs_ready_reg, conv_regs, write_reg["weight"], start_reg["weight"],
                cnt_reg["weight"], data_reg["weight"])
      /\ ConvTypeOK /\ DmaTypeOK /\ FcTypeOK
  BY EdgeRegisters DEF AccTypeOK
<1>2. data_reg["weight"] \in Vector /\ start_reg["weight"] \in BOOLEAN
  BY <1>1, RegisterNumbers, ShapeAssumption DEF DmaTypeOK, Vector
<1>3. relu_data_reg' \in Vector /\ predictions_ready' \in BOOLEAN
  BY <1>1, <1>2 DEF FcEdge, FcTypeOK, ConvTypeOK, Activations, Vector
<1>4. weight_data_reg' \in [Class -> Vector]
  <2>1. CASE write_reg["weight"] /\ ~relu_regs_ready_reg
    <3>1. weight_data_reg' = Row(cnt_reg["weight"], data_reg["weight"])
      BY <1>1, <2>1 DEF FcEdge, StoreRow, RowsHaveAPlace
    <3> QED
      BY <1>1, <1>2, <3>1 DEF Row, FcTypeOK
  <2>2. CASE ~(write_reg["weight"] /\ ~relu_regs_ready_reg)
    BY <1>1, <2>2 DEF FcEdge, FcTypeOK
  <2> QED
    BY <2>1, <2>2
<1> QED
  BY <1>3, <1>4 DEF FcTypeOK

(* The argmax stage after an edge.                                         *)
LEMMA EdgeArgmax ==
    ASSUME AccTypeOK, BestInv, NEW cmd, Edge(cmd)
    PROVE  /\ ArgmaxTypeOK'
           /\ max_val_reg' = best' /\ best' \in Word
           /\ predictions_ready => /\ best' = Larger(best, Top(Predictions))
                                   /\ Top(Predictions) >= best
                                         => max_idx_reg' = MaxIndex(Predictions)
           /\ ~predictions_ready => UNCHANGED <<max_idx_reg, best>>
<1>1. /\ ArgmaxEdge(predictions_ready, Predictions)
      /\ best' = IF predictions_ready THEN Larger(best, Top(Predictions)) ELSE best
      /\ Predictions \in [Class -> Word]
      /\ max_val_reg \in Word /\ max_idx_reg \in Class
      /\ best = max_val_reg
  BY EdgeRegisters, PredictionsType DEF AccTypeOK, ArgmaxTypeOK, BestInv
<1>2. CASE predictions_ready
  <2>1. Predictions \in ArgmaxStage!Scores
    BY <1>1, SameNames DEF ArgmaxStage!Scores
  <2>2. max_idx_reg \in ArgmaxStage!Class
    BY <1>1, SameNames
  <2>3. /\ ArgmaxStage!Scan(Predictions).val
              = ArgmaxStage!Larger(max_val_reg, ArgmaxStage!Top(Predictions))
        /\ ArgmaxStage!Scan(Predictions).val \in Word
        /\ ArgmaxStage!Scan(Predictions).idx \in ArgmaxStage!Class
        /\ ArgmaxStage!Top(Predictions) >= max_val_reg
              => ArgmaxStage!Scan(Predictions).idx = ArgmaxStage!MaxIndex(Predictions)
    BY <1>1, <2>1, <2>2, ArgmaxStage!ScanResult, ScoreAssumption, WordAssumption,
       Mod32Assumption, ZenonT(30)
  <2>4. /\ ArgmaxStage!Scan(Predictions) = Scan(Predictions)
        /\ ArgmaxStage!Top(Predictions) = Top(Predictions)
        /\ \A a, b : ArgmaxStage!Larger(a, b) = Larger(a, b)
        /\ ArgmaxStage!MaxIndex(Predictions) = MaxIndex(Predictions)
    BY DEF ArgmaxStage!Scan, Scan, ArgmaxStage!Consider, Consider,
           ArgmaxStage!Top, Top, ArgmaxStage!Larger, Larger,
           ArgmaxStage!MaxIndex, MaxIndex, ArgmaxStage!Class, Class
  <2>5. max_val_reg' = Scan(Predictions).val /\ max_idx_reg' = Scan(Predictions).idx
    BY <1>1, <1>2 DEF ArgmaxEdge
  <2> QED
    BY <1>1, <1>2, <2>3, <2>4, <2>5, SameNames DEF ArgmaxTypeOK
<1>3. CASE ~predictions_ready
  BY <1>1, <1>3 DEF ArgmaxEdge, argmaxVars, ArgmaxTypeOK
<1> QED
  BY <1>2, <1>3

(* The pulses after an edge.                                               *)
LEMMA EdgePulses ==
    ASSUME TypeOK, FetchProofs!Inv, RegisterInv, PortInv, SizeInv, NEW cmd, Edge(cmd)
    PROVE  /\ relu_regs_ready_reg' <=> state_reg = "IDLE" /\ write_reg["image"]
           /\ predictions_ready' <=> state_reg = "IDLE" /\ write_reg["weight"]
           /\ state_reg = "IDLE" => \A c \in Channel : ~write_reg'[c]
           /\ PulseInv'
<1>1. \A c \in Channel : start_reg[c] <=> state_reg = "IDLE" /\ write_reg[c]
  BY DmaFacts
<1>2. /\ relu_regs_ready_reg' <=> write_reg["image"] /\ start_reg["image"]
      /\ predictions_ready' <=> start_reg["weight"]
  BY EdgeRegisters DEF ConvEdge, FcEdge
<1>3. state_reg = "IDLE" => \A c \in Channel : ~write_reg'[c]
  <2>1. ASSUME state_reg = "IDLE", NEW c \in Channel PROVE ~Active(c) /\ state_reg # BurstRead(c)
    BY <2>1, OneActive
  <2> QED
    BY <2>1, DmaStep DEF Rests, Cleared, Accepts, Proceeds, Announces
<1> QED
  BY <1>1, <1>2, <1>3, RegisterNumbers DEF PulseInv
-----------------------------------------------------------------------------
(***************************************************************************)
(* The phases of a call, one edge at a time.                               *)
(***************************************************************************)
LEMMA FeaturesStay == UNCHANGED test_image => Features' = Features
  BY DEF Features, WindowAt

(* Nothing is on its way to the datapath.                                  *)
LEMMA RestingEdge ==
    ASSUME BaseInv, Resting, NEW cmd, Edge(cmd)
    PROVE  /\ state_reg' = "IDLE" /\ NoWindow' /\ NoPulse'
           /\ conv_regs' = conv_regs /\ weight_data_reg' = weight_data_reg
           /\ relu_data_reg' = IF relu_regs_ready_reg THEN conv_regs ELSE relu_data_reg
<1>1. Rests
  <2>1. \A c \in Channel : ~Active(c) /\ state_reg # BurstRead(c)
    BY OneActive DEF Resting
  <2> QED
    BY <2>1, DmaStep DEF BaseInv, Resting, Proceeds, Announces
<1>2. NoPulse'
  BY EdgePulses, RegisterNumbers DEF BaseInv, Resting, NoWindow, NoPulse
<1> QED
  BY <1>1, <1>2, EdgeRegisters, RegisterNumbers
     DEF Rests, Cleared, Resting, NoWindow, ConvEdge, FcEdge

LEMMA QuietScores ==
    ASSUME BaseInv, NEW cmd, Edge(cmd), ~predictions_ready
    PROVE  UNCHANGED <<best, max_idx_reg>>
  BY EdgeArgmax DEF BaseInv, TypeOK

LEMMA CalmEdge ==
    ASSUME BaseInv, Calm, NEW cmd, Edge(cmd)
    PROVE  /\ state_reg' = "IDLE" /\ NoWindow' /\ NoPulse'
           /\ UNCHANGED <<relu_data_reg, best, max_idx_reg>>
  BY RestingEdge, QuietScores DEF Calm, NoPulse

(* The DMA takes the program's word.                                       *)
LEMMA AskedEdge ==
    ASSUME BaseInv, NEW c \in Channel, Started = {c}, state_reg = "IDLE", NoWindow, NoPulse,
           NEW cmd, Edge(cmd)
    PROVE  /\ Active(c)' /\ NoWindow' /\ NoPulse'
           /\ base' = addr_out[c] /\ Stored(c)' = 0
           /\ UNCHANGED <<relu_data_reg, best>>
<1>1. Accepts(c)
  <2>1. \A d \in Channel : ~Active(d) /\ state_reg # BurstRead(d)
    BY OneActive
  <2> QED
    BY <2>1, DmaStep DEF BaseInv, Rests, Proceeds, Announces
<1>2. Active(c)' /\ NoWindow' /\ base' = addr_out[c]
  BY <1>1, OneActive DEF Accepts, Cleared, NoWindow
<1>3. (Mod4 - 1 + 1) % Mod4 = 0
  <2>1. Mod4 \in Nat \ {0} /\ 0 \in 0 .. Mod4 - 1 /\ Mod4 - 1 + 1 = 0 + Mod4
    BY WidthAssumption
  <2> QED
    BY <2>1, FetchProofs!ModPlusModulus
<1>4. Stored(c)' = 0
  BY <1>1, <1>2, <1>3 DEF Accepts, Cleared, Stored, NoWindow
<1>5. NoPulse'
  BY EdgePulses, RegisterNumbers DEF BaseInv, NoWindow, NoPulse
<1> QED
  BY <1>2, <1>4, <1>5, EdgeRegisters, QuietScores DEF NoPulse, FcEdge

(* A transfer goes on.                                                     *)
LEMMA ActiveEdge ==
    ASSUME BaseInv, NEW c \in Channel, Active(c), Started = {}, NoPulse,
           NEW cmd, Edge(cmd)
    PROVE  /\ Proceeds(c) \/ Announces(c)
           /\ NoPulse'
           /\ UNCHANGED <<base, relu_data_reg, best>>
           /\ \A d \in Channel : write_reg'[d] => d = c
<1>1. state_reg # "IDLE" /\ \A d \in Channel : Active(d) => d = c
  BY OneActive
<1>2. \A d \in Channel : Proceeds(d) \/ Announces(d) => d = c
  BY <1>1, OneActive DEF Proceeds, Announces
<1>3. Proceeds(c) \/ Announces(c)
  BY <1>1, <1>2, DmaStep DEF BaseInv, Rests
<1>4. NoPulse'
  BY <1>1, EdgePulses DEF BaseInv, NoPulse
<1> QED
  BY <1>3, <1>4, EdgeRegisters, QuietScores DEF Proceeds, Announces, NoPulse, FcEdge

(* The windows stored after an edge: those stored before it, and the one   *)
(* announced before it.                                                    *)
LEMMA StoredNext ==
    ASSUME BaseInv, NEW c \in Channel, Proceeds(c) \/ Announces(c),
           NEW k \in Nat, k < Stored(c)'
    PROVE  k < Stored(c) \/ (write_reg[c] /\ k = cnt_reg[c])
<1>1. cnt_reg[c] \in 0 .. Mod4 - 1 /\ Mod4 \in Nat \ {0}
  BY WidthAssumption, DmaFacts DEF BaseInv, DmaTypeOK
<1>2. Done(c) <= cnt_reg[c] + 1 /\ Done(c) \in Nat
  <2>1. cnt_reg[c] + 1 \in Nat
    BY <1>1
  <2>2. CASE cnt_reg[c] + 1 = Mod4
    <3>1. 0 + Mod4 = cnt_reg[c] + 1 /\ 0 \in 0 .. Mod4 - 1
      BY <1>1, <2>2
    <3>2. Done(c) = 0
      BY <1>1, <3>1, FetchProofs!ModPlusModulus DEF Done
    <3> QED
      BY <1>1, <3>2
  <2>3. CASE cnt_reg[c] + 1 # Mod4
    <3>1. cnt_reg[c] + 1 \in 0 .. Mod4 - 1
      BY <1>1, <2>3
    <3>2. Done(c) = cnt_reg[c] + 1
      BY <1>1, <3>1, FetchProofs!ModSmall DEF Done
    <3> QED
      BY <1>1, <3>2
  <2> QED
    BY <2>2, <2>3
<1>3. CASE Proceeds(c)
  <2>1. Stored(c)' = Done(c)
    BY <1>3 DEF Proceeds, Stored, Done
  <2>2. CASE write_reg[c]
    BY <1>1, <1>2, <2>1, <2>2 DEF Stored
  <2>3. CASE ~write_reg[c]
    BY <2>1, <2>3 DEF Stored, Done
  <2> QED
    BY <2>2, <2>3
<1>4. CASE Announces(c)
  <2>1. Stored(c)' = Done(c) /\ Stored(c) = Done(c)
    BY <1>4 DEF Announces, Stored, Done
  <2> QED
    BY <2>1
<1> QED
  BY <1>3, <1>4

(* What the consumers store from the window that was announced.            *)
LEMMA ImageStored ==
    ASSUME BaseInv, base = test_image, NEW cmd, Edge(cmd),
           \A k \in 0 .. Mod4 - 1 : k < Stored("image") => conv_regs[k] = Features[k],
           NEW k \in 0 .. Mod4 - 1,
           k < Stored("image") \/ (write_reg["image"] /\ k = cnt_reg["image"])
    PROVE  conv_regs'[k] = Features[k]
<1>1. /\ conv_regs' = IF write_reg["image"]
                      THEN [conv_regs EXCEPT ![cnt_reg["image"]] = Activation(data_reg["image"])]
                      ELSE conv_regs
      /\ conv_regs \in [0 .. Mod4 - 1 -> Word]
      /\ cnt_reg["image"] \in 0 .. Mod4 - 1
  BY EdgeRegisters, RegisterNumbers
     DEF ConvEdge, BaseInv, TypeOK, AccTypeOK, ConvTypeOK, Activations, DmaTypeOK
<1>2. CASE write_reg["image"]
  <2>1. Activation(data_reg["image"]) = Features[cnt_reg["image"]]
    <3>1. data_reg["image"] = WindowAt("image", test_image, cnt_reg["image"])
      BY <1>2, DmaFacts, RegisterNumbers DEF BaseInv
    <3> QED
      BY <1>1, <3>1 DEF Features
  <2>2. Stored("image") = cnt_reg["image"]
    BY <1>2 DEF Stored
  <2>3. CASE k = cnt_reg["image"]
    BY <1>1, <1>2, <2>1, <2>3
  <2>4. CASE k # cnt_reg["image"]
    BY <1>1, <1>2, <2>4
  <2> QED
    BY <2>3, <2>4
<1>3. CASE ~write_reg["image"]
  BY <1>1, <1>3
<1> QED
  BY <1>2, <1>3

LEMMA RowStored ==
    ASSUME BaseInv, base = nnWeights, ~relu_regs_ready_reg, NEW cmd, Edge(cmd),
           \A row \in Class : row < Stored("weight") => weight_data_reg[row] = Rows[row],
           NEW row \in Class,
           row < Stored("weight") \/ (write_reg["weight"] /\ row = cnt_reg["weight"])
    PROVE  weight_data_reg'[row] = Rows[row]
<1>1. /\ IF write_reg["weight"]
         THEN StoreRow(cnt_reg["weight"], data_reg["weight"])
         ELSE UNCHANGED weight_data_reg
      /\ weight_data_reg \in [Class -> Vector]
      /\ write_reg["weight"] => cnt_reg["weight"] \in Class
  BY EdgeRegisters
     DEF FcEdge, BaseInv, TypeOK, AccTypeOK, FcTypeOK, SizeInv, RowsHaveAPlace
<1>2. CASE write_reg["weight"]
  <2>1. weight_data_reg' = [weight_data_reg EXCEPT ![cnt_reg["weight"]] = data_reg["weight"]]
    BY <1>1, <1>2 DEF StoreRow, Row
  <2>2. data_reg["weight"] = Rows[cnt_reg["weight"]]
    <3>1. data_reg["weight"] = WindowAt("weight", nnWeights, cnt_reg["weight"])
      BY <1>2, DmaFacts, RegisterNumbers DEF BaseInv
    <3> QED
      BY <1>1, <1>2, <3>1 DEF Rows
  <2>3. Stored("weight") = cnt_reg["weight"]
    BY <1>2 DEF Stored
  <2>4. CASE row = cnt_reg["weight"]
    BY <1>1, <2>1, <2>2, <2>4
  <2>5. CASE row # cnt_reg["weight"]
    BY <1>1, <1>2, <2>1, <2>5
  <2> QED
    BY <2>4, <2>5
<1>3. CASE ~write_reg["weight"]
  BY <1>1, <1>3
<1> QED
  BY <1>2, <1>3

LEMMA ImageAskedEdge ==
    ASSUME BaseInv, ImageAsked, Edge(Nothing), UNCHANGED test_image
    PROVE  ImageComing' /\ UNCHANGED best
<1>1. Started = {"image"} /\ base' = test_image
  <2>1. "image" \in Started /\ RegisterInv /\ TypeOK
    BY DEF ImageAsked, BaseInv
  <2>2. addr_out["image"] = test_image
    BY <2>1, StartsMean, RegisterNumbers
  <2> QED
    BY <2>2, AskedEdge, RegisterNumbers DEF ImageAsked
<1>2. Active("image")' /\ NoWindow' /\ NoPulse' /\ Stored("image")' = 0 /\ UNCHANGED best
  BY AskedEdge, RegisterNumbers DEF ImageAsked
<1>3. Started' = {}
  BY NotWritten DEF Nothing
<1>4. \A k \in 0 .. Mod4 - 1 : ~(k < Stored("image")')
  BY <1>2, WidthAssumption
<1> QED
  BY <1>1, <1>2, <1>3, <1>4, RegisterNumbers DEF ImageComing, NoWindow

LEMMA WeightsAskedEdge ==
    ASSUME BaseInv, WeightsAsked, Edge(Nothing), UNCHANGED test_image
    PROVE  WeightsComing' /\ UNCHANGED best
<1>1. base' = nnWeights
  <2>1. "weight" \in Started /\ RegisterInv /\ TypeOK
    BY DEF WeightsAsked, BaseInv
  <2>2. addr_out["weight"] = nnWeights
    BY <2>1, StartsMean, RegisterNumbers
  <2> QED
    BY <2>2, AskedEdge, RegisterNumbers DEF WeightsAsked
<1>2. /\ Active("weight")' /\ NoWindow' /\ NoPulse' /\ Stored("weight")' = 0
      /\ UNCHANGED <<relu_data_reg, best>>
  BY AskedEdge, RegisterNumbers DEF WeightsAsked
<1>3. Started' = {}
  BY NotWritten DEF Nothing
<1>4. \A row \in Class : ~(row < Stored("weight")')
  BY <1>2 DEF Class
<1>5. relu_data_reg' = Features'
  BY <1>2, FeaturesStay DEF WeightsAsked
<1> QED
  BY <1>1, <1>2, <1>3, <1>4, <1>5, RegisterNumbers DEF WeightsComing, NoWindow

LEMMA ImageComingEdge ==
    ASSUME BaseInv, ImageComing, Edge(Nothing), UNCHANGED test_image
    PROVE  /\ UNCHANGED best
           /\ state_reg = "IDLE" => ImageThrough'
           /\ state_reg # "IDLE" => ImageComing'
<1>1. Started' = {} /\ Features' = Features /\ base = test_image
  BY NotWritten, FeaturesStay DEF Nothing, ImageComing
<1>2. UNCHANGED best
  BY QuietScores DEF ImageComing, NoPulse
<1>3. ASSUME state_reg # "IDLE" PROVE ImageComing'
  <2>1. Active("image") /\ Started = {} /\ NoPulse
    BY <1>3 DEF ImageComing
  <2>2. /\ Proceeds("image") \/ Announces("image")
        /\ NoPulse' /\ UNCHANGED base /\ ~write_reg'["weight"]
    BY <2>1, ActiveEdge, RegisterNumbers
  <2>3. \/ Active("image")'
        \/ state_reg' = "IDLE" /\ write_reg'["image"] /\ cnt_reg'["image"] = Mod4 - 1
    BY <2>2, OneActive, WidthAssumption, RegisterNumbers DEF Proceeds, Announces, Windows
  <2>4. ASSUME NEW k \in 0 .. Mod4 - 1, k < Stored("image")'
        PROVE  conv_regs'[k] = Features[k]
    <3>1. k \in Nat
      BY WidthAssumption
    <3>2. k < Stored("image") \/ (write_reg["image"] /\ k = cnt_reg["image"])
      BY <2>2, <2>4, <3>1, StoredNext, RegisterNumbers
    <3> QED
      BY <1>1, <3>2, ImageStored DEF ImageComing
  <2> QED
    BY <1>1, <2>2, <2>3, <2>4 DEF ImageComing
<1>4. ASSUME state_reg = "IDLE" PROVE ImageThrough'
  <2>1. /\ ~Active("image") /\ write_reg["image"] /\ cnt_reg["image"] = Mod4 - 1
        /\ Started = {} /\ ~write_reg["weight"]
    BY <1>4, OneActive, RegisterNumbers DEF ImageComing
  <2>2. relu_regs_ready_reg' /\ ~predictions_ready' /\ NoWindow'
    BY <1>4, <2>1, EdgePulses DEF BaseInv, NoWindow
  <2>3. state_reg' = "IDLE"
    <3>1. \A c \in Channel : ~Active(c) /\ state_reg # BurstRead(c)
      BY <1>4, OneActive
    <3> QED
      BY <2>1, <3>1, DmaStep DEF BaseInv, Rests, Proceeds, Announces
  <2>4. ASSUME NEW k \in 0 .. Mod4 - 1
        PROVE  conv_regs'[k] = Features[k]
    <3>1. k < Stored("image") \/ (write_reg["image"] /\ k = cnt_reg["image"])
      BY <2>1, WidthAssumption DEF Stored
    <3> QED
      BY <1>1, <3>1, ImageStored DEF ImageComing
  <2>5. conv_regs' = Features
    <3>1. conv_regs' \in [0 .. Mod4 - 1 -> Word]
      BY EdgeConvTypes DEF BaseInv, TypeOK, ConvTypeOK, Activations
    <3>2. conv_regs' = [k \in 0 .. Mod4 - 1 |-> Features[k]]
      BY <2>4, <3>1
    <3>3. Features = [k \in 0 .. Mod4 - 1 |-> Features[k]]
      BY DEF Features
    <3> QED
      BY <3>2, <3>3
  <2> QED
    BY <1>1, <2>2, <2>3, <2>5 DEF ImageThrough, Resting
<1> QED
  BY <1>2, <1>3, <1>4

LEMMA WeightsComingEdge ==
    ASSUME BaseInv, WeightsComing, Edge(Nothing), UNCHANGED test_image
    PROVE  /\ UNCHANGED best
           /\ state_reg = "IDLE" => ScoresThrough'
           /\ state_reg # "IDLE" => WeightsComing'
<1>1. Started' = {} /\ Features' = Features /\ base = nnWeights /\ relu_data_reg = Features
      /\ ~relu_regs_ready_reg
  BY NotWritten, FeaturesStay DEF Nothing, WeightsComing, NoPulse
<1>2. UNCHANGED best
  BY QuietScores DEF WeightsComing, NoPulse
<1>3. UNCHANGED relu_data_reg
  BY <1>1, EdgeRegisters DEF FcEdge
<1>4. ASSUME state_reg # "IDLE" PROVE WeightsComing'
  <2>1. Active("weight") /\ Started = {} /\ NoPulse
    BY <1>4 DEF WeightsComing
  <2>2. /\ Proceeds("weight") \/ Announces("weight")
        /\ NoPulse' /\ UNCHANGED base /\ ~write_reg'["image"]
    BY <2>1, ActiveEdge, RegisterNumbers
  <2>3. \/ Active("weight")'
        \/ state_reg' = "IDLE" /\ write_reg'["weight"] /\ cnt_reg'["weight"] = 2
    BY <2>2, OneActive, RegisterNumbers DEF Proceeds, Announces, Windows
  <2>4. ASSUME NEW row \in Class, row < Stored("weight")'
        PROVE  weight_data_reg'[row] = Rows[row]
    <3>1. row \in Nat
      BY DEF Class
    <3>2. row < Stored("weight") \/ (write_reg["weight"] /\ row = cnt_reg["weight"])
      BY <2>2, <2>4, <3>1, StoredNext, RegisterNumbers
    <3> QED
      BY <1>1, <3>2, RowStored DEF WeightsComing
  <2> QED
    BY <1>1, <1>3, <2>2, <2>3, <2>4 DEF WeightsComing, Rows, WindowAt
<1>5. ASSUME state_reg = "IDLE" PROVE ScoresThrough'
  <2>1. /\ ~Active("weight") /\ write_reg["weight"] /\ cnt_reg["weight"] = 2
        /\ Started = {} /\ ~write_reg["image"]
    BY <1>5, OneActive, RegisterNumbers DEF WeightsComing
  <2>2. ~relu_regs_ready_reg' /\ predictions_ready' /\ NoWindow'
    BY <1>5, <2>1, EdgePulses DEF BaseInv, NoWindow
  <2>3. state_reg' = "IDLE"
    <3>1. \A c \in Channel : ~Active(c) /\ state_reg # BurstRead(c)
      BY <1>5, OneActive
    <3> QED
      BY <2>1, <3>1, DmaStep DEF BaseInv, Rests, Proceeds, Announces
  <2>4. ASSUME NEW row \in Class
        PROVE  weight_data_reg'[row] = Rows[row]
    <3>1. row < Stored("weight") \/ (write_reg["weight"] /\ row = cnt_reg["weight"])
      BY <2>1 DEF Stored, Class
    <3> QED
      BY <1>1, <3>1, RowStored DEF WeightsComing
  <2>5. Predictions' = NetworkScores(test_image)'
    <3>1. \A row \in Class :
             weight_data_reg'[row] = WindowAt("weight", nnWeights, row)
      BY <2>4 DEF Rows
    <3>2. Predictions' = [row \in Class |-> Neuron(Features, WindowAt("weight", nnWeights, row))]
      BY <1>1, <1>3, <3>1 DEF Predictions
    <3>3. NetworkScores(test_image)
            = [row \in Class |-> Neuron(Features, WindowAt("weight", nnWeights, row))]
      BY DEF NetworkScores, Features
    <3>4. NetworkScores(test_image)' = NetworkScores(test_image)
      BY DEF NetworkScores, WindowAt
    <3> QED
      BY <3>2, <3>3, <3>4
  <2> QED
    BY <1>1, <2>2, <2>3, <2>5 DEF ScoresThrough, Resting
<1> QED
  BY <1>2, <1>4, <1>5

LEMMA ImageThroughEdge ==
    ASSUME BaseInv, ImageThrough, NEW cmd, Edge(cmd), UNCHANGED test_image, Started' = {}
    PROVE  ImageIn' /\ UNCHANGED best
<1>1. UNCHANGED best
  BY QuietScores DEF ImageThrough
<1>2. Features' = Features
  BY FeaturesStay
<1> QED
  BY <1>1, <1>2, RestingEdge DEF ImageThrough, ImageIn, Calm, Resting

LEMMA ImageInEdge ==
    ASSUME BaseInv, ImageIn, NEW cmd, Edge(cmd), UNCHANGED test_image
    PROVE  /\ UNCHANGED best
           /\ Started' = {} => ImageIn'
           /\ Started' = {"weight"} => WeightsAsked'
<1>1. Features' = Features
  BY FeaturesStay
<1> QED
  BY <1>1, CalmEdge DEF ImageIn, Calm, Resting, WeightsAsked

LEMMA RightStays ==
    UNCHANGED <<test_image, seen>> => \A class : Right(class)' <=> Right(class)
  BY DEF Right, NetworkScores, WindowAt

LEMMA ScoresThroughEdge ==
    ASSUME BaseInv, ScoresThrough, best = seen, NEW cmd, Edge(cmd),
           UNCHANGED <<test_image, seen>>, Started' = {}
    PROVE  ScoresIn'
<1>1. Calm'
  BY RestingEdge DEF ScoresThrough, Calm, Resting
<1>2. Right(max_idx_reg')
  BY EdgeArgmax DEF BaseInv, TypeOK, ScoresThrough, Right
<1>3. Right(max_idx_reg)'
  BY <1>2 DEF Right, NetworkScores, WindowAt
<1> QED
  BY <1>1, <1>3 DEF ScoresIn

LEMMA ScoresInEdge ==
    ASSUME BaseInv, ScoresIn, NEW cmd, Edge(cmd),
           UNCHANGED <<test_image, seen>>, Started' = {}
    PROVE  ScoresIn'
<1>1. Calm' /\ max_idx_reg' = max_idx_reg
  BY CalmEdge DEF ScoresIn, Calm, Resting
<1>2. Right(max_idx_reg)'
  BY <1>1 DEF Right, NetworkScores, WindowAt, ScoresIn
<1> QED
  BY <1>1, <1>2 DEF ScoresIn
-----------------------------------------------------------------------------
(***************************************************************************)
(* The steps of the whole system.                                          *)
(***************************************************************************)
LEMMA BaseNext ==
    ASSUME BaseInv, NEW cmd, Edge(cmd), Legal(cmd), RegisterInv',
           step' \in 0 .. 12, test_image' \in Images, prediction' \in Nat, seen' \in Word
    PROVE  BaseInv'
<1>1. AccTypeOK /\ RowsHaveAPlace /\ BestInv
  BY DEF BaseInv, TypeOK, SizeInv
<1>2. FetchProofs!Inv' /\ PortInv' /\ SizeInv'
  BY EdgeDma DEF BaseInv
<1>3. PulseInv'
  BY EdgePulses DEF BaseInv
<1>4. RegTypeOK' /\ ConvTypeOK' /\ FcTypeOK' /\ ArgmaxTypeOK' /\ BestInv'
  BY <1>1, EdgeRegTypes, EdgeConvTypes, EdgeFcTypes, EdgeArgmax DEF BestInv
<1>5. DmaTypeOK' /\ pending' \in Seq(Burst) /\ base' \in Address
  BY <1>2, TypesAfter
<1>6. TypeOK'
  <2>1. Len(Program)' = 11
    BY DEF Program
  <2> QED
    BY <1>4, <1>5, <2>1 DEF TypeOK, AccTypeOK
<1> QED
  BY <1>2, <1>3, <1>4, <1>6 DEF BaseInv

LEMMA QuietBase ==
    ASSUME BaseInv, Edge(Nothing), RegisterInv',
           step' \in 0 .. 12, test_image' \in Images, prediction' \in Nat, seen' \in Word
    PROVE  BaseInv'
<1>1. Legal(Nothing)
  BY DEF Legal, Nothing
<1> QED
  BY <1>1, BaseNext

LEMMA HostTypes ==
    ASSUME BaseInv
    PROVE  /\ step \in 0 .. 12 /\ test_image \in Images /\ prediction \in Nat
           /\ seen \in Word /\ best \in Word /\ as_readdata \in Nat
           /\ RegisterInv
  BY ProgramLines DEF BaseInv, TypeOK, AccTypeOK, RegTypeOK, BestInv

LEMMA ComputeNext ==
    ASSUME IInv, Compute
    PROVE  IInv'
<1>1. /\ BaseInv /\ Edge(Nothing)
      /\ UNCHANGED <<step, test_image, prediction, seen, hurried>>
  BY DEF IInv, Compute, hostVars
<1>2. RegisterInv' /\ Started' = {}
  BY <1>1, HostTypes, QuietRegisters
<1>3. BaseInv'
  BY <1>1, <1>2, HostTypes, QuietBase
<1>4. as_readdata' = as_readdata
  BY <1>1, EdgeRegisters DEF RegEdge, Nothing
<1>5. Calm => Calm' /\ UNCHANGED best
  BY <1>1, <1>2, CalmEdge DEF Calm, Resting
<1>6. \A class : Right(class)' <=> Right(class)
  BY <1>1, RightStays
<1>7. ImageAsked => ImageComing' /\ UNCHANGED best
  BY <1>1, ImageAskedEdge
<1>8. ImageComing => (ImageComing' \/ ImageThrough') /\ UNCHANGED best
  BY <1>1, ImageComingEdge
<1>9. ImageThrough => ImageIn' /\ UNCHANGED best
  BY <1>1, <1>2, ImageThroughEdge
<1>10. ImageIn => ImageIn' /\ UNCHANGED best
  BY <1>1, <1>2, ImageInEdge
<1>11. WeightsAsked => WeightsComing' /\ UNCHANGED best
  BY <1>1, WeightsAskedEdge
<1>12. WeightsComing => (WeightsComing' \/ ScoresThrough') /\ UNCHANGED best
  BY <1>1, WeightsComingEdge
<1>13. ScoresThrough /\ best = seen => ScoresIn'
  BY <1>1, <1>2, ScoresThroughEdge
<1>14. ScoresIn => ScoresIn'
  BY <1>1, <1>2, ScoresInEdge
<1>15. PhaseInv'
  <2> SUFFICES ASSUME ~hurried PROVE PhaseInv'
    BY <1>1 DEF PhaseInv
  <2>1. PhaseInv
    BY DEF IInv
  <2>2. step \in 0 .. 3 => PhaseInv'
    BY <1>1, <1>5, <1>6, <2>1 DEF PhaseInv
  <2>3. step \in 4 .. 8 => PhaseInv'
    BY <1>1, <1>7, <1>8, <1>9, <1>10, <2>1 DEF PhaseInv
  <2>4. step \in 9 .. 11 => PhaseInv'
    BY <1>1, <1>11, <1>12, <1>13, <1>14, <2>1 DEF PhaseInv
  <2>5. step = 12 => PhaseInv'
    BY <1>1, <1>4, <1>5, <1>6, <2>1 DEF PhaseInv
  <2> QED
    BY <1>1, <2>2, <2>3, <2>4, <2>5, HostTypes
<1> QED
  BY <1>3, <1>15 DEF IInv

LEMMA CallNext ==
    ASSUME IInv, NEW a \in Images, Call(a)
    PROVE  IInv'
<1>1. /\ BaseInv /\ Edge(Nothing) /\ step = 0 /\ step' = 1 /\ test_image' = a
      /\ seen' = best /\ hurried' = ~Settled /\ prediction' = prediction
  BY DEF IInv, Call
<1>2. RegisterInv' /\ Started' = {}
  <2>1. /\ Started' = {}
        /\ \A c \in Channel : ~start_out'[c]
    BY <1>1, NotWritten DEF Nothing
  <2> QED
    BY <1>1, <2>1, RegisterNumbers DEF RegisterInv
<1>3. BaseInv'
  BY <1>1, <1>2, HostTypes, QuietBase
<1>4. ASSUME Settled PROVE Calm' /\ best' = seen'
  <2>1. Resting /\ ~predictions_ready
    BY <1>4 DEF Settled, TransferOver, Resting, NoWindow
  <2> QED
    BY <1>1, <1>2, <2>1, RestingEdge, QuietScores DEF Calm, Resting
<1>5. ~hurried' => Calm' /\ best' = seen'
  BY <1>1, <1>4
<1>6. PhaseInv'
  BY <1>1, <1>5 DEF PhaseInv
<1> QED
  BY <1>3, <1>6 DEF IInv

LEMMA PauseNext ==
    ASSUME IInv, Pause
    PROVE  IInv'
<1>1. /\ BaseInv /\ Edge(Nothing) /\ step \in {4, 9} /\ step' = step + 1
      /\ hurried' = (hurried \/ ~TransferOver)
      /\ UNCHANGED <<test_image, prediction, seen>>
  <2>1. step \in 1 .. 11 /\ Program[step] = Delay
    BY ProgramLines DEF Pause
  <2>2. step \in {4, 9}
    BY <2>1, ProgramLines DEF Write, Read, Delay
  <2> QED
    BY <2>2 DEF IInv, Pause
<1>2. RegisterInv' /\ Started' = {}
  BY <1>1, HostTypes, QuietRegisters
<1>3. BaseInv'
  BY <1>1, <1>2, HostTypes, QuietBase
<1>4. ASSUME ~hurried, TransferOver, step = 4
      PROVE  (ImageThrough' \/ ImageIn') /\ best' = seen'
  <2>1. best = seen /\ (ImageComing \/ ImageThrough \/ ImageIn) /\ state_reg = "IDLE"
    BY <1>4 DEF IInv, PhaseInv, TransferOver, ImageAsked
  <2> QED
    BY <1>1, <1>2, <2>1, ImageComingEdge, ImageThroughEdge, ImageInEdge
<1>5. ASSUME ~hurried, TransferOver, step = 9
      PROVE  (best' = seen' /\ ScoresThrough') \/ ScoresIn'
  <2>1. /\ (best = seen /\ (WeightsComing \/ ScoresThrough)) \/ ScoresIn
        /\ state_reg = "IDLE"
    BY <1>5 DEF IInv, PhaseInv, TransferOver, WeightsAsked
  <2> QED
    BY <1>1, <1>2, <2>1, WeightsComingEdge, ScoresThroughEdge, ScoresInEdge
<1>6. ~hurried' => ~hurried /\ TransferOver
  BY <1>1
<1>7. CASE step = 4
  <2>1. PhaseInv'
    BY <1>1, <1>4, <1>6, <1>7 DEF PhaseInv
  <2> QED
    BY <1>3, <2>1 DEF IInv
<1>8. CASE step = 9
  <2>1. PhaseInv'
    BY <1>1, <1>5, <1>6, <1>8 DEF PhaseInv
  <2> QED
    BY <1>3, <2>1 DEF IInv
<1> QED
  BY <1>1, <1>7, <1>8

LEMMA AccessNext ==
    ASSUME IInv, Access
    PROVE  IInv'
<1>1. /\ BaseInv /\ step \in 1 .. 11 /\ step \notin {4, 9} /\ step' = step + 1
      /\ Edge(Program[step])
      /\ UNCHANGED <<test_image, prediction, seen, hurried>>
  BY ProgramLines DEF IInv, Access
<1>2. /\ RegisterInv'
      /\ step = 3 => Started' = {"image"}
      /\ step = 8 => Started' = {"weight"}
      /\ step \notin {3, 8} => Started' = {}
  BY <1>1, HostTypes, AccessRegisters
<1>3. Legal(Program[step])
  <2>1. 0 \in Address /\ 1 \in Address /\ test_image \in Address
        /\ ImageSize \in Address /\ WeightSize \in Address /\ nnWeights \in Address
    <3>1. 0 \in Address /\ 1 \in Address
      BY WidthAssumption, Mod32Assumption DEF Address
    <3>2. test_image \in Images /\ Images \subseteq Address
      BY <1>1, HostTypes, ProgramAssumption
    <3> QED
      BY <3>1, <3>2, AskedType, Zenon
  <2>2. \A reg, data : data \in Address => Legal(Write(reg, data))
    BY DEF Legal, Write
  <2>3. Legal(Read(0))
    BY DEF Legal, Read
  <2> QED
    BY <1>1, <2>1, <2>2, <2>3, ProgramLines
<1>4. BaseInv'
  BY <1>1, <1>2, <1>3, HostTypes, BaseNext
<1>5. Calm => /\ state_reg' = "IDLE" /\ NoWindow' /\ NoPulse' /\ UNCHANGED best
              /\ Started' = {} => Calm'
              /\ Started' = {"image"} => ImageAsked'
  BY <1>1, CalmEdge DEF Calm, Resting, ImageAsked
<1>6. /\ ImageThrough /\ Started' = {} => ImageIn' /\ UNCHANGED best
      /\ ImageIn => /\ UNCHANGED best
                    /\ Started' = {} => ImageIn'
                    /\ Started' = {"weight"} => WeightsAsked'
  BY <1>1, ImageThroughEdge, ImageInEdge
<1>7. Started' = {} => /\ ScoresThrough /\ best = seen => ScoresIn'
                       /\ ScoresIn => ScoresIn'
  BY <1>1, ScoresThroughEdge, ScoresInEdge
<1>8. ASSUME step = 11, ScoresIn PROVE Calm' /\ Right(as_readdata)'
  <2>1. Program[step].op = "read" /\ AccTypeOK
    BY <1>1, <1>8, ProgramLines DEF Read, BaseInv, TypeOK
  <2>2. as_readdata' = max_idx_reg
    BY <1>1, <1>3, <2>1, EdgeRegTypes
  <2>3. \A class : Right(class)' <=> Right(class)
    BY <1>1, RightStays
  <2>4. Calm'
    BY <1>2, <1>5, <1>8 DEF ScoresIn
  <2> QED
    BY <1>8, <2>2, <2>3, <2>4 DEF ScoresIn, Right
<1>9. PhaseInv'
  <2> SUFFICES ASSUME ~hurried PROVE PhaseInv'
    BY <1>1 DEF PhaseInv
  <2>1. PhaseInv
    BY DEF IInv
  <2>2. CASE step \in 1 .. 3
    BY <1>1, <1>2, <1>5, <2>1, <2>2 DEF PhaseInv
  <2>3. CASE step \in 5 .. 8
    BY <1>1, <1>2, <1>6, <2>1, <2>3 DEF PhaseInv
  <2>4. CASE step \in 10 .. 11
    BY <1>1, <1>2, <1>7, <1>8, <2>1, <2>4 DEF PhaseInv
  <2> QED
    BY <1>1, <2>2, <2>3, <2>4
<1> QED
  BY <1>4, <1>9 DEF IInv

LEMMA ReturnNext ==
    ASSUME IInv, Return
    PROVE  IInv'
<1>1. /\ BaseInv /\ Edge(Nothing) /\ step = 12 /\ step' = 0 /\ prediction' = as_readdata
      /\ UNCHANGED <<test_image, seen, hurried>>
  BY ProgramLines DEF IInv, Return
<1>2. RegisterInv' /\ Started' = {}
  <2>1. /\ Started' = {}
        /\ \A c \in Channel : ~start_out'[c]
    BY <1>1, NotWritten DEF Nothing
  <2> QED
    BY <1>1, <2>1, RegisterNumbers DEF RegisterInv
<1>3. BaseInv'
  BY <1>1, <1>2, HostTypes, QuietBase
<1>4. ASSUME ~hurried PROVE Calm' /\ Right(prediction)'
  <2>1. Calm /\ Right(as_readdata)
    BY <1>1, <1>4 DEF IInv, PhaseInv
  <2>2. \A class : Right(class)' <=> Right(class)
    BY <1>1, RightStays
  <2> QED
    BY <1>1, <1>2, <2>1, <2>2, CalmEdge DEF Calm, Resting, Right
<1>5. PhaseInv'
  BY <1>1, <1>4 DEF PhaseInv
<1> QED
  BY <1>3, <1>5 DEF IInv

LEMMA SameInit ==
    /\ Init => Fetch!Init /\ FetchProofs!Init
    /\ AccReset /\ base' = 0 => Fetch!Reset
<1>1. Init => Fetch!Init
  BY SameClear
     DEF Init, AccInit, DmaInit, BusInit, Fetch!Init, Fetch!DmaInit, Fetch!BusInit,
         PerChannel, Fetch!ClearedData, ClearedData, Fetch!Channel, Channel
<1>2. Fetch!Init <=> FetchProofs!Init
  BY SameClear
     DEF FetchProofs!Init, Fetch!Init, FetchProofs!DmaInit, Fetch!DmaInit,
         FetchProofs!BusInit, Fetch!BusInit, Fetch!ClearedData, FetchProofs!ClearedData,
         Fetch!Channel, FetchProofs!Channel
<1>3. AccReset /\ base' = 0 => Fetch!Reset
  BY SameClear
     DEF AccReset, DmaReset, BusReset, Fetch!Reset, Fetch!DmaReset, Fetch!BusReset
<1> QED
  BY <1>1, <1>2, <1>3

(* The registers of the datapath when they are cleared.                    *)
LEMMA ClearedTypes ==
    /\ NoActivations \in Activations
    /\ NullVector \in Vector
    /\ 0 \in Word /\ 0 \in Class /\ 0 \in Address
  BY WordAssumption, FixedPointAssumption, Mod32Assumption
     DEF NoActivations, Activations, NullVector, Vector, Class, Address

LEMMA ResetNext ==
    ASSUME IInv, Reset
    PROVE  IInv'
<1>1. /\ BaseInv /\ AccReset /\ step' = 0 /\ prediction' = NoPrediction /\ base' = 0
      /\ seen' = 0 /\ best' = 0 /\ hurried' = FALSE /\ test_image' = test_image
  BY DEF IInv, Reset
<1>2. FetchProofs!Inv'
  <2>1. Fetch!Reset
    BY <1>1, SameInit
  <2> QED
    BY <1>1, <2>1, FetchNext DEF BaseInv, Fetch!Next
<1>3. DmaTypeOK' /\ pending' \in Seq(Burst) /\ base' \in Address
  BY <1>2, TypesAfter
<1>4. /\ Started' = {} /\ state_reg' = "IDLE" /\ NoWindow' /\ NoPulse'
      /\ \A c \in Channel : ~start_out'[c]
  BY <1>1 DEF AccReset, RegReset, DmaReset, ClearDatapath, PerChannel, ConvReset, FcReset,
     Started, NoWindow, NoPulse
<1>5. RegTypeOK'
  BY <1>1 DEF AccReset, RegReset, BaseInv, TypeOK, AccTypeOK, RegTypeOK
<1>6. ConvTypeOK' /\ FcTypeOK' /\ ArgmaxTypeOK'
  BY <1>1, ClearedTypes
     DEF AccReset, ConvReset, FcReset, ArgmaxReset, ConvTypeOK, FcTypeOK, ArgmaxTypeOK
<1>7. TypeOK'
  <2>1. Len(Program)' = 11 /\ prediction' \in Nat /\ test_image' \in Images
    BY <1>1, HostTypes DEF Program, NoPrediction
  <2> QED
    BY <1>1, <1>3, <1>5, <1>6, <2>1 DEF TypeOK, AccTypeOK
<1>8. RegisterInv' /\ BestInv'
  BY <1>1, <1>4, ClearedTypes, RegisterNumbers
     DEF RegisterInv, BestInv, AccReset, ArgmaxReset
<1>9. PortInv' /\ SizeInv' /\ PulseInv'
  BY <1>4, States, OneActive, RegisterNumbers
     DEF PortInv, SizeInv, PulseInv, RowsHaveAPlace, NoWindow
<1>10. PhaseInv'
  BY <1>1, <1>4 DEF PhaseInv, Calm, Resting
<1> QED
  BY <1>2, <1>7, <1>8, <1>9, <1>10 DEF IInv, BaseInv

LEMMA StutterNext ==
    ASSUME IInv, UNCHANGED vars
    PROVE  IInv'
<1>1. /\ UNCHANGED regVars /\ UNCHANGED dmaVars /\ UNCHANGED pending /\ UNCHANGED convVars
      /\ UNCHANGED fcVars /\ UNCHANGED argmaxVars
      /\ UNCHANGED <<step, test_image, prediction, base, seen, best, hurried>>
  BY DEF vars, accVars, hostVars
<1>2. FetchProofs!Inv'
  <2>1. UNCHANGED Fetch!vars
    BY <1>1 DEF Fetch!vars, Fetch!dmaVars, dmaVars
  <2> QED
    BY <2>1, FetchNext DEF IInv, BaseInv
<1>3. DmaTypeOK' /\ pending' \in Seq(Burst) /\ base' \in Address
  BY <1>2, TypesAfter
<1>4. RegTypeOK' /\ ConvTypeOK' /\ FcTypeOK' /\ ArgmaxTypeOK'
  BY <1>1 DEF IInv, BaseInv, TypeOK, AccTypeOK, RegTypeOK, regVars, ConvTypeOK, convVars,
     FcTypeOK, fcVars, ArgmaxTypeOK, argmaxVars
<1>5. TypeOK'
  BY <1>1, <1>3, <1>4 DEF IInv, BaseInv, TypeOK, AccTypeOK, Program
<1>6. RegisterInv' /\ BestInv'
  BY <1>1 DEF IInv, BaseInv, RegisterInv, BestInv, regVars, argmaxVars
<1>7. PortInv' /\ SizeInv' /\ PulseInv'
  BY <1>1 DEF IInv, BaseInv, PortInv, SizeInv, PulseInv, RowsHaveAPlace, Active, dmaVars, convVars
<1>8. /\ Calm' <=> Calm
      /\ ImageAsked' <=> ImageAsked
      /\ ImageComing' <=> ImageComing
      /\ ImageThrough' <=> ImageThrough
      /\ ImageIn' <=> ImageIn
      /\ WeightsAsked' <=> WeightsAsked
      /\ WeightsComing' <=> WeightsComing
      /\ ScoresThrough' <=> ScoresThrough
      /\ ScoresIn' <=> ScoresIn
  BY <1>1 DEF regVars, dmaVars, convVars, fcVars, argmaxVars, Started, Calm, Resting,
     NoWindow, NoPulse, Active, Stored, Features, Rows, WindowAt, ImageAsked, ImageComing,
     ImageThrough, ImageIn, WeightsAsked, WeightsComing, ScoresThrough, Predictions,
     NetworkScores, ScoresIn, Right
<1>9. /\ as_readdata' = as_readdata
      /\ \A class : Right(class)' <=> Right(class)
  BY <1>1, RightStays DEF regVars
<1>10. PhaseInv'
  BY <1>1, <1>8, <1>9 DEF IInv, PhaseInv
<1> QED
  BY <1>2, <1>5, <1>6, <1>7, <1>10 DEF IInv, BaseInv

LEMMA IInvInit ==
    ASSUME Init
    PROVE  IInv
<1>1. AccInit /\ step = 0 /\ test_image \in Images /\ prediction = NoPrediction
      /\ base = 0 /\ seen = 0 /\ best = 0 /\ hurried = FALSE
  BY DEF Init
<1>2. FetchProofs!Inv
  BY SameInit, FetchAssumptions, FetchProofs!InvInit, ZenonT(30) DEF Asked
<1>3. DmaTypeOK /\ pending \in Seq(Burst) /\ base \in Address
  BY <1>2, DmaFacts
<1>4. /\ Started = {} /\ state_reg = "IDLE" /\ NoWindow /\ NoPulse
      /\ \A c \in Channel : ~start_out[c]
  BY <1>1 DEF AccInit, RegInit, DmaInit, PerChannel, ConvInit, FcInit,
     Started, NoWindow, NoPulse
<1>5. RegTypeOK
  <2>1. PowerUp \subseteq Address /\ Address \subseteq Nat
    BY PowerUpAssumption, Mod32Assumption DEF Address
  <2> QED
    BY <1>1, <2>1 DEF AccInit, RegInit, RegTypeOK
<1>6. ConvTypeOK /\ FcTypeOK /\ ArgmaxTypeOK
  BY <1>1, ClearedTypes
     DEF AccInit, ConvInit, FcInit, ArgmaxInit, ConvTypeOK, FcTypeOK, ArgmaxTypeOK
<1>7. TypeOK
  BY <1>1, <1>3, <1>5, <1>6, ProgramLines DEF TypeOK, AccTypeOK, NoPrediction
<1>8. RegisterInv /\ BestInv
  BY <1>1, <1>4, ClearedTypes, RegisterNumbers
     DEF RegisterInv, BestInv, AccInit, ArgmaxInit
<1>9. PortInv /\ SizeInv /\ PulseInv
  BY <1>4, States, OneActive, RegisterNumbers
     DEF PortInv, SizeInv, PulseInv, RowsHaveAPlace, NoWindow
<1>10. PhaseInv
  BY <1>1, <1>4 DEF PhaseInv, Calm, Resting
<1> QED
  BY <1>2, <1>7, <1>8, <1>9, <1>10 DEF IInv, BaseInv

-----------------------------------------------------------------------------
(* IInv is an inductive invariant.                                         *)
LEMMA IInvNext == IInv /\ [Next]_vars => IInv'
  BY ComputeNext, CallNext, AccessNext, PauseNext, ReturnNext, ResetNext, StutterNext
     DEF Next

LEMMA IInvInvariance == Spec => []IInv
<1>1. Init => IInv
  BY IInvInit
<1> QED
  BY <1>1, IInvNext, PTL DEF Spec

(***************************************************************************)
(* All registers keep their types: every counter its width, every sum of   *)
(* products and every cut of one a word.                                   *)
(***************************************************************************)
THEOREM InferenceTypeCorrect == Spec => []TypeOK
<1>1. IInv => TypeOK
  BY DEF IInv, BaseInv
<1> QED
  BY <1>1, IInvInvariance, PTL

(***************************************************************************)
(* Whatever the program has left in the registers, however long the        *)
(* memory takes and whenever a reset comes, the DMA inside the accelerator *)
(* sees the transfers the program means and no others, so every theorem    *)
(* about DmaBus holds of it.                                               *)
(***************************************************************************)
THEOREM AcceleratorFetches == Spec => FetchesWhatIsAsked
<1>1. Init => Fetch!Init
  BY SameInit
<1>2. IInv /\ [Next]_vars => [Fetch!Next]_(Fetch!vars)
  <2> SUFFICES ASSUME IInv, [Next]_vars PROVE [Fetch!Next]_(Fetch!vars)
    OBVIOUS
  <2>1. TypeOK /\ FetchProofs!Inv /\ RegisterInv /\ PortInv
    BY DEF IInv, BaseInv
  <2>2. \A cmd : Edge(cmd) => Fetch!Next
    BY <2>1, EdgeFetches
  <2>3. CASE Reset
    BY <2>3, SameInit DEF Reset, Fetch!Next
  <2>4. CASE UNCHANGED vars
    BY <2>4 DEF vars, accVars, dmaVars, Fetch!vars, Fetch!dmaVars
  <2> QED
    BY <2>2, <2>3, <2>4 DEF Next, Compute, Call, Access, Pause, Return
<1> QED
  BY <1>1, <1>2, IInvInvariance, PTL DEF Spec, FetchesWhatIsAsked, Fetch!Spec

(***************************************************************************)
(* No row of weights is displaced by activations, hurried or not.          *)
(***************************************************************************)
THEOREM NoRowIsDisplaced == Spec => []ActivationsMeetNoRow
<1>1. IInv => ActivationsMeetNoRow
  BY RegisterNumbers DEF IInv, BaseInv, PulseInv, ActivationsMeetNoRow
<1> QED
  BY <1>1, IInvInvariance, PTL

(***************************************************************************)
(* The row of weights announced is row 0, 1 or 2, hurried or not, so the   *)
(* index outside the array (FullyConnected, StoreRow) is never used.       *)
(***************************************************************************)
THEOREM EveryRowHasAPlace == Spec => []RowsHaveAPlace
<1>1. IInv => RowsHaveAPlace
  BY DEF IInv, BaseInv, SizeInv
<1> QED
  BY <1>1, IInvInvariance, PTL

(***************************************************************************)
(* What reaches the argmax stage in a call that is not hurried are the     *)
(* scores the network has for the call's image.                            *)
(***************************************************************************)
THEOREM ScoresAreRight == Spec => []ScoresAreOfThisImage
<1>1. IInv => ScoresAreOfThisImage
  <2> SUFFICES ASSUME IInv, ~hurried, predictions_ready
               PROVE  Predictions = NetworkScores(test_image)
    BY DEF ScoresAreOfThisImage
  <2>1. ScoresThrough
    BY HostTypes DEF IInv, PhaseInv, ImageAsked, ImageComing, ImageThrough, ImageIn,
       WeightsAsked, WeightsComing, ScoresIn, Calm, NoPulse
  <2> QED
    BY <2>1 DEF ScoresThrough
<1> QED
  BY <1>1, IInvInvariance, PTL

(***************************************************************************)
(* A call that is not hurried returns the class with the best score,       *)
(* unless an earlier call since reset had a better one: for every memory,  *)
(* every network, every image, and whatever happened before the call.      *)
(***************************************************************************)
THEOREM CallsReturnBestClass == Spec => []ReturnsBestClass
<1>1. IInv => ReturnsBestClass
  BY DEF IInv, PhaseInv, Right, ReturnsBestClass
<1> QED
  BY <1>1, IInvInvariance, PTL
=============================================================================
