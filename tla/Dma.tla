--------------------------------- MODULE Dma ---------------------------------
(***************************************************************************)
(* The DMA of the CNN accelerator (hw/quartus/ip/dma.vhd): the Avalon      *)
(* master that fetches the image and the weights in bursts and hands each  *)
(* complete burst ("window") to the convolution block or to the fully      *)
(* connected layer.                                                        *)
(*                                                                         *)
(* One step of this module is one rising edge of clk.  The input ports are *)
(* parameters of the operators, the registers are variables and keep their *)
(* VHDL names.  The image half and the weight half of the state machine    *)
(* are the same code up to the prefix of the registers, so a register pair *)
(* image_x_reg, weight_x_reg is one function x_reg over Channel.           *)
(***************************************************************************)
EXTENDS DataType

CONSTANTS
    BurstSize,   \* words per burst and channel: image 49, weight 16
    Mod17        \* range of the 17-bit word counter: 2^17

ASSUME BurstSizeAssumption == BurstSize \in [Channel -> Nat \ {0}]
ASSUME WidthAssumption ==
    /\ Mod4 \in Nat \ {0}
    /\ Mod17 \in Nat \ {0}
    /\ Mod17 < Mod32

VARIABLES
    state_reg,           \* the state of the FSM
    data_reg,            \* the words of the window being fetched
    addr_reg,            \* address of the current burst
    length_reg,          \* words of the whole transfer
    cnt_reg,             \* index of the last complete window
    write_reg,           \* pulse: a window is complete
    start_reg,           \* pulse: the last window is complete
    burst_cnt_reg,       \* words of the current burst received
    address_reg,         \* am_address
    burstcount_out_reg,  \* am_burstcount
    burstcount_reg,      \* words per burst of the current transfer
    read_reg,            \* am_read
    word_cnt_reg         \* words of the whole transfer received

dmaVars == <<state_reg, data_reg, addr_reg, length_reg, cnt_reg, write_reg,
             start_reg, burst_cnt_reg, address_reg, burstcount_out_reg,
             burstcount_reg, read_reg, word_cnt_reg>>

-----------------------------------------------------------------------------
BurstStart(c) == IF c = "image" THEN "BurstImageStart" ELSE "BurstWeightStart"
BurstWait(c)  == IF c = "image" THEN "BurstImageWait" ELSE "BurstWeightWait"
BurstRead(c)  == IF c = "image" THEN "BurstImageRead" ELSE "BurstWeightRead"

State == {"IDLE"} \cup {BurstStart(c) : c \in Channel}
                  \cup {BurstWait(c)  : c \in Channel}
                  \cup {BurstRead(c)  : c \in Channel}

DmaTypeOK ==
    /\ state_reg \in State
    /\ DOMAIN data_reg = Channel
    /\ \A c \in Channel : data_reg[c] \in [0 .. BurstSize[c] - 1 -> Word]
    /\ addr_reg \in [Channel -> Address]
    /\ length_reg \in [Channel -> Address]
    /\ cnt_reg \in [Channel -> 0 .. Mod4 - 1]
    /\ write_reg \in [Channel -> BOOLEAN]
    /\ start_reg \in [Channel -> BOOLEAN]
    /\ burst_cnt_reg \in [Channel -> Nat]
    /\ \A c \in Channel : burst_cnt_reg[c] <= BurstSize[c]
    /\ address_reg \in Address
    /\ burstcount_out_reg \in Nat
    /\ burstcount_reg \in Nat
    /\ read_reg \in BOOLEAN
    /\ word_cnt_reg \in 0 .. Mod17 - 1

-----------------------------------------------------------------------------
ClearedData == [c \in Channel |-> [i \in 0 .. BurstSize[c] - 1 |-> Zero]]
PerChannel(v) == [c \in Channel |-> v]

DmaInit ==
    /\ state_reg = "IDLE"
    /\ data_reg = ClearedData
    /\ addr_reg = PerChannel(0)
    /\ length_reg = PerChannel(0)
    /\ cnt_reg = PerChannel(Mod4 - 1)
    /\ write_reg = PerChannel(FALSE)
    /\ start_reg = PerChannel(FALSE)
    /\ burst_cnt_reg = PerChannel(0)
    /\ address_reg = 0
    /\ burstcount_out_reg = 0
    /\ burstcount_reg = 0
    /\ read_reg = FALSE
    /\ word_cnt_reg = 0

\* Mutant of ClearDatapath: the window counters go on from where they were.
ClearDatapathKeepsCount ==
    /\ data_reg' = ClearedData
    /\ write_reg' = PerChannel(FALSE)
    /\ start_reg' = PerChannel(FALSE)
    /\ burst_cnt_reg' = PerChannel(0)
    /\ address_reg' = 0
    /\ burstcount_out_reg' = 0
    /\ read_reg' = FALSE
    /\ word_cnt_reg' = 0
    /\ UNCHANGED cnt_reg

\* What the IDLE state clears whether or not a transfer starts.
ClearDatapath ==
    /\ data_reg' = ClearedData
    /\ cnt_reg' = PerChannel(Mod4 - 1)
    /\ write_reg' = PerChannel(FALSE)
    /\ start_reg' = PerChannel(FALSE)
    /\ burst_cnt_reg' = PerChannel(0)
    /\ address_reg' = 0
    /\ burstcount_out_reg' = 0
    /\ read_reg' = FALSE
    /\ word_cnt_reg' = 0

\* reset_n = '0': every register takes its reset value.
DmaReset ==
    /\ ClearDatapath
    /\ state_reg' = "IDLE"
    /\ addr_reg' = PerChannel(0)
    /\ length_reg' = PerChannel(0)
    /\ burstcount_reg' = 0

-----------------------------------------------------------------------------
(* IDLE: go is the set of channels whose start input is high.              *)
StayIdle(go) ==
    /\ state_reg = "IDLE"
    /\ go = {}
    /\ ClearDatapath
    /\ addr_reg' = PerChannel(0)
    /\ length_reg' = PerChannel(0)
    /\ burstcount_reg' = 0
    /\ UNCHANGED state_reg

\* A start input is high: latch address and length.  The image has priority.
Accept(c, go, a, l) ==
    /\ state_reg = "IDLE"
    /\ c \in go
    /\ c = "weight" => "image" \notin go
    /\ ClearDatapath
    /\ addr_reg' = [PerChannel(0) EXCEPT ![c] = a[c]]
    /\ length_reg' = [PerChannel(0) EXCEPT ![c] = l[c]]
    /\ burstcount_reg' = BurstSize[c]
    /\ state_reg' = BurstStart(c)

\* Mutant of StartBurst: one word too many is requested.
StartBurstLong(c) ==
    /\ state_reg = BurstStart(c)
    /\ write_reg' = [write_reg EXCEPT ![c] = FALSE]
    /\ read_reg' = TRUE
    /\ address_reg' = addr_reg[c]
    /\ burstcount_out_reg' = burstcount_reg + 1
    /\ state_reg' = BurstWait(c)
    /\ UNCHANGED <<data_reg, addr_reg, length_reg, cnt_reg, start_reg,
                   burst_cnt_reg, burstcount_reg, word_cnt_reg>>

(* Burst<c>Start: drive the read request.                                  *)
StartBurst(c) ==
    /\ state_reg = BurstStart(c)
    /\ write_reg' = [write_reg EXCEPT ![c] = FALSE]
    /\ read_reg' = TRUE
    /\ address_reg' = addr_reg[c]
    /\ burstcount_out_reg' = burstcount_reg
    /\ state_reg' = BurstWait(c)
    /\ UNCHANGED <<data_reg, addr_reg, length_reg, cnt_reg, start_reg,
                   burst_cnt_reg, burstcount_reg, word_cnt_reg>>

\* Mutant of HoldRequest: the request lasts one cycle.
HoldRequestOnce(c, waitrequest) ==
    /\ state_reg = BurstWait(c)
    /\ waitrequest
    /\ read_reg' = FALSE
    /\ UNCHANGED <<state_reg, data_reg, addr_reg, length_reg, cnt_reg, write_reg,
                   start_reg, burst_cnt_reg, address_reg, burstcount_out_reg,
                   burstcount_reg, word_cnt_reg>>

(* Burst<c>Wait: hold the request until the bus takes it.                  *)
HoldRequest(c, waitrequest) ==
    /\ state_reg = BurstWait(c)
    /\ waitrequest
    /\ UNCHANGED dmaVars

EndRequest(c, waitrequest) ==
    /\ state_reg = BurstWait(c)
    /\ ~waitrequest
    /\ read_reg' = FALSE
    /\ burstcount_out_reg' = 0
    /\ state_reg' = BurstRead(c)
    /\ UNCHANGED <<data_reg, addr_reg, length_reg, cnt_reg, write_reg,
                   start_reg, burst_cnt_reg, address_reg, burstcount_reg,
                   word_cnt_reg>>

(* Burst<c>Read: collect the beats of the burst.                           *)
AwaitBeat(c, valid) ==
    /\ state_reg = BurstRead(c)
    /\ ~valid
    /\ UNCHANGED dmaVars

StoreWord(c, readdata) ==
    /\ data_reg' = [data_reg EXCEPT ![c][burst_cnt_reg[c]] = readdata]
    /\ word_cnt_reg' = (word_cnt_reg + 1) % Mod17
    /\ UNCHANGED <<length_reg, burstcount_reg, address_reg,
                   burstcount_out_reg, read_reg>>

\* Mutant of PulseWrite: the window is not counted.
PulseWriteUncounted(c) ==
    /\ write_reg' = [write_reg EXCEPT ![c] = TRUE]
    /\ UNCHANGED cnt_reg

PulseWrite(c) ==
    /\ write_reg' = [write_reg EXCEPT ![c] = TRUE]
    /\ cnt_reg' = [cnt_reg EXCEPT ![c] = (@ + 1) % Mod4]

\* Mutants of LastWord: one word early, and one word late.
LastWordEarly(c) == word_cnt_reg = (length_reg[c] + Mod32 - 2) % Mod32
LastWordLate(c) == word_cnt_reg = length_reg[c]

\* word_cnt_reg = length_reg - 1, the subtraction in 32 bits: a length of 0
\* is never reached.
LastWord(c) == \/ word_cnt_reg = (length_reg[c] + Mod32 - 1) % Mod32
               \/ burstcount_reg = 0

\* Mutants of LastOfBurst: one word early, and one word late.
LastOfBurstEarly(c) == burst_cnt_reg[c] = burstcount_reg - 2
LastOfBurstLate(c) == burst_cnt_reg[c] = burstcount_reg

LastOfBurst(c) == burst_cnt_reg[c] = burstcount_reg - 1

\* A beat in the middle of a burst.
TakeBeat(c, valid, readdata) ==
    /\ state_reg = BurstRead(c)
    /\ valid
    /\ ~LastWord(c)
    /\ ~LastOfBurst(c)
    /\ StoreWord(c, readdata)
    /\ burst_cnt_reg' = [burst_cnt_reg EXCEPT ![c] = @ + 1]
    /\ UNCHANGED <<state_reg, addr_reg, cnt_reg, write_reg, start_reg>>

\* "one burst done": announce the window and go on with the next burst.
FinishBurst(c, valid, readdata) ==
    /\ state_reg = BurstRead(c)
    /\ valid
    /\ ~LastWord(c)
    /\ LastOfBurst(c)
    /\ StoreWord(c, readdata)
    /\ PulseWrite(c)
    /\ addr_reg' = [addr_reg EXCEPT ![c] = (@ + burstcount_reg) % Mod32]
    /\ burst_cnt_reg' = [burst_cnt_reg EXCEPT ![c] = 0]
    /\ state_reg' = BurstStart(c)
    /\ UNCHANGED start_reg

\* "whole transfer finished": announce the window as the last one.
FinishTransfer(c, valid, readdata) ==
    /\ state_reg = BurstRead(c)
    /\ valid
    /\ LastWord(c)
    /\ StoreWord(c, readdata)
    /\ PulseWrite(c)
    /\ burst_cnt_reg' = [burst_cnt_reg EXCEPT ![c] = @ + 1]
    /\ start_reg' = [start_reg EXCEPT ![c] = TRUE]
    /\ state_reg' = "IDLE"
    /\ UNCHANGED addr_reg

-----------------------------------------------------------------------------
\* One rising edge of clk with reset_n = '1'.
DmaEdge(go, a, l, waitrequest, valid, readdata) ==
    \/ StayIdle(go)
    \/ \E c \in Channel :
          \/ Accept(c, go, a, l)
          \/ StartBurst(c)
          \/ HoldRequest(c, waitrequest)
          \/ EndRequest(c, waitrequest)
          \/ AwaitBeat(c, valid)
          \/ TakeBeat(c, valid, readdata)
          \/ FinishBurst(c, valid, readdata)
          \/ FinishTransfer(c, valid, readdata)
=============================================================================
