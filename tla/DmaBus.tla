-------------------------------- MODULE DmaBus -------------------------------
(***************************************************************************)
(* The DMA connected to the memory and driven by the start inputs of the   *)
(* register map: every interleaving of start pulses, wait states, beat     *)
(* delays and resets.                                                      *)
(*                                                                         *)
(* The register map raises at most one start output per cycle (it decodes  *)
(* one bus write) and holds address and length registers, so a start comes *)
(* with one job.  base is a history variable: the address the transfer in  *)
(* progress was started with.                                              *)
(***************************************************************************)
EXTENDS Dma, AvalonBus

CONSTANTS
    Transfers,   \* per channel, the transfers asked for: [addr, length]
    MaxPending   \* requests the interconnect keeps: MAX_OUTSTANDING_RESPONSES

ASSUME TransfersAssumption ==
    \A c \in Channel : Transfers[c] \subseteq [addr : Address, length : Address]
ASSUME MaxPendingAssumption == MaxPending \in Nat \ {0}

VARIABLE base

vars == <<dmaVars, pending, base>>

Init == DmaInit /\ BusInit /\ base = 0

\* On this edge the bus takes no request from the DMA; it may deliver a beat,
\* which the DMA ignores unless it is in a Read state.
BusAside == BusIdle \/ DeliverBeat

\* A start output of the register map rises with the job in its registers.  (A
\* start that finds the DMA busy changes nothing and needs no action.)
Begin(c, t) ==
    /\ Accept(c, {c}, PerChannel(t.addr), PerChannel(t.length))
    /\ BusAside
    /\ base' = t.addr

Rest == StayIdle({}) /\ BusAside /\ UNCHANGED base

Request(c) == StartBurst(c) /\ BusAside /\ UNCHANGED base

Wait(c) == HoldRequest(c, TRUE) /\ BusAside /\ UNCHANGED base

RequestTaken(c) ==
    /\ EndRequest(c, FALSE)
    /\ Len(pending) < MaxPending
    /\ \E valid \in BOOLEAN : AcceptRequest(address_reg, burstcount_out_reg, valid)
    /\ UNCHANGED base

Delay(c) == AwaitBeat(c, FALSE) /\ BusIdle /\ UNCHANGED base

Beat(c) ==
    /\ \/ TakeBeat(c, TRUE, NextBeat)
       \/ FinishBurst(c, TRUE, NextBeat)
       \/ FinishTransfer(c, TRUE, NextBeat)
    /\ DeliverBeat
    /\ UNCHANGED base

Reset == DmaReset /\ BusReset /\ base' = 0

Edge(c) ==
    \/ \E t \in Transfers[c] : Begin(c, t)
    \/ Request(c)
    \/ Wait(c)
    \/ RequestTaken(c)
    \/ Delay(c)
    \/ Beat(c)

Next == Rest \/ Reset \/ \E c \in Channel : Edge(c)

Spec == Init /\ [][Next]_vars

(***************************************************************************)
(* Fairness.  The clock runs, so a transition of the FSM that does not     *)
(* wait for the bus is taken.  The memory sends the beats it owes, whether *)
(* or not the DMA collects them, and accepts a request it has room for.    *)
(* Nothing is assumed of starts and resets.                                *)
(***************************************************************************)
Fairness ==
    /\ WF_vars(Rest)
    /\ \A c \in Channel :
          /\ WF_vars(Request(c))
          /\ WF_vars(Wait(c) /\ DeliverBeat)
          /\ WF_vars(RequestTaken(c))
          /\ WF_vars(Beat(c))

FairSpec == Spec /\ Fairness

-----------------------------------------------------------------------------
(* The refinement mapping to TransferSpec.                                 *)
Active(c) == state_reg \in {BurstStart(c), BurstWait(c), BurstRead(c)}
Current == IF Active("image") THEN "image" ELSE "weight"

\* The words of window k of a transfer from address a: burst k is requested
\* at address a + k * BurstSize.
WindowAt(c, a, k) ==
    [i \in 0 .. BurstSize[c] - 1 |->
        Memory[CellAt((a + k * BurstSize[c]) % Mod32, i)]]

job == IF state_reg = "IDLE" THEN {}
       ELSE {[chan    |-> Current,
              addr    |-> base,
              windows |-> length_reg[Current] \div BurstSize[Current]]}
delivered == IF state_reg = "IDLE" THEN 0 ELSE (cnt_reg[Current] + 1) % Mod4
out == {[chan |-> c, index |-> cnt_reg[c], words |-> data_reg[c], last |-> start_reg[c]] :
           c \in {d \in Channel : write_reg[d]}}
WindowJob == [c \in Channel |->
                {[addr |-> t.addr, windows |-> t.length \div BurstSize[c]] :
                    t \in Transfers[c]}]

Transfer == INSTANCE TransferSpec

\* The DMA with its bus implements the window-by-window transfer: each window
\* once, in order, complete, the last one marked, and every window in the end
\* (dma.vhd:148-295).
ImplementsTransfer == Transfer!Spec

-----------------------------------------------------------------------------
\* The transfers are whole windows, no more than the window counter numbers,
\* as the 784 and 48 words of main.c are.
WholeWindows ==
    \A c \in Channel : \A t \in Transfers[c] :
        /\ t.length <= Mod17
        /\ \E n \in 1 .. Mod4 : t.length = n * BurstSize[c]

\* Types.  burst_cnt_reg stays below the burst size while a transfer runs: with
\* the guards of the Read states no word is stored outside the data registers
\* (dma.vhd:230, 270).
TypeOK ==
    /\ DmaTypeOK
    /\ pending \in Seq(Burst)
    /\ base \in Address

\* A window announced to a consumer consists of exactly the words of the
\* burst requested for it (dma.vhd:228-247, 268-287).
WindowIntact ==
    \A c \in Channel :
        write_reg[c] => data_reg[c] = WindowAt(c, base, cnt_reg[c])

\* Whatever length was asked for, the words a transfer has stored are words of
\* the burst it requested, never the remains of another transfer's burst
\* (dma.vhd:228-247, 268-287; dma_tb.vhd runs transfers of 4 words).
OwnWords ==
    \A c \in Channel :
        Active(c) => \A i \in 0 .. burst_cnt_reg[c] - 1 :
                        data_reg[c][i] = WindowAt(c, base, (cnt_reg[c] + 1) % Mod4)[i]

\* When a transfer is reported finished no beat of it is still on its way
\* ("whole transfer finished", dma.vhd:234, 274).
FinishedMeansDrained == \A c \in Channel : start_reg[c] => pending = <<>>

\* A read request is never on the bus while beats of an earlier one are
\* outstanding, so a beat is never taken for a beat of another burst
\* (dma.vhd:212-216, 252-256).
OneOutstanding == read_reg => pending = <<>>

\* A transfer is reported finished exactly when as many words as asked for
\* have been stored, whatever length was asked for; a length the 17-bit
\* counter cannot count to is never reported finished (dma.vhd:232-238).
FinishedAtLength ==
    \A c \in Channel :
        start_reg[c] => /\ length_reg[c] \in 1 .. Mod17
                        /\ word_cnt_reg = length_reg[c] % Mod17

\* A read request is neither changed nor withdrawn before the bus has
\* accepted it (dma.vhd:219-226, 259-266).
RequestHeld ==
    [][read_reg /\ ~Reset =>
          \/ UNCHANGED <<read_reg, address_reg, burstcount_out_reg>>
          \/ /\ ~read_reg'
             /\ pending' # <<>>
             /\ pending'[Len(pending')] =
                  [base |-> address_reg, beats |-> burstcount_out_reg, sent |-> 0]]_vars

\* The edges a transfer still takes, those not counted on which the memory
\* neither accepts the request nor delivers a beat: per window one to drive the
\* request, one to have it accepted, and one for each word.
EdgesLeft(c) ==
    LET windows == (length_reg[c] \div BurstSize[c]) - ((cnt_reg[c] + 1) % Mod4)
        spent   == CASE state_reg = BurstStart(c) -> 0
                     [] state_reg = BurstWait(c)  -> 1
                     [] state_reg = BurstRead(c)  -> 2 + burst_cnt_reg[c]
    IN  IF Active(c) THEN windows * (BurstSize[c] + 2) - spent ELSE 0

\* A transfer of n windows of b words takes n * (b + 2) edges and those on which
\* the memory lets it wait, neither more nor fewer: 816 for the image and 54 for
\* the weights of main.c, which is what its loops have to outlast, because the
\* program cannot read whether the DMA is idle (dma.vhd:207-290, main.c:38, 44).
OnSchedule ==
    [][\A c \in Channel : Active(c) /\ ~Reset => EdgesLeft(c)' = EdgesLeft(c) - 1]_vars

\* Window k of a transfer holds the words k * BurstSize and up behind the
\* words at its address: the consecutive windows main.c, the testbench and
\* rearrange_image_for_memory lay out (CNN_accelerator_tb.vhd:121, 159).
WindowsContiguous ==
    \A c \in Channel :
        write_reg[c] =>
            \A i \in 0 .. BurstSize[c] - 1 :
                data_reg[c][i] = Memory[CellAt(base, cnt_reg[c] * BurstSize[c] + i)]

\* A transfer whose length the word counter can count to does not keep the
\* DMA busy for ever, whatever beats of earlier transfers are still due
\* (dma.vhd:228-250, 268-290).
TransferEnds ==
    \A c \in Channel :
        (Active(c) /\ length_reg[c] \in 1 .. Mod17) ~> (state_reg = "IDLE")
=============================================================================
