------------------------------ MODULE Inference ------------------------------
(***************************************************************************)
(* The whole system: pred_image of sw/app/main.c, run over and over on the *)
(* Nios II, the accelerator, and the memory with the images and the        *)
(* weights.  One step is one clock edge.  Between two of its bus accesses  *)
(* the program lets any number of edges pass.                              *)
(*                                                                         *)
(* The program does not ask whether a transfer is done: it counts to       *)
(* WAIT_TIME (main.c:38, 44), and nothing relates the count to the speed   *)
(* of the memory.  So a delay may end at any time, and a call may start    *)
(* while the transfers of the one before are still on.                     *)
(*                                                                         *)
(* base, seen, best and hurried are history variables.                     *)
(***************************************************************************)
EXTENDS CnnAccelerator

CONSTANTS
    Images,         \* addresses of the images
    ImageSize,      \* TEST_IMAGE_SIZE: 784
    nnWeights,      \* address of the weights
    WeightSize,     \* WEIGHT_SIZE: 48
    MaxPending      \* as in DmaBus

ASSUME ProgramAssumption ==
    /\ Images \subseteq Address
    /\ nnWeights \in Address
    /\ ImageSize = Mod4 * BurstSize["image"]
    /\ WeightSize = 3 * BurstSize["weight"]
    /\ 3 <= Mod4   \* the window counter numbers the rows of weights
    /\ WeightSize < Mod32 /\ ImageSize < Mod32
    /\ WeightSize <= Mod17 /\ ImageSize <= Mod17
    /\ MaxPending \in Nat \ {0}

VARIABLES
    step,         \* the next line of pred_image, 0 outside of a call
    test_image,   \* its argument
    prediction,   \* what the last call returned, NoPrediction before the first
    base,         \* as in DmaBus
    seen,         \* the best score of the calls since reset before this one
    best,         \* the same with this one, once its scores are read
    hurried       \* this call found the accelerator busy or left a delay early

hostVars == <<step, test_image, prediction>>
vars == <<accVars, hostVars, base, seen, best, hurried>>

NoPrediction == 3
Nothing == [op |-> "none", reg |-> 0, data |-> 0]
Write(reg, data) == [op |-> "write", reg |-> reg, data |-> data]
Read(reg) == [op |-> "read", reg |-> reg, data |-> 0]
Delay == [op |-> "delay", reg |-> 0, data |-> 0]

\* The body of pred_image.
Program ==
    <<Write(3, ImageSize),    \* IMG_LEN
      Write(2, test_image),   \* IMG_ADDR
      Write(0, 1),            \* START_IMAGE
      Delay,
      Write(0, 0),
      Write(5, WeightSize),   \* WEIGHT_LEN
      Write(4, nnWeights),    \* WEIGHT_ADDR
      Write(1, 1),            \* START_WEIGHT
      Delay,
      Write(1, 0),
      Read(0)>>               \* PREDICTION

-----------------------------------------------------------------------------
(* The scores the network has for an image.                                *)
WindowAt(c, a, k) ==
    [i \in 0 .. BurstSize[c] - 1 |->
        Memory[CellAt((a + k * BurstSize[c]) % Mod32, i)]]
NetworkScores(a) ==
    LET activations == [k \in 0 .. Mod4 - 1 |-> Activation(WindowAt("image", a, k))]
    IN  [row \in Class |-> Neuron(activations, WindowAt("weight", nnWeights, row))]

-----------------------------------------------------------------------------
Init ==
    /\ AccInit
    /\ step = 0
    /\ test_image \in Images
    /\ prediction = NoPrediction
    /\ base = 0
    /\ seen = 0
    /\ best = 0
    /\ hurried = FALSE

\* The history variables on an edge without reset.
History ==
    /\ base' = IF state_reg = "IDLE" /\ Started # {}
               THEN addr_out[IF "image" \in Started THEN "image" ELSE "weight"]
               ELSE base
    /\ best' = IF predictions_ready THEN Larger(best, Top(Predictions)) ELSE best

Edge(cmd) ==
    /\ \E waitrequest, valid \in BOOLEAN :
          /\ BusMay(waitrequest, valid, MaxPending)
          /\ AccEdge(cmd, waitrequest, valid)
    /\ History

\* The program is busy with itself.
Compute == Edge(Nothing) /\ UNCHANGED <<hostVars, seen, hurried>>

\* No transfer is on or asked for, and no scores are on their way.
TransferOver == Started = {} /\ state_reg = "IDLE"
Settled ==
    /\ TransferOver
    /\ write_reg = [c \in Channel |-> FALSE]
    /\ ~predictions_ready

\* main calls pred_image.
Call(a) ==
    /\ step = 0
    /\ Edge(Nothing)
    /\ step' = 1
    /\ test_image' = a
    /\ seen' = best
    /\ hurried' = ~Settled
    /\ UNCHANGED prediction

\* IOWR_32DIRECT or IORD_32DIRECT
Access ==
    /\ step \in 1 .. Len(Program)
    /\ Program[step] # Delay
    /\ Edge(Program[step])
    /\ step' = step + 1
    /\ UNCHANGED <<test_image, prediction, seen, hurried>>

\* The delay loop ends, whether the transfer started in front of it is over or
\* not.  The last window may still be on its way to the result.
Pause ==
    /\ step \in 1 .. Len(Program)
    /\ Program[step] = Delay
    /\ Edge(Nothing)
    /\ step' = step + 1
    /\ hurried' = (hurried \/ ~TransferOver)
    /\ UNCHANGED <<test_image, prediction, seen>>

Return ==
    /\ step = Len(Program) + 1
    /\ prediction' = as_readdata
    /\ step' = 0
    /\ Edge(Nothing)
    /\ UNCHANGED <<test_image, seen, hurried>>

\* KEY 0 resets the accelerator together with the processor.
Reset ==
    /\ AccReset
    /\ step' = 0
    /\ prediction' = NoPrediction
    /\ base' = 0
    /\ seen' = 0
    /\ best' = 0
    /\ hurried' = FALSE
    /\ UNCHANGED test_image

Next ==
    \/ Compute
    \/ \E a \in Images : Call(a)
    \/ Access
    \/ Pause
    \/ Return
    \/ Reset

Spec == Init /\ [][Next]_vars

(***************************************************************************)
(* Fairness.  The clock runs and the memory neither refuses a request nor  *)
(* withholds a beat for ever, so an edge on which it takes what is asked   *)
(* and delivers what it owes comes again and again; the processor executes *)
(* its program.  Nothing is assumed of calls and resets.                   *)
(***************************************************************************)
PromptEdge ==
    /\ AccEdge(Nothing, FALSE, pending # <<>>)
    /\ History
    /\ UNCHANGED <<hostVars, seen, hurried>>

Fairness ==
    /\ WF_vars(PromptEdge)
    /\ WF_vars(Access)
    /\ WF_vars(Pause)
    /\ WF_vars(Return)

FairSpec == Spec /\ Fairness

-----------------------------------------------------------------------------
Fetch == INSTANCE DmaBus WITH
    Transfers <- [image  |-> [addr : Images, length : {ImageSize}],
                  weight |-> [addr : {nnWeights}, length : {WeightSize}]]

\* Types of all registers.
TypeOK ==
    /\ AccTypeOK
    /\ step \in 0 .. Len(Program) + 1
    /\ test_image \in Images
    /\ prediction \in Nat
    /\ base \in Address

\* Inside the accelerator the DMA sees the starts, addresses and lengths the
\* program means, each pair together, and behaves as DmaBus, so what is
\* checked and proved there holds here (CNN_accelerator.vhd:172-224,
\* register_map.vhd:69-86, main.c:34-45).
FetchesWhatIsAsked == Fetch!Spec

\* The activations never arrive together with a row of weights, which they
\* would displace (fully_connected_layer.vhd:66-71).
ActivationsMeetNoRow == ~(relu_regs_ready_reg /\ write_reg["weight"])

\* Every row of weights has a place (fully_connected_layer.vhd:73).
RowsHaveAPlace == write_reg["weight"] => cnt_reg["weight"] \in Class

\* In a call that is not hurried the scores handed to the argmax are those of its
\* image under these weights, whatever images, weights, resets and hurried calls
\* came before (CNN_accelerator.vhd:226-266).
ScoresAreOfThisImage ==
    ~hurried /\ predictions_ready => Predictions = NetworkScores(test_image)

\* A call of pred_image that is not hurried returns the class of the image's best
\* score if that is at least as good as every score since reset (main.c:47,
\* argmax.vhd:25-48, register_map.vhd:98).
ReturnsBestClass ==
    LET scores == NetworkScores(test_image)
    IN  /\ step = 0
        /\ ~hurried
        /\ prediction # NoPrediction
        /\ Top(scores) >= seen
        => prediction = MaxIndex(scores)

\* No call has been made since power-up or reset.
NoCallYet == step = 0 /\ prediction = NoPrediction

\* An image that is being fetched ends in activations and weights end in scores,
\* in the first call and in every later one, whether the program waits for them
\* or hurries on and writes the registers again, unless a reset comes
\* (dma.vhd:228-290, conv_block.vhd:76-78, fully_connected_layer.vhd:77-79,
\* main.c:36-45).
ResultsFollow ==
    /\ Fetch!Active("image") ~> relu_regs_ready_reg \/ NoCallYet
    /\ Fetch!Active("weight") ~> predictions_ready \/ NoCallYet
=============================================================================
