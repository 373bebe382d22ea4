---------------------------- MODULE CnnAccelerator ---------------------------
(***************************************************************************)
(* The accelerator (CNN_accelerator.vhd): register map, DMA, convolution   *)
(* block, fully connected layer and argmax, all clocked together, each     *)
(* reading the registers the others had before the edge.                   *)
(***************************************************************************)
EXTENDS Dma, AvalonBus, RegisterMap, ConvBlock, FullyConnected, Argmax

\* A neuron has one weight per window (both 16 in the code), and the filter one
\* per word of a window.
ASSUME ShapeAssumption ==
    /\ BurstSize["weight"] = Mod4
    /\ conv_weights \in [0 .. BurstSize["image"] - 1 -> Word]
    /\ conv_bias \in Double

accVars == <<regVars, dmaVars, pending, convVars, fcVars, argmaxVars>>

AccTypeOK ==
    /\ RegTypeOK
    /\ DmaTypeOK
    /\ pending \in Seq(Burst)
    /\ ConvTypeOK
    /\ FcTypeOK
    /\ ArgmaxTypeOK

AccInit ==
    /\ RegInit
    /\ DmaInit
    /\ BusInit
    /\ ConvInit
    /\ FcInit
    /\ ArgmaxInit

AccReset ==
    /\ RegReset
    /\ DmaReset
    /\ BusReset
    /\ ConvReset
    /\ FcReset
    /\ ArgmaxReset

Started == {c \in Channel : start_out[c]}

\* What the memory may do on an edge.
BusMay(waitrequest, valid, room) ==
    /\ valid => pending # <<>>
    /\ read_reg /\ ~waitrequest => Len(pending) < room

\* One rising edge, with a command on the slave port.
AccEdge(cmd, waitrequest, valid) ==
    LET readdata == IF valid THEN NextBeat ELSE Zero
    IN  /\ RegEdge(cmd, Predictions, max_idx_reg)
        /\ DmaEdge(Started, addr_out, length_out, waitrequest, valid, readdata)
        /\ BusEdge(read_reg, address_reg, burstcount_out_reg,
                   waitrequest, valid, readdata)
        /\ ConvEdge(write_reg["image"], start_reg["image"],
                    cnt_reg["image"], data_reg["image"])
        /\ FcEdge(relu_regs_ready_reg, conv_regs,
                  write_reg["weight"], start_reg["weight"],
                  cnt_reg["weight"], data_reg["weight"])
        /\ ArgmaxEdge(predictions_ready, Predictions)
=============================================================================
