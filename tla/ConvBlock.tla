------------------------------ MODULE ConvBlock ------------------------------
(***************************************************************************)
(* The convolution block (conv_block.vhd): each window from the DMA goes   *)
(* through the filter and the ReLU, both combinational, into the register  *)
(* of its index; the last window raises a pulse for the fully connected    *)
(* layer one cycle later.                                                  *)
(***************************************************************************)
EXTENDS FixedPoint

CONSTANTS conv_weights, conv_bias

VARIABLES
    relu_regs_ready_reg,   \* pulse: every window of the image is done
    conv_regs              \* the activation of each window

convVars == <<relu_regs_ready_reg, conv_regs>>

Activations == [0 .. Mod4 - 1 -> Word]
NoActivations == [k \in 0 .. Mod4 - 1 |-> 0]

ConvTypeOK ==
    /\ relu_regs_ready_reg \in BOOLEAN
    /\ conv_regs \in Activations

ConvInit ==
    /\ relu_regs_ready_reg = FALSE
    /\ conv_regs = NoActivations

ConvReset ==
    /\ relu_regs_ready_reg' = FALSE
    /\ conv_regs' = NoActivations

Activation(window) == ReLU(ConvFilter(conv_weights, conv_bias, window))

\* Mutant of ConvEdge: the pulse is never taken back.
ConvEdgeSticky(image_read, image_start, image_cnt, image_data) ==
    /\ relu_regs_ready_reg' = (relu_regs_ready_reg \/ (image_read /\ image_start))
    /\ conv_regs' = IF image_read
                    THEN [conv_regs EXCEPT ![image_cnt] = Activation(image_data)]
                    ELSE conv_regs

\* One rising edge.  The counter has 4 bits, so it always fits the array.
ConvEdge(image_read, image_start, image_cnt, image_data) ==
    /\ relu_regs_ready_reg' = (image_read /\ image_start)
    /\ conv_regs' = IF image_read
                    THEN [conv_regs EXCEPT ![image_cnt] = Activation(image_data)]
                    ELSE conv_regs
=============================================================================
