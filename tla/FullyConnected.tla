--------------------------- MODULE FullyConnected ----------------------------
(***************************************************************************)
(* The fully connected layer (fully_connected_layer.vhd): registers for    *)
(* the activations and for one row of weights per class, and a             *)
(* combinational neuron for each row.                                      *)
(***************************************************************************)
EXTENDS FixedPoint

VARIABLES
    relu_data_reg,      \* the activations
    weight_data_reg,    \* the rows of weights
    predictions_ready   \* write_reg: pulse, the last row is in place

fcVars == <<relu_data_reg, weight_data_reg, predictions_ready>>

Vector == [0 .. Mod4 - 1 -> Word]
NullVector == [k \in 0 .. Mod4 - 1 |-> 0]

FcTypeOK ==
    /\ relu_data_reg \in Vector
    /\ weight_data_reg \in [Class -> Vector]
    /\ predictions_ready \in BOOLEAN

FcInit ==
    /\ relu_data_reg = NullVector
    /\ weight_data_reg = [row \in Class |-> NullVector]
    /\ predictions_ready = FALSE

FcReset ==
    /\ relu_data_reg' = NullVector
    /\ weight_data_reg' = [row \in Class |-> NullVector]
    /\ predictions_ready' = FALSE

\* The outputs of the neurons.
Predictions == [row \in Class |-> Neuron(relu_data_reg, weight_data_reg[row])]

Row(row, data) == [weight_data_reg EXCEPT ![row] = data]

\* Mutant of StoreRow: the rows are in reverse order.
StoreRowReversed(cnt, data) ==
    weight_data_reg' \in
        IF cnt \in Class THEN {Row(2 - cnt, data)}
        ELSE {weight_data_reg} \cup {Row(row, data) : row \in Class}

\* A row index above 2 is outside the array: the build may drop the row or
\* put it in place of any other.
StoreRow(cnt, data) ==
    weight_data_reg' \in
        IF cnt \in Class THEN {Row(cnt, data)}
        ELSE {weight_data_reg} \cup {Row(row, data) : row \in Class}

\* One rising edge.  Activations that arrive together with a row of weights
\* displace the row.
FcEdge(relu_read, relu_data, weight_read, start, weight_cnt, weight_data) ==
    /\ predictions_ready' = start
    /\ relu_data_reg' = IF relu_read THEN relu_data ELSE relu_data_reg
    /\ IF weight_read /\ ~relu_read
       THEN StoreRow(weight_cnt, weight_data)
       ELSE UNCHANGED weight_data_reg
=============================================================================
