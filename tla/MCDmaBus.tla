------------------------------- MODULE MCDmaBus ------------------------------
(***************************************************************************)
(* Instances of DmaBus.  Built*: the sizes of the built system, with only  *)
(* the address space made smaller, and one word per address as in the      *)
(* memory of the testbench.  Small*: windows of 3 and 2 words.             *)
(***************************************************************************)
EXTENDS DmaBus

BuiltBurstSize == [image |-> 49, weight |-> 16]
BuiltMod32 == 262144
BuiltMemory == [cell \in 0 .. 262143 |-> cell + 1]
BuiltWord == 0 .. 262144

\* Whole windows, up to as many as the window counter numbers, from an even,
\* an odd and a wrapping address; 784 and 48 words as in main.c.
BuiltTransfers ==
    [image  |-> [addr : {1000, 4097, 262100}, length : {49, 784}],
     weight |-> [addr : {8000, 262133}, length : {16, 48, 256}]]

\* The transfers of dma_tb.vhd: 4 words each.
TestbenchTransfers ==
    [image  |-> [addr : {10}, length : {4}],
     weight |-> [addr : {20}, length : {4}]]

SmallBurstSize == [image |-> 3, weight |-> 2]
SmallMemory == [cell \in 0 .. 31 |-> cell + 1]
SmallWord == 0 .. 32

SmallTransfers ==
    [image  |-> [addr : {4, 17, 59}, length : {3, 6, 12}],
     weight |-> [addr : {6, 61}, length : {2, 4, 6, 8}]]

\* Lengths that are not whole windows, 0, and more than the word counter
\* counts to (Mod17 = 8 in that run).
OddTransfers ==
    [image  |-> [addr : {4}, length : {0, 1, 4, 9}],
     weight |-> [addr : {6}, length : {1, 3, 8}]]
=============================================================================
