----------------------------- MODULE TransferSpec ----------------------------
(***************************************************************************)
(* What the DMA promises its consumers, without bus, bursts or beats: a    *)
(* transfer that has been started hands over its windows one by one, each  *)
(* exactly once, in order, complete, and marks the last one.  The          *)
(* convolution block and the fully connected layer rely on no more.        *)
(***************************************************************************)
EXTENDS DataType

CONSTANTS
    WindowJob,           \* per channel, the transfers: [addr, windows]
    WindowAt(_, _, _)    \* the words of window k of a transfer from address a

VARIABLES
    job,         \* {} or the transfer in progress
    delivered,   \* how many of its windows have been handed over
    out          \* {} or the window handed over in this cycle

transferVars == <<job, delivered, out>>

Init ==
    /\ job = {}
    /\ delivered = 0
    /\ out = {}

Start(c, j) ==
    /\ job = {}
    /\ job' = {[chan |-> c, addr |-> j.addr, windows |-> j.windows]}
    /\ delivered' = 0
    /\ out' = {}

Deliver(j) ==
    LET last == delivered + 1 = j.windows
    IN  /\ j \in job
        /\ out = {}
        /\ out' = {[chan  |-> j.chan,
                    index |-> delivered % Mod4,
                    words |-> WindowAt(j.chan, j.addr, delivered),
                    last  |-> last]}
        /\ job' = IF last THEN {} ELSE job
        /\ delivered' = IF last THEN 0 ELSE delivered + 1

\* A window is on the consumers' ports for exactly one cycle.
Withdraw ==
    /\ out # {}
    /\ out' = {}
    /\ UNCHANGED <<job, delivered>>

Abandon ==
    /\ job' = {}
    /\ delivered' = 0
    /\ out' = {}

Next ==
    \/ \E c \in Channel : \E j \in WindowJob[c] : Start(c, j)
    \/ \E j \in job : Deliver(j)
    \/ Withdraw
    \/ Abandon

\* A transfer that is not abandoned hands over its next window eventually,
\* and no window stays on the ports.
Liveness == WF_transferVars(\E j \in job : Deliver(j)) /\ WF_transferVars(Withdraw)

SafetySpec == Init /\ [][Next]_transferVars

Spec == SafetySpec /\ Liveness
=============================================================================
