-------------------------------- MODULE MCHal --------------------------------
(***************************************************************************)
(* Instances of Hal.                                                       *)
(***************************************************************************)
EXTENDS Hal, TLC

MCServices == {{"files"}, {"alarms"}, {"time"}}
MCFiles == {{"files"}}

\* Half a second and more, so that the microseconds carry and borrow.
MCSetting == {[tv_sec |-> 0, tv_usec |-> 0], [tv_sec |-> 1, tv_usec |-> 4]}
=============================================================================
