------------------------------ MODULE MCConsole ------------------------------
(***************************************************************************)
(* Instances of Console.                                                   *)
(***************************************************************************)
EXTENDS Console, TLC

MCTraffic == {{"write", "close"}, {"read", "send"}}
=============================================================================
