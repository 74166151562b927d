---------------------------- MODULE MCFaultHistory ----------------------------
(* FaultHistory with the readings of MCReadings. *)
EXTENDS FaultHistory, MCReadings
===============================================================================
