------------------------------ MODULE MCDischarge -----------------------------
(* Discharge with the five cells of the pack. *)
EXTENDS Discharge

MCCells == 0 .. 4

MCArgs == Scenarios \cup {"typo"}

MCReadingSet == {SeedReading}
===============================================================================
