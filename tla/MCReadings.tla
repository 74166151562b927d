------------------------------ MODULE MCReadings ------------------------------
(***************************************************************************)
(* Cell readings for model checking: a pack of two cells and one reading   *)
(* for every class that the real limits (bms_config.h) tell apart.         *)
(***************************************************************************)
EXTENDS Integers

MCCells == {0, 1}

(* Both cells at temperature c, one at mv and the other d below it. *)
Pack(mv, d, c) ==
  [cell_mv     |-> [i \in MCCells |-> IF i = 0 THEN mv ELSE mv - d],
   cell_temp_c |-> [i \in MCCells |-> c]]

Nominal      == Pack(3700, 0, 25)
NearEmpty    == Pack(3050, 0, 25)    \* WARNING
Undervoltage == Pack(3000, 0, 25)    \* ASIL C
Imbalance    == Pack(3700, 150, 25)  \* ASIL B
Drained      == Pack(3100, 160, 60)  \* three limits at once, ASIL D

AllReadings == {Nominal, NearEmpty, Undervoltage, Imbalance, Drained}
===============================================================================
