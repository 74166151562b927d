---------------------------- MODULE MCCanProtocol ----------------------------
(* CanProtocol for the five cells of the repository, with the values around *)
(* the byte and sign boundaries.                                            *)
EXTENDS CanProtocol

MCStatuses ==
  [kind : {"status"}, pack_voltage_mv : {0, 255, 256, 18500, 65535},
   pack_current_ca : {-32768, -200, -1, 0, 32767}, soc_percent_x2 : {0, 255}, state : {0, 3}]

MCVoltages ==
  {[kind |-> "voltages", cell_mv |-> [i \in CellIndex |-> IF i \in hot THEN 65535 ELSE 3700]] :
     hot \in SUBSET CellIndex}

MCFaults == [kind : {"fault"}, fault_bitmask : {0, 1, 31, 256, 65535}, severity : {0, 4}]

MCCommands == [kind : {"command"}, requested_current_x10 : {0, 1, 255, 256, 65535}]

MCGarbage == {0, 255}
===============================================================================
