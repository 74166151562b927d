------------------------------ MODULE MCBmsTasks ------------------------------
(* BmsTasks with the readings of MCReadings and the task sets of the runs. *)
EXTENDS BmsTasks, MCReadings

HotReadings == {Nominal, Drained}

LowReadings == {Nominal, Undervoltage}

OneReading == {Nominal}

AllTasks == Tasks

WatchedTasks == Tasks \ {"can"}

ReportTasks == {"sensor", "fault", "can", "watchdog"}

BroadcastTasks == Tasks \ {"watchdog"}

NoTask == {}

OnlySoc == {"soc"}

OnlyCan == {"can"}
===============================================================================
