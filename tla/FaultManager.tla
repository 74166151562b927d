----------------------------- MODULE FaultManager -----------------------------
(***************************************************************************)
(* The specification of one fault manager driven by the fault task         *)
(* (fault_manager_evaluate) and the watchdog task                          *)
(* (fault_manager_report_watchdog_fault).                                  *)
(***************************************************************************)
EXTENDS FaultManagerOps

CONSTANTS
  Readings,        \* the readings the sensor task may publish
  FirstReading,    \* the one app_context_init seeds
  MaxGap           \* bound: ticks between two evaluations

ASSUME ReadingsAssumption ==
  /\ Readings \subseteq CellReadings
  /\ FirstReading \in Readings

ASSUME GapAssumption == MaxGap \in Nat \ {0}

-----------------------------------------------------------------------------
(***************************************************************************)
(* One fault manager and its callers.  tick is the clock the fault task    *)
(* reads just before it takes ctx->lock; the calls themselves run under    *)
(* that lock, hence each is one step.  gap counts the ticks since the      *)
(* fault task last evaluated, which its 50 ms period keeps far below       *)
(* TickMod.                                                                *)
(***************************************************************************)
VARIABLES
  fm,       \* ctx->fault_mgr
  reading,  \* ctx->latest_reading
  tick,     \* osal_get_tick_ms()
  gap       \* ticks since the last evaluation

vars == <<fm, reading, tick, gap>>

TypeOK ==
  /\ fm \in FaultManagerT
  /\ reading \in Readings
  /\ tick \in Ticks
  /\ gap \in 0 .. MaxGap

Init ==
  /\ fm = FaultManagerInit
  /\ reading = FirstReading
  /\ tick = 0
  /\ gap = 0

(* The sensor task publishes a reading. *)
Publish ==
  /\ reading' \in Readings
  /\ UNCHANGED <<fm, tick, gap>>

(* The fault task evaluates the latest reading. *)
Evaluate ==
  /\ fm' = FaultManagerEvaluate(fm, reading, tick)
  /\ gap' = 0
  /\ UNCHANGED <<reading, tick>>

(* The watchdog task reports a stale heartbeat, at the time it sampled      *)
(* before it took the lock twice: any earlier tick.                         *)
ReportWatchdogFault ==
  /\ \E now \in Ticks : fm' = FaultManagerReportWatchdogFault(fm, now)
  /\ UNCHANGED <<reading, tick, gap>>

(* The fault task reads the clock again, some time later. *)
Advance ==
  /\ \E d \in 1 .. MaxGap - gap :
       /\ tick' = TickAdd(tick, d)
       /\ gap' = gap + d
  /\ UNCHANGED <<fm, reading>>

Next == Publish \/ Evaluate \/ ReportWatchdogFault \/ Advance

Spec == Init /\ [][Next]_vars
===============================================================================
