---------------------------- MODULE FaultManagerOps ----------------------------
(***************************************************************************)
(* The fault state machine of src/bms/fault_manager.c: fault_manager_t as  *)
(* a record and its operations as operators on that record, for every      *)
(* module that keeps one.                                                  *)
(*                                                                         *)
(* All times are osal_get_tick_ms() values: uint32_t, so arithmetic is     *)
(* modulo TickMod (2^32 in the code).                                      *)
(***************************************************************************)
EXTENDS HardFaults

CONSTANTS
  TickMod,         \* 2^32: the range of uint32_t
  DebounceMs,      \* FAULT_DEBOUNCE_MS
  LatchWindowMs,   \* FAULT_LATCH_WINDOW_MS
  LatchCount       \* FAULT_LATCH_COUNT

ASSUME TickAssumption ==
  /\ TickMod \in Nat \ {0}
  /\ DebounceMs \in Nat \ {0} /\ DebounceMs < TickMod
  /\ LatchWindowMs \in Nat /\ LatchWindowMs < TickMod

ASSUME LatchAssumption == LatchCount \in Nat \ {0}

Ticks == 0 .. TickMod - 1

States == {"NORMAL", "WARNING", "FAULT", "SHUTDOWN"}
Quiet == {"NORMAL", "WARNING"}

(* uint32_t addition and subtraction. *)
TickAdd(t, d) == (t + d) % TickMod
TickSub(t, u) == (t - u) % TickMod

FaultManagerT ==
  [state                   : States,
   active_faults           : SUBSET FaultBits,
   severity                : Asil,
   last_ok_tick_ms         : Ticks,
   watchdog_fault_until_ms : Ticks,
   fault_entry_ticks_ms    : [1 .. LatchCount -> Ticks],
   fault_entry_count       : 0 .. LatchCount]

-----------------------------------------------------------------------------
(***************************************************************************)
(* Operations.                                                             *)
(***************************************************************************)
FaultManagerInit ==
  [state                   |-> "NORMAL",
   active_faults           |-> {},
   severity                |-> ASIL_QM,
   last_ok_tick_ms         |-> 0,
   watchdog_fault_until_ms |-> 0,
   fault_entry_ticks_ms    |-> [i \in 1 .. LatchCount |-> 0],
   fault_entry_count       |-> 0]

(* Mutant: the memmove is forgotten, the oldest entry never leaves. *)
RecordFaultEntryNoShift(f, now) ==
  IF f.fault_entry_count < LatchCount
  THEN [f EXCEPT !.fault_entry_ticks_ms[f.fault_entry_count + 1] = now,
                 !.fault_entry_count = @ + 1]
  ELSE [f EXCEPT !.fault_entry_ticks_ms[LatchCount] = now]

(* Append while there is room; once full, shift the oldest entry out. *)
RecordFaultEntry(f, now) ==
  IF f.fault_entry_count < LatchCount
  THEN [f EXCEPT !.fault_entry_ticks_ms[f.fault_entry_count + 1] = now,
                 !.fault_entry_count = @ + 1]
  ELSE [f EXCEPT !.fault_entry_ticks_ms =
          [i \in 1 .. LatchCount |-> IF i < LatchCount THEN @[i + 1] ELSE now]]

LatchShouldTrip(f, now) ==
  /\ f.fault_entry_count = LatchCount
  /\ TickSub(now, f.fault_entry_ticks_ms[1]) <= LatchWindowMs

WithActiveFaults(f, faults) ==
  [f EXCEPT !.active_faults = faults, !.severity = GetSeverity(faults)]

(* Mutant: every faulty evaluation counts as an entry. *)
EnterFaultAlways(f, now) == [RecordFaultEntry(f, now) EXCEPT !.state = "FAULT"]

EnterFault(f, now) ==
  IF f.state = "FAULT" THEN f
  ELSE [RecordFaultEntry(f, now) EXCEPT !.state = "FAULT"]

(* Mutant: > instead of >=, no fault is ever severe enough. *)
EscalateAboveD(f, now) ==
  IF f.severity > ASIL_D \/ LatchShouldTrip(f, now)
  THEN [f EXCEPT !.state = "SHUTDOWN"]
  ELSE f

(* One ASIL D fault, or the LatchCount-th entry inside the window. *)
Escalate(f, now) ==
  IF f.severity >= ASIL_D \/ LatchShouldTrip(f, now)
  THEN [f EXCEPT !.state = "SHUTDOWN"]
  ELSE f

Cleared(r) == IF Warning(r) THEN "WARNING" ELSE "NORMAL"

(* Mutant: every fault-free evaluation restarts the debounce. *)
DebounceRestarts(f, r, now) ==
  IF f.last_ok_tick_ms # 0 /\ TickSub(now, f.last_ok_tick_ms) >= DebounceMs
  THEN [f EXCEPT !.state = Cleared(r), !.last_ok_tick_ms = 0]
  ELSE [f EXCEPT !.last_ok_tick_ms = now]

(* No fault while in FAULT: 0 in last_ok_tick_ms means "debounce not started". *)
Debounce(f, r, now) ==
  CASE f.last_ok_tick_ms = 0 ->
         [f EXCEPT !.last_ok_tick_ms = now]
    [] f.last_ok_tick_ms # 0 /\ TickSub(now, f.last_ok_tick_ms) >= DebounceMs ->
         [f EXCEPT !.state = Cleared(r), !.last_ok_tick_ms = 0]
    [] OTHER -> f

WatchdogActive(f, now) ==
  f.watchdog_fault_until_ms # 0 /\ now < f.watchdog_fault_until_ms

TotalFaults(f, r, now) ==
  EvaluateHardFaults(r) \cup (IF WatchdogActive(f, now) THEN {"TASK_WATCHDOG"} ELSE {})

(* Mutant: a fault does not reset last_ok_tick_ms. *)
EvaluateKeepsOkTick(f, r, now) ==
  LET faults == TotalFaults(f, r, now)
      g == WithActiveFaults(f, faults)
  IN  CASE f.state = "SHUTDOWN" -> f
        [] f.state # "SHUTDOWN" /\ faults # {} -> Escalate(EnterFault(g, now), now)
        [] f.state = "FAULT" /\ faults = {} -> Debounce(g, r, now)
        [] f.state \in {"NORMAL", "WARNING"} /\ faults = {} ->
             [g EXCEPT !.state = Cleared(r)]

FaultManagerEvaluate(f, r, now) ==
  LET faults == TotalFaults(f, r, now)
      g == WithActiveFaults(f, faults)
  IN  CASE f.state = "SHUTDOWN" -> f
        [] f.state # "SHUTDOWN" /\ faults # {} ->
             [Escalate(EnterFault(g, now), now) EXCEPT !.last_ok_tick_ms = 0]
        [] f.state = "FAULT" /\ faults = {} -> Debounce(g, r, now)
        [] f.state \in {"NORMAL", "WARNING"} /\ faults = {} ->
             [g EXCEPT !.state = Cleared(r)]

(* Mutant: the report does not look at SHUTDOWN first. *)
ReportWatchdogFaultUnlatched(f, now) ==
  LET g == [f EXCEPT !.watchdog_fault_until_ms = TickAdd(now, DebounceMs)]
  IN  Escalate(EnterFault(WithActiveFaults(g, g.active_faults \cup {"TASK_WATCHDOG"}), now), now)

(* Mutant: the report leaves escalation to the next evaluation. *)
ReportWatchdogFaultNoEscalation(f, now) ==
  IF f.state = "SHUTDOWN" THEN f
  ELSE LET g == [f EXCEPT !.watchdog_fault_until_ms = TickAdd(now, DebounceMs)]
       IN  EnterFault(WithActiveFaults(g, g.active_faults \cup {"TASK_WATCHDOG"}), now)

FaultManagerReportWatchdogFault(f, now) ==
  IF f.state = "SHUTDOWN" THEN f
  ELSE LET g == [f EXCEPT !.watchdog_fault_until_ms = TickAdd(now, DebounceMs)]
       IN  Escalate(EnterFault(WithActiveFaults(g, g.active_faults \cup {"TASK_WATCHDOG"}), now), now)
===============================================================================
