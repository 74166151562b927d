------------------------------- MODULE BmsTasks -------------------------------
(***************************************************************************)
(* The running system: the five periodic tasks of src/tasks, the           *)
(* app_context_t they share under one mutex, and main.                     *)
(*                                                                         *)
(* A task's iteration is: wake up and test g_shutdown (Begin, where fault  *)
(* and watchdog also sample the clock), then its critical section, then    *)
(* what it does with the copies it took, then sleep for its period.  Every *)
(* access to the context is inside a critical section, so one critical     *)
(* section is one step.  Time is explicit; MaxLag bounds how late an       *)
(* iteration may finish after its wake-up, and lets any other task run,    *)
(* and time pass, between any two steps of an iteration.                   *)
(***************************************************************************)
EXTENDS FaultManagerOps, FiniteSetsExt

CONSTANTS
  Readings, FirstReading,  \* those of FaultManager
  \* bms_config.h, task_can.c and main.c
  SensorPeriod, SocPeriod, FaultPeriod, CanPeriod, WatchdogPeriod, StaleMs, SimDuration,
  Created,   \* the tasks whose osal_task_create succeeded
  Mortal,    \* the tasks that may hang
  LossyBus,  \* TRUE: can_hal_send may fail (SocketCAN)
  MaxLag,    \* bound: from an iteration's wake-up to its end
  MaxClock   \* bound: the last instant, reached only when main is stuck

Tasks == {"sensor", "soc", "fault", "can", "watchdog"}

(* The tasks that stamp a heartbeat. *)
Monitored == {"sensor", "soc", "fault"}

ASSUME ContextAssumption == Readings \subseteq CellReadings /\ FirstReading \in Readings

ASSUME TasksAssumption ==
  /\ {SensorPeriod, SocPeriod, FaultPeriod, CanPeriod, WatchdogPeriod} \subseteq Nat \ {0}
  /\ {StaleMs, SimDuration, MaxLag, MaxClock} \subseteq Nat
  /\ Created \subseteq Tasks /\ Mortal \subseteq Tasks
  /\ LossyBus \in BOOLEAN

VARIABLES
  clock,        \* milliseconds since boot
  pc, wake,     \* where each thread is, and when its sleep ends
  shutdown,     \* g_shutdown
  reading, fm, status, hb,  \* the context: latest_reading, fault_mgr, status.state, hb_*_ms
  now,          \* locals `now` of the fault and watchdog tasks
  frame,        \* can: its copies of status.state, active_faults and severity
  last_faults,  \* can
  bus,          \* what the other nodes last received: state, fault report
  judged,       \* history: the latest reading has been evaluated
  tripped       \* history: when SHUTDOWN was entered

ctx == <<reading, fm, status, hb>>
locals == <<now, frame, last_faults, bus>>
history == <<judged, tripped>>
vars == <<clock, pc, wake, shutdown, ctx, locals, history>>

(***************************************************************************)
(* The fault manager inside the context.  Its clock is the fault task's    *)
(* sample, its gap the age of that sample's predecessor.                   *)
(***************************************************************************)
FM == INSTANCE FaultManager WITH
        tick <- now["fault"],
        gap <- now["fault"] - hb["fault"],
        MaxGap <- FaultPeriod + 2 * MaxLag

tick == clock % TickMod

NoTrip == -1

(* BMS_STATUS and FAULT_REPORT before the first fault. *)
NoFrame == [state |-> "NORMAL", report |-> [faults |-> {}, severity |-> 0]]

BTypeOK ==
  /\ clock \in 0 .. MaxClock
  /\ pc \in [Tasks \cup {"main"} ->
               {"none", "start", "sleep", "body", "send", "report", "hung", "join", "done"}]
  /\ wake \in [Tasks \cup {"main"} -> Nat]
  /\ shutdown \in BOOLEAN
  /\ reading \in Readings
  /\ fm \in FaultManagerT
  /\ status \in States
  /\ hb \in [Monitored -> Ticks]
  /\ now \in [{"fault", "watchdog"} -> Ticks]
  /\ frame.state \in States /\ frame.report.faults \subseteq FaultBits
  /\ bus.state \in States /\ bus.report.faults \subseteq FaultBits
  /\ last_faults \subseteq FaultBits
  /\ judged \in BOOLEAN
  /\ tripped \in {NoTrip} \cup (0 .. MaxClock)

-----------------------------------------------------------------------------
(* Mutant of AppContextInit: latest_reading stays zero. *)
AppContextInitNoSeed ==
  /\ reading = [cell_mv |-> [c \in Cells |-> 0], cell_temp_c |-> [c \in Cells |-> 0]]
  /\ fm = FaultManagerInit
  /\ status = "NORMAL"
  /\ hb = [t \in Monitored |-> 0]

(* app_context_init: all zero, except that latest_reading is seeded. *)
AppContextInit ==
  /\ reading = FirstReading
  /\ fm = FaultManagerInit
  /\ status = "NORMAL"
  /\ hb = [t \in Monitored |-> 0]

(* main, up to its delay: the tasks that could be created are ready to run. *)
Init ==
  /\ AppContextInit
  /\ clock = 0
  /\ shutdown = FALSE
  /\ pc = [p \in Tasks \cup {"main"} |->
             IF p = "main" THEN "sleep"
             ELSE IF p \notin Created THEN "none"
             ELSE IF p = "watchdog" THEN "start" ELSE "sleep"]
  /\ wake = [p \in Tasks \cup {"main"} |-> IF p = "main" THEN SimDuration ELSE 0]
  /\ now = [t \in {"fault", "watchdog"} |-> 0]
  /\ frame = NoFrame
  /\ last_faults = {}
  /\ bus = NoFrame
  /\ judged = TRUE  \* the seed is nobody's sample
  /\ tripped = NoTrip

-----------------------------------------------------------------------------
Goto(t, label) == pc' = [pc EXCEPT ![t] = label] /\ UNCHANGED wake

(* A task function returns; it has no wake-up time any more. *)
Return(t) == pc' = [pc EXCEPT ![t] = "done"] /\ wake' = [wake EXCEPT ![t] = 0]

(* osal_task_delay_ms at the end of an iteration. *)
Delay(t, ms) ==
  /\ pc' = [pc EXCEPT ![t] = "sleep"]
  /\ wake' = [wake EXCEPT ![t] = clock + ms]

(* Mutant of Begin: the fault task's loop is for (;;). *)
BeginForever(t) ==
  /\ pc[t] = "sleep" /\ clock >= wake[t]
  /\ IF shutdown /\ t # "fault"
     THEN Return(t) /\ UNCHANGED now
     ELSE /\ Goto(t, "body")
          /\ now' = [x \in DOMAIN now |-> IF x = t THEN tick ELSE now[x]]
  /\ UNCHANGED <<clock, shutdown, ctx, frame, last_faults, bus, history>>

(* The top of every task's loop. *)
Begin(t) ==
  /\ pc[t] = "sleep" /\ clock >= wake[t]
  /\ IF shutdown
     THEN Return(t) /\ UNCHANGED now
     ELSE /\ Goto(t, "body")
          /\ now' = [x \in DOMAIN now |-> IF x = t THEN tick ELSE now[x]]
  /\ UNCHANGED <<clock, shutdown, ctx, frame, last_faults, bus, history>>

TaskSensor ==
  /\ pc["sensor"] = "body"
  /\ reading' \in Readings
  /\ hb' = [hb EXCEPT !["sensor"] = tick]
  /\ judged' = FALSE
  /\ Delay("sensor", SensorPeriod)
  /\ UNCHANGED <<clock, shutdown, fm, status, locals, tripped>>

(* Mutant of TaskSoc: no heartbeat. *)
TaskSocNoHeartbeat ==
  /\ pc["soc"] = "body"
  /\ status' = fm.state
  /\ Delay("soc", SocPeriod)
  /\ UNCHANGED <<clock, shutdown, reading, fm, hb, locals, history>>

(* Mutant of TaskSoc: the state is not copied. *)
TaskSocNoState ==
  /\ pc["soc"] = "body"
  /\ hb' = [hb EXCEPT !["soc"] = tick]
  /\ Delay("soc", SocPeriod)
  /\ UNCHANGED <<clock, shutdown, reading, fm, status, locals, history>>

(* The SoC estimate and the pack totals of the status are left out. *)
TaskSoc ==
  /\ pc["soc"] = "body"
  /\ status' = fm.state
  /\ hb' = [hb EXCEPT !["soc"] = tick]
  /\ Delay("soc", SocPeriod)
  /\ UNCHANGED <<clock, shutdown, reading, fm, locals, history>>

NoteTrip ==
  tripped' = IF fm'.state = "SHUTDOWN" /\ fm.state # "SHUTDOWN" THEN clock ELSE tripped

(* Mutant of TaskFault: sleeps for TASK_PERIOD_SOC_MS. *)
TaskFaultSlow ==
  /\ pc["fault"] = "body"
  /\ fm' = FaultManagerEvaluate(fm, reading, now["fault"])
  /\ hb' = [hb EXCEPT !["fault"] = now["fault"]]
  /\ judged' = TRUE
  /\ NoteTrip
  /\ Delay("fault", SocPeriod)
  /\ UNCHANGED <<clock, shutdown, reading, status, locals>>

(* Mutant of TaskFault: reads the clock a second time for the evaluation. *)
TaskFaultSecondSample ==
  /\ pc["fault"] = "body"
  /\ fm' = FaultManagerEvaluate(fm, reading, tick)
  /\ hb' = [hb EXCEPT !["fault"] = now["fault"]]
  /\ judged' = TRUE
  /\ NoteTrip
  /\ Delay("fault", FaultPeriod)
  /\ UNCHANGED <<clock, shutdown, reading, status, locals>>

TaskFault ==
  /\ pc["fault"] = "body"
  /\ fm' = FaultManagerEvaluate(fm, reading, now["fault"])
  /\ hb' = [hb EXCEPT !["fault"] = now["fault"]]
  /\ judged' = TRUE
  /\ NoteTrip
  /\ Delay("fault", FaultPeriod)
  /\ UNCHANGED <<clock, shutdown, reading, status, locals>>

-----------------------------------------------------------------------------
CanSnapshot ==
  /\ pc["can"] = "body"
  /\ frame' = [state  |-> status,
               report |-> [faults |-> fm.active_faults, severity |-> fm.severity]]
  /\ Goto("can", "send")
  /\ UNCHANGED <<clock, shutdown, ctx, now, last_faults, bus, history>>

(* Mutant of CanSend: the severity is read when the report is sent. *)
CanSendLateSeverity ==
  /\ pc["can"] = "send"
  /\ bus' = [state  |-> frame.state,
             report |-> IF frame.report.faults # last_faults
                        THEN [frame.report EXCEPT !.severity = fm.severity]
                        ELSE bus.report]
  /\ last_faults' = frame.report.faults
  /\ frame' = NoFrame
  /\ Delay("can", CanPeriod)
  /\ UNCHANGED <<clock, shutdown, ctx, now, history>>

(* BMS_STATUS always, FAULT_REPORT when the bits changed.  Whether a frame  *)
(* got out is not looked at: last_faults moves on either way.               *)
CanSend ==
  LET sent == [state  |-> frame.state,
               report |-> IF frame.report.faults # last_faults THEN frame.report ELSE bus.report]
  IN  /\ pc["can"] = "send"
      /\ \/ bus' = sent
         \/ LossyBus /\ bus' \in [state : {bus.state, sent.state}, report : {bus.report, sent.report}]
      /\ last_faults' = frame.report.faults
      /\ frame' = NoFrame
      /\ Delay("can", CanPeriod)
      /\ UNCHANGED <<clock, shutdown, ctx, now, history>>

-----------------------------------------------------------------------------
WatchdogStart ==
  /\ pc["watchdog"] = "start"
  /\ Delay("watchdog", SensorPeriod * 2)
  /\ UNCHANGED <<clock, shutdown, ctx, locals, history>>

(* uint32_t arithmetic: a heartbeat younger than `now` is very old. *)
Stale(h) == TickSub(now["watchdog"], h) > StaleMs

(* The end of an iteration: the locals die. *)
WatchdogDelay ==
  /\ Delay("watchdog", WatchdogPeriod)
  /\ now' = [now EXCEPT !["watchdog"] = 0]

(* Mutant of WatchdogSnapshot: the term for the soc task is missing. *)
WatchdogSnapshotNoSoc ==
  /\ pc["watchdog"] = "body"
  /\ IF \E t \in Monitored \ {"soc"} : Stale(hb[t])
     THEN Goto("watchdog", "report") /\ UNCHANGED now
     ELSE WatchdogDelay
  /\ UNCHANGED <<clock, shutdown, ctx, frame, last_faults, bus, history>>

(* The heartbeats are copied under the lock and judged outside it; the     *)
(* report takes the lock again.                                            *)
WatchdogSnapshot ==
  /\ pc["watchdog"] = "body"
  /\ IF \E t \in Monitored : Stale(hb[t])
     THEN Goto("watchdog", "report") /\ UNCHANGED now
     ELSE WatchdogDelay
  /\ UNCHANGED <<clock, shutdown, ctx, frame, last_faults, bus, history>>

WatchdogReport ==
  /\ pc["watchdog"] = "report"
  /\ fm' = FaultManagerReportWatchdogFault(fm, now["watchdog"])
  /\ NoteTrip
  /\ WatchdogDelay
  /\ UNCHANGED <<clock, shutdown, reading, status, hb, frame, last_faults, bus, judged>>

-----------------------------------------------------------------------------
(* A task stops for good, outside its critical section. *)
Hang(t) ==
  /\ t \in Mortal /\ pc[t] = "body"
  /\ Goto(t, "hung")
  /\ UNCHANGED <<clock, shutdown, ctx, locals, history>>

MainRequestShutdown ==
  /\ pc["main"] = "sleep" /\ clock >= wake["main"]
  /\ shutdown' = TRUE
  /\ Goto("main", "join")
  /\ UNCHANGED <<clock, ctx, locals, history>>

(* Mutant of MainJoin: the fault task is not joined. *)
MainJoinNotFault ==
  /\ pc["main"] = "join"
  /\ \A t \in Created \ {"fault"} : pc[t] = "done"
  /\ Goto("main", "done")
  /\ UNCHANGED <<clock, shutdown, ctx, locals, history>>

(* Join the five tasks, print the final status, destroy the mutex, exit. *)
MainJoin ==
  /\ pc["main"] = "join"
  /\ \A t \in Created : pc[t] = "done"
  /\ Goto("main", "done")
  /\ UNCHANGED <<clock, shutdown, ctx, locals, history>>

(* Time passes while every running thread can still finish in time. *)
Tick ==
  /\ clock < MaxClock /\ pc["main"] # "done"
  /\ \A p \in DOMAIN pc :
       pc[p] \in {"start", "sleep", "body", "send", "report"} => clock < wake[p] + MaxLag
  /\ clock' = clock + 1
  /\ UNCHANGED <<pc, wake, shutdown, ctx, locals, history>>

(* main has returned, or is still waiting at the horizon. *)
Over == (pc["main"] = "done" \/ clock = MaxClock) /\ UNCHANGED vars

Watchdog == WatchdogStart \/ WatchdogSnapshot \/ WatchdogReport

Next ==
  \/ \E t \in Tasks : Begin(t) \/ Hang(t)
  \/ TaskSensor \/ TaskSoc \/ TaskFault \/ CanSnapshot \/ CanSend \/ Watchdog
  \/ MainRequestShutdown \/ MainJoin \/ Tick \/ Over

Spec == Init /\ [][Next]_vars

-----------------------------------------------------------------------------
(***************************************************************************)
(* The tasks drive the fault manager as FaultManager says its callers do:  *)
(* on the seed or a published reading, at times that move on between       *)
(* evaluations, whatever happens between a sample and the critical section *)
(* that uses it.  What is proved of FaultManager holds of the system.      *)
(***************************************************************************)
ImplementsFaultManager == FM!Spec

Gone(t) == pc[t] \in {"hung", "none"}

Accused == {t \in Monitored : Stale(hb[t])}

Tripping == "TASK_WATCHDOG" \in fm'.active_faults \ fm.active_faults

(***************************************************************************)
(* The periods, the stale threshold and the initial grace delay fit        *)
(* together: the watchdog finds a monitored task stale only when that task *)
(* is gone or stamped its heartbeat after the watchdog had sampled `now`.  *)
(***************************************************************************)
StaleMeansGoneOrRaced ==
  [][WatchdogSnapshot => \A t \in Accused : Gone(t) \/ hb[t] > now["watchdog"]]_vars

(***************************************************************************)
(* What task_watchdog.c says of a stale heartbeat: a task is hung,         *)
(* deadlocked or crashed.                                                  *)
(***************************************************************************)
StaleMeansGone ==
  [][Tripping => \E t \in Monitored : Gone(t)]_vars

(***************************************************************************)
(* A monitored task that stops beating is caught in bounded time: while    *)
(* the pack is not shut down no heartbeat is older than the threshold plus *)
(* one watchdog period (and the lag of two watchdog iterations).           *)
(***************************************************************************)
DetectionBound == StaleMs + WatchdogPeriod + 2 * MaxLag

StaleCaught ==
  ~shutdown /\ fm.state # "SHUTDOWN" =>
    \A t \in Monitored : clock - hb[t] <= DetectionBound

(***************************************************************************)
(* What docs/ARCHITECTURE.md:43 says of the watchdog: it checks every      *)
(* task's heartbeat, so whichever of the other four tasks hangs, the pack  *)
(* is shut down in bounded time.                                           *)
(***************************************************************************)
EveryHangCaught ==
  ~shutdown /\ fm.state # "SHUTDOWN" =>
    \A t \in Created \ {"watchdog"} : pc[t] = "hung" => clock - wake[t] <= DetectionBound

(***************************************************************************)
(* An ASIL D condition is acted upon in bounded time: a reading that calls *)
(* for SHUTDOWN is not older than one fault period (and its lag) while the *)
(* pack runs.                                                              *)
(***************************************************************************)
AsilDCaught ==
  /\ ~shutdown /\ fm.state # "SHUTDOWN" /\ ~Gone("fault")
  /\ GetSeverity(EvaluateHardFaults(reading)) = ASIL_D
  => clock - hb["sensor"] <= FaultPeriod + MaxLag

(***************************************************************************)
(* No sample is lost: the sensor task never overwrites a reading that the  *)
(* fault task has not evaluated, although nothing but the periods keeps    *)
(* the two in step.                                                        *)
(***************************************************************************)
EveryReadingJudged ==
  [][TaskSensor /\ ~shutdown /\ ~Gone("fault") => judged]_vars

(***************************************************************************)
(* The other nodes learn of a SHUTDOWN, and why, in bounded time: the soc  *)
(* task copies the state, the can task sends it and reports the faults.    *)
(***************************************************************************)
ShutdownBroadcast ==
  ~shutdown /\ tripped # NoTrip /\ clock - tripped > SocPeriod + CanPeriod + 3 * MaxLag
  => bus = [state  |-> "SHUTDOWN",
            report |-> [faults |-> fm.active_faults, severity |-> fm.severity]]

(***************************************************************************)
(* A receiver can trust a FAULT_REPORT whichever frames were lost: the     *)
(* severity is the worst among the faults it carries, as can_protocol.h    *)
(* defines it, although the watchdog may change both between the can       *)
(* task's critical section and its sends.                                  *)
(***************************************************************************)
ReportConsistent ==
  bus.report.severity = GetSeverity(bus.report.faults)

(***************************************************************************)
(* The mutex is not used after main has destroyed it: once main is done no *)
(* task touches the context.                                               *)
(***************************************************************************)
NoUseAfterDestroy ==
  [][pc["main"] = "done" => UNCHANGED ctx]_vars

(***************************************************************************)
(* The simulation ends: every loop that is not hung sees g_shutdown within *)
(* its own longest delay after main's request, wherever it then was, so    *)
(* main gets through its joins.                                            *)
(***************************************************************************)
LongestDelay ==
  [sensor   |-> SensorPeriod,
   soc      |-> SocPeriod,
   fault    |-> FaultPeriod,
   can      |-> CanPeriod,
   watchdog |-> Max({SensorPeriod * 2, WatchdogPeriod})]

ExitsInTime ==
  \A t \in Created :
    clock > SimDuration + LongestDelay[t] + 3 * MaxLag => pc[t] \in {"done", "hung"}
===============================================================================
