----------------------------- MODULE BmsTasksProofs ----------------------------
(***************************************************************************)
(* Proofs about BmsTasks, for every pack, every set of periods, lags,      *)
(* created and mortal tasks.  Where a result needs the periods to fit      *)
(* together, or the run to end before the tick wraps, the theorem says so  *)
(* in its hypotheses.                                                      *)
(***************************************************************************)
EXTENDS BmsTasks, FaultManagerLemmas, TLAPS

Threads == Tasks \cup {"main"}

Labels == {"none", "start", "sleep", "body", "send", "report", "hung", "join", "done"}

(* A thread that will take a step within MaxLag of its wake-up time. *)
Running == {"start", "sleep", "body", "send", "report"}
InIteration == {"body", "send", "report"}

FrameT == [state : States, report : [faults : SUBSET FaultBits, severity : Asil]]

-----------------------------------------------------------------------------
LEMMA NothingSent ==
  /\ NoFrame \in FrameT /\ NoFrame.state = "NORMAL"
  /\ NoFrame.report.severity = GetSeverity(NoFrame.report.faults)
<1>1. NoFrame \in FrameT
  BY DEF NoFrame, FrameT, States, Asil, ASIL_QM, ASIL_D
<1>2. NoFrame.report.severity = 0 /\ NoFrame.report.faults = {} /\ NoFrame.state = "NORMAL"
  BY DEF NoFrame
<1> QED
  BY <1>1, <1>2, GetSeverityNone DEF ASIL_QM

LEMMA TickTyped ==
  ASSUME clock \in Nat
  PROVE  tick \in Ticks
BY TickAssumption DEF tick, Ticks

-----------------------------------------------------------------------------
(***************************************************************************)
(* Types and phases: which thread can be where, and what the messages in   *)
(* flight contain.                                                         *)
(***************************************************************************)
Typed ==
  /\ clock \in 0 .. MaxClock
  /\ pc \in [Threads -> Labels]
  /\ wake \in [Threads -> Nat]
  /\ shutdown \in BOOLEAN
  /\ reading \in Readings
  /\ fm \in FaultManagerT
  /\ status \in States
  /\ hb \in [Monitored -> Ticks]
  /\ now \in [{"fault", "watchdog"} -> Ticks]
  /\ frame \in FrameT
  /\ bus \in FrameT
  /\ last_faults \in SUBSET FaultBits
  /\ judged \in BOOLEAN
  /\ tripped \in {NoTrip} \cup (0 .. MaxClock)

SeveritiesMatch ==
  /\ Consistent(fm)
  /\ frame.report.severity = GetSeverity(frame.report.faults)
  /\ bus.report.severity = GetSeverity(bus.report.faults)

Phases ==
  /\ \A t \in Tasks : pc[t] = "none" <=> t \notin Created
  /\ \A t \in Tasks : pc[t] # "join"
  /\ \A t \in Tasks : pc[t] = "done" => shutdown
  /\ \A t \in Tasks : pc[t] = "hung" => t \in Mortal
  /\ \A t \in Tasks : pc[t] \in {"start", "report"} => t = "watchdog"
  /\ \A t \in Tasks : pc[t] = "send" => t = "can"
  /\ pc["main"] \in {"sleep", "join", "done"}
  /\ shutdown <=> pc["main"] # "sleep"
  /\ pc["main"] = "done" => \A t \in Created : pc[t] = "done"

Base == Typed /\ SeveritiesMatch /\ Phases

LEMMA InitBase == Init => Base
<1> SUFFICES ASSUME Init PROVE Base
  OBVIOUS
<1> USE DEF Init, AppContextInit
<1>1. 0 \in Ticks
  BY TickAssumption DEF Ticks
<1>2. Typed
  <2>1. clock \in 0 .. MaxClock /\ tripped \in {NoTrip} \cup (0 .. MaxClock)
    BY TasksAssumption
  <2>6. shutdown \in BOOLEAN /\ judged \in BOOLEAN
    BY Zenon
  <2>2. pc \in [Threads -> Labels]
    BY DEF Threads, Labels
  <2>3. wake \in [Threads -> Nat]
    BY TasksAssumption DEF Threads
  <2>4. hb \in [Monitored -> Ticks] /\ now \in [{"fault", "watchdog"} -> Ticks]
    BY <1>1
  <2>5. /\ fm \in FaultManagerT /\ status \in States /\ frame \in FrameT /\ bus \in FrameT
        /\ last_faults \in SUBSET FaultBits /\ reading \in Readings
    BY InitialManager, NothingSent, ContextAssumption DEF States
  <2> QED
    BY <2>1, <2>2, <2>3, <2>4, <2>5, <2>6 DEF Typed
<1>3. SeveritiesMatch
  BY InitialManager, NothingSent DEF SeveritiesMatch
<1>4. Phases
  BY TasksAssumption DEF Phases, Tasks
<1> QED
  BY <1>2, <1>3, <1>4 DEF Base

LEMMA NextBase ==
  ASSUME Base, [Next]_vars
  PROVE  Base'
<1> USE DEF Base, Threads, Labels
<1>1. /\ Typed /\ SeveritiesMatch /\ Phases /\ tick \in Ticks /\ clock \in Nat /\ 0 \in Ticks
      /\ {SensorPeriod, SocPeriod, FaultPeriod, CanPeriod, WatchdogPeriod} \subseteq Nat
  BY TickTyped, TasksAssumption, TickAssumption DEF Typed, Ticks
<1>2. ASSUME NEW t \in Tasks, Begin(t) PROVE Base'
  <2>1. CASE shutdown
    BY <1>1, <1>2, <2>1 DEF Begin, Return, Typed, SeveritiesMatch, Phases, ctx, history, Tasks
  <2>2. CASE ~shutdown
    BY <1>1, <1>2, <2>2 DEF Begin, Goto, Typed, SeveritiesMatch, Phases, ctx, history, Tasks
  <2> QED
    BY <2>1, <2>2
<1>3. ASSUME NEW t \in Tasks, Hang(t) PROVE Base'
  BY <1>1, <1>3 DEF Hang, Goto, Typed, SeveritiesMatch, Phases, ctx, locals, history, Tasks
<1>4. CASE TaskSensor
  <2>1. Typed'
    <3>1. judged' \in BOOLEAN
      BY <1>4, Zenon DEF TaskSensor
    <3>2. hb' \in [Monitored -> Ticks]
      BY <1>1, <1>4 DEF TaskSensor, Typed, Monitored
    <3>3. pc' \in [Threads -> Labels] /\ wake' \in [Threads -> Nat]
      BY <1>1, <1>4 DEF TaskSensor, Delay, Typed, Tasks
    <3> QED
      BY <1>1, <1>4, <3>1, <3>2, <3>3 DEF TaskSensor, Typed, locals
  <2>2. SeveritiesMatch' /\ Phases'
    BY <1>1, <1>4 DEF TaskSensor, Delay, Typed, SeveritiesMatch, Phases, locals, Tasks
  <2> QED
    BY <2>1, <2>2
<1>5. CASE TaskSoc
  BY <1>1, <1>5 DEF TaskSoc, Delay, Typed, SeveritiesMatch, Phases, locals, history, Tasks, Monitored, FaultManagerT
<1>6. CASE TaskFault
  <2>1. fm' \in FaultManagerT /\ Consistent(fm')
    BY <1>1, <1>6, EvaluateDoes DEF TaskFault, Typed, SeveritiesMatch
  <2>2. tripped' \in {NoTrip} \cup (0 .. MaxClock)
    BY <1>1, <1>6 DEF TaskFault, NoteTrip, Typed
  <2> QED
    BY <1>1, <1>6, <2>1, <2>2 DEF TaskFault, Delay, Typed, SeveritiesMatch, Phases, locals, Tasks, Monitored
<1>7. CASE CanSnapshot
  BY <1>1, <1>7 DEF CanSnapshot, Goto, Typed, SeveritiesMatch, Phases, ctx, history, Tasks, FrameT, FaultManagerT, Consistent
<1>8. CASE CanSend
  BY <1>1, <1>8, NothingSent DEF CanSend, Delay, Typed, SeveritiesMatch, Phases, ctx, history, Tasks, FrameT
<1>9. CASE WatchdogStart
  BY <1>1, <1>9 DEF WatchdogStart, Delay, Typed, SeveritiesMatch, Phases, ctx, locals, history, Tasks
<1>10. CASE WatchdogSnapshot
  BY <1>1, <1>10 DEF WatchdogSnapshot, WatchdogDelay, Goto, Delay, Typed, SeveritiesMatch, Phases, ctx, history, Tasks
<1>11. CASE WatchdogReport
  <2>1. fm' \in FaultManagerT /\ Consistent(fm')
    BY <1>1, <1>11, ReportDoes DEF WatchdogReport, Typed, SeveritiesMatch
  <2>2. tripped' \in {NoTrip} \cup (0 .. MaxClock)
    BY <1>1, <1>11 DEF WatchdogReport, NoteTrip, Typed
  <2> QED
    BY <1>1, <1>11, <2>1, <2>2 DEF WatchdogReport, WatchdogDelay, Delay, Typed, SeveritiesMatch, Phases, Tasks
<1>12. CASE MainRequestShutdown
  BY <1>1, <1>12 DEF MainRequestShutdown, Goto, Typed, SeveritiesMatch, Phases, ctx, locals, history, Tasks
<1>13. CASE MainJoin
  BY <1>1, <1>13 DEF MainJoin, Goto, Typed, SeveritiesMatch, Phases, ctx, locals, history, Tasks
<1>14. CASE Tick
  BY <1>1, <1>14, TasksAssumption DEF Tick, Typed, SeveritiesMatch, Phases, ctx, locals, history
<1>15. CASE UNCHANGED vars
  BY <1>1, <1>15 DEF Typed, SeveritiesMatch, Phases, vars, ctx, locals, history
<1> QED
  BY <1>2, <1>3, <1>4, <1>5, <1>6, <1>7, <1>8, <1>9, <1>10, <1>11, <1>12, <1>13, <1>14, <1>15
  DEF Next, Watchdog, Over

LEMMA SpecBase == Spec => []Base
BY InitBase, NextBase, PTL DEF Spec

(***************************************************************************)
(* The shared context, the locals of the tasks and the frames on the bus   *)
(* stay in their types.                                                    *)
(***************************************************************************)
THEOREM ContextTyped == Spec => []BTypeOK
<1>1. Base => BTypeOK
  BY DEF Base, Typed, BTypeOK, Threads, Labels, FrameT
<1> QED
  BY <1>1, SpecBase, PTL

(***************************************************************************)
(* Whatever frames the bus loses and whatever the watchdog does meanwhile, *)
(* the severity of a FAULT_REPORT is the worst among its faults.           *)
(***************************************************************************)
THEOREM ReportsConsistent == Spec => []ReportConsistent
<1>1. Base => ReportConsistent
  BY DEF Base, SeveritiesMatch, ReportConsistent
<1> QED
  BY <1>1, SpecBase, PTL

(***************************************************************************)
(* No task touches the context once main has joined the tasks it created   *)
(* and destroyed the mutex, for any set of tasks that were created.        *)
(***************************************************************************)
THEOREM MutexOutlivesTasks == Spec => NoUseAfterDestroy
<1>1. Base /\ [Next]_vars => [pc["main"] = "done" => UNCHANGED ctx]_vars
  <2> SUFFICES ASSUME Base, Next, pc["main"] = "done"
               PROVE  UNCHANGED ctx
    OBVIOUS
  <2>1. \A t \in Tasks : pc[t] \in {"done", "none"}
    BY DEF Base, Phases
  <2>2. pc["sensor"] # "body" /\ pc["soc"] # "body" /\ pc["fault"] # "body" /\ pc["watchdog"] # "report"
    BY <2>1 DEF Tasks
  <2> QED
    BY <2>2 DEF Next, Begin, Hang, TaskSensor, TaskSoc, TaskFault, CanSnapshot, CanSend, Watchdog,
        WatchdogStart, WatchdogSnapshot, WatchdogReport, MainRequestShutdown, MainJoin, Tick, Over,
        vars, ctx
<1> QED
  BY <1>1, SpecBase, PTL DEF Spec, NoUseAfterDestroy

-----------------------------------------------------------------------------
(***************************************************************************)
(* Time.  A running thread is never later than its wake-up plus the lag,   *)
(* an iteration has begun at or after its wake-up, and nobody sleeps       *)
(* longer than its own longest delay.                                      *)
(***************************************************************************)
LEMMA LongestFacts ==
  /\ \A t \in Tasks : LongestDelay[t] \in Nat
  /\ LongestDelay["sensor"] = SensorPeriod
  /\ LongestDelay["soc"] = SocPeriod
  /\ LongestDelay["fault"] = FaultPeriod
  /\ LongestDelay["can"] = CanPeriod
  /\ SensorPeriod * 2 <= LongestDelay["watchdog"]
  /\ WatchdogPeriod <= LongestDelay["watchdog"]
<1>1. SensorPeriod \in Nat /\ SocPeriod \in Nat /\ FaultPeriod \in Nat /\ CanPeriod \in Nat /\ WatchdogPeriod \in Nat
  BY TasksAssumption
<1> DEFINE S == {SensorPeriod * 2, WatchdogPeriod}
<1>2. \E x \in S : \A y \in S : x >= y
  BY <1>1
<1>3. Max(S) \in S /\ \A y \in S : Max(S) >= y
  BY <1>2 DEF Max
<1>4. Max(S) \in Nat /\ SensorPeriod * 2 <= Max(S) /\ WatchdogPeriod <= Max(S)
  BY <1>1, <1>3
<1> HIDE DEF S
<1>5. /\ LongestDelay["sensor"] = SensorPeriod
      /\ LongestDelay["soc"] = SocPeriod
      /\ LongestDelay["fault"] = FaultPeriod
      /\ LongestDelay["can"] = CanPeriod
      /\ LongestDelay["watchdog"] = Max(S)
  BY DEF LongestDelay, S
<1> QED
  BY <1>1, <1>4, <1>5 DEF Tasks

Timed ==
  /\ \A p \in Threads : pc[p] \in Running => clock <= wake[p] + MaxLag
  /\ \A t \in Tasks : pc[t] \in InIteration => wake[t] <= clock
  /\ \A t \in Tasks : pc[t] \in Running => wake[t] <= clock + LongestDelay[t]
  /\ pc["watchdog"] = "start" => wake["watchdog"] = 0
  /\ pc["main"] = "sleep" => wake["main"] = SimDuration

(* The last iteration begins before main's request, and each sleep ends. *)
Ending ==
  /\ \A t \in Tasks : pc[t] \in InIteration => wake[t] <= SimDuration + MaxLag
  /\ \A t \in Tasks : pc[t] = "sleep" => wake[t] <= SimDuration + 2 * MaxLag + LongestDelay[t]

(* What every action does to the program counters and wake-up times. *)
Wakes(t, ms) ==
  /\ pc[t] \in {"start", "body", "send", "report"}
  /\ pc' = [pc EXCEPT ![t] = "sleep"]
  /\ wake' = [wake EXCEPT ![t] = clock + ms]
  /\ clock' = clock /\ shutdown' = shutdown

Goes(t, label) ==
  /\ pc[t] = "body" /\ label \in {"send", "report", "hung"}
  /\ pc' = [pc EXCEPT ![t] = label]
  /\ wake' = wake /\ clock' = clock /\ shutdown' = shutdown

LEMMA Steps ==
  ASSUME [Next]_vars
  PROVE  \/ \E t \in Tasks : Begin(t)
         \/ \E t \in Tasks, ms \in Nat : Wakes(t, ms) /\ ms <= LongestDelay[t]
         \/ \E t \in Tasks, label \in Labels : Goes(t, label)
         \/ MainRequestShutdown
         \/ MainJoin
         \/ Tick
         \/ UNCHANGED <<clock, pc, wake, shutdown>>
<1> USE DEF Wakes, Goes
<1>1. /\ {SensorPeriod, SocPeriod, FaultPeriod, CanPeriod, WatchdogPeriod} \subseteq Nat
      /\ SensorPeriod * 2 \in Nat
      /\ {"sensor", "soc", "fault", "can", "watchdog"} \subseteq Tasks
      /\ {"send", "report", "hung"} \subseteq Labels
  BY TasksAssumption DEF Tasks, Labels
<1>2. CASE TaskSensor
  <2>1. Wakes("sensor", SensorPeriod) /\ SensorPeriod <= LongestDelay["sensor"]
    BY <1>1, <1>2, LongestFacts DEF TaskSensor, Delay
  <2> QED
    BY <1>1, <2>1
<1>3. CASE TaskSoc
  <2>1. Wakes("soc", SocPeriod) /\ SocPeriod <= LongestDelay["soc"]
    BY <1>1, <1>3, LongestFacts DEF TaskSoc, Delay
  <2> QED
    BY <1>1, <2>1
<1>4. CASE TaskFault
  <2>1. Wakes("fault", FaultPeriod) /\ FaultPeriod <= LongestDelay["fault"]
    BY <1>1, <1>4, LongestFacts DEF TaskFault, Delay
  <2> QED
    BY <1>1, <2>1
<1>5. CASE CanSend
  <2>1. Wakes("can", CanPeriod) /\ CanPeriod <= LongestDelay["can"]
    BY <1>1, <1>5, LongestFacts DEF CanSend, Delay
  <2> QED
    BY <1>1, <2>1
<1>6. CASE WatchdogStart
  <2>1. Wakes("watchdog", SensorPeriod * 2) /\ SensorPeriod * 2 <= LongestDelay["watchdog"]
    BY <1>1, <1>6, LongestFacts DEF WatchdogStart, Delay
  <2> QED
    BY <1>1, <2>1
<1>7. CASE WatchdogReport \/ WatchdogSnapshot
  <2>1. CASE Goto("watchdog", "report") /\ pc["watchdog"] = "body" /\ UNCHANGED <<clock, shutdown>>
    <3>1. Goes("watchdog", "report")
      BY <2>1 DEF Goto
    <3> QED
      BY <1>1, <3>1
  <2>2. CASE WatchdogDelay /\ pc["watchdog"] \in {"body", "report"} /\ UNCHANGED <<clock, shutdown>>
    <3>1. Wakes("watchdog", WatchdogPeriod) /\ WatchdogPeriod <= LongestDelay["watchdog"]
      BY <1>1, <2>2, LongestFacts DEF WatchdogDelay, Delay
    <3> QED
      BY <1>1, <3>1
  <2> QED
    BY <1>7, <2>1, <2>2 DEF WatchdogReport, WatchdogSnapshot
<1>8. CASE CanSnapshot
  <2>1. Goes("can", "send")
    BY <1>8 DEF CanSnapshot, Goto
  <2> QED
    BY <1>1, <2>1
<1>9. ASSUME NEW t \in Tasks, Hang(t)
      PROVE  Goes(t, "hung")
  BY <1>9 DEF Hang, Goto
<1>10. CASE UNCHANGED vars
  BY <1>10 DEF vars
<1> HIDE DEF Wakes, Goes
<1> QED
  BY <1>1, <1>2, <1>3, <1>4, <1>5, <1>6, <1>7, <1>8, <1>9, <1>10 DEF Next, Watchdog, Over

LEMMA InitTimed == Init => Timed /\ Ending
<1> SUFFICES ASSUME Init PROVE Timed /\ Ending
  OBVIOUS
<1>1. /\ \A t \in Tasks : wake[t] = 0 /\ LongestDelay[t] \in Nat
      /\ wake["main"] = SimDuration
      /\ clock = 0 /\ MaxLag \in Nat /\ SimDuration \in Nat
  BY LongestFacts, TasksAssumption DEF Init, Tasks
<1> QED
  BY <1>1 DEF Timed, Ending, Threads, Tasks

LEMMA NextTimed ==
  ASSUME Base, Timed, [Next]_vars
  PROVE  Timed'
<1>1. /\ \A t \in Tasks : LongestDelay[t] \in Nat
      /\ pc \in [Threads -> Labels] /\ wake \in [Threads -> Nat]
      /\ clock \in Nat /\ MaxLag \in Nat /\ Tasks \subseteq Threads
      /\ "main" \in Threads /\ "main" \notin Tasks
      /\ \A t \in Tasks : pc[t] \in {"start", "report"} => t = "watchdog"
  BY LongestFacts, TasksAssumption DEF Base, Typed, Phases, Threads, Tasks
<1> USE <1>1 DEF Running, InIteration
<1>2. ASSUME NEW t \in Tasks, Begin(t) PROVE Timed'
  <2>1. pc[t] = "sleep" /\ wake[t] <= clock /\ clock' = clock
    BY <1>2 DEF Begin
  <2>2. CASE pc' = [pc EXCEPT ![t] = "done"] /\ wake' = [wake EXCEPT ![t] = 0]
    <3>1. pc'[t] = "done" /\ \A p \in Threads \ {t} : pc'[p] = pc[p] /\ wake'[p] = wake[p]
      BY <2>2
    <3> QED
      BY <2>1, <3>1 DEF Timed, Tasks
  <2>3. CASE pc' = [pc EXCEPT ![t] = "body"] /\ wake' = wake
    <3>1. pc'[t] = "body" /\ \A p \in Threads \ {t} : pc'[p] = pc[p]
      BY <2>3
    <3> QED
      BY <2>1, <2>3, <3>1 DEF Timed, Tasks
  <2> QED
    BY <1>2, <2>2, <2>3 DEF Begin, Return, Goto
<1>3. ASSUME NEW t \in Tasks, NEW ms \in Nat, Wakes(t, ms), ms <= LongestDelay[t] PROVE Timed'
  BY <1>3 DEF Wakes, Timed
<1>4. ASSUME NEW t \in Tasks, NEW label \in Labels, Goes(t, label) PROVE Timed'
  BY <1>4 DEF Goes, Timed
<1>5. CASE MainRequestShutdown
  BY <1>5 DEF MainRequestShutdown, Goto, Timed
<1>6. CASE MainJoin
  BY <1>6 DEF MainJoin, Goto, Timed
<1>7. CASE Tick
  BY <1>7 DEF Tick, Timed
<1>8. CASE UNCHANGED <<clock, pc, wake, shutdown>>
  BY <1>8 DEF Timed
<1> QED
  BY <1>2, <1>3, <1>4, <1>5, <1>6, <1>7, <1>8, Steps

(* Until main's request time has not run past its own wake-up and lag. *)
LEMMA BeforeRequest ==
  ASSUME Base, Timed, ~shutdown
  PROVE  clock <= SimDuration + MaxLag /\ pc["main"] = "sleep"
BY DEF Base, Phases, Timed, Running, Threads

LEMMA NextEnding ==
  ASSUME Base, Timed, Ending, [Next]_vars
  PROVE  Ending'
<1>1. /\ \A t \in Tasks : LongestDelay[t] \in Nat
      /\ pc \in [Threads -> Labels] /\ wake \in [Threads -> Nat]
      /\ clock \in Nat /\ MaxLag \in Nat /\ SimDuration \in Nat /\ Tasks \subseteq Threads
      /\ "main" \in Threads /\ "main" \notin Tasks
      /\ \A t \in Tasks : pc[t] = "start" => t = "watchdog"
  BY LongestFacts, TasksAssumption DEF Base, Typed, Phases, Threads, Tasks
<1> USE <1>1 DEF Running, InIteration
<1>2. ASSUME NEW t \in Tasks, Begin(t) PROVE Ending'
  <2>1. CASE shutdown
    BY <1>2, <2>1 DEF Begin, Return, Ending
  <2>2. CASE ~shutdown
    <3>1. wake[t] <= SimDuration + MaxLag
      BY <1>2, <2>2, BeforeRequest DEF Begin
    <3> QED
      BY <1>2, <2>2, <3>1 DEF Begin, Goto, Ending
  <2> QED
    BY <2>1, <2>2
<1>3. ASSUME NEW t \in Tasks, NEW ms \in Nat, Wakes(t, ms), ms <= LongestDelay[t] PROVE Ending'
  <2>1. clock <= wake[t] + MaxLag /\ wake[t] <= SimDuration + MaxLag
    BY <1>3 DEF Wakes, Timed, Ending
  <2> QED
    BY <1>3, <2>1 DEF Wakes, Ending
<1>4. ASSUME NEW t \in Tasks, NEW label \in Labels, Goes(t, label) PROVE Ending'
  BY <1>4 DEF Goes, Ending
<1>5. CASE MainRequestShutdown \/ MainJoin
  BY <1>5 DEF MainRequestShutdown, MainJoin, Goto, Ending
<1>6. CASE Tick \/ UNCHANGED <<clock, pc, wake, shutdown>>
  BY <1>6 DEF Tick, Ending
<1> QED
  BY <1>2, <1>3, <1>4, <1>5, <1>6, Steps

LEMMA SpecTimed == Spec => [](Base /\ Timed /\ Ending)
BY InitBase, NextBase, InitTimed, NextTimed, NextEnding, PTL DEF Spec

(***************************************************************************)
(* Every task that is not hung has returned one longest delay and three    *)
(* lags after main's request, whatever the periods: main gets through its  *)
(* joins.                                                                  *)
(***************************************************************************)
THEOREM LoopsExit == Spec => []ExitsInTime
<1>1. Base /\ Timed /\ Ending => ExitsInTime
  <2> SUFFICES ASSUME Base, Timed, Ending, NEW t \in Created,
                      clock > SimDuration + LongestDelay[t] + 3 * MaxLag
               PROVE  pc[t] \in {"done", "hung"}
    BY DEF ExitsInTime
  <2>1. /\ t \in Tasks /\ t \in Threads /\ LongestDelay[t] \in Nat
        /\ MaxLag \in Nat /\ SimDuration \in Nat /\ clock \in Nat /\ wake[t] \in Nat
        /\ pc[t] \in Labels
    BY LongestFacts, TasksAssumption DEF Base, Typed, Threads
  <2>2. pc[t] # "start"
    <3>1. pc[t] = "start" => t = "watchdog"
      BY <2>1 DEF Base, Phases
    <3> QED
      BY <2>1, <3>1 DEF Timed, Running
  <2>3. pc[t] \notin InIteration /\ pc[t] # "sleep"
    BY <2>1 DEF Timed, Ending, Running, InIteration
  <2> QED
    BY <2>1, <2>2, <2>3 DEF Base, Phases, Labels, InIteration
<1> QED
  BY <1>1, SpecTimed, PTL

-----------------------------------------------------------------------------
(***************************************************************************)
(* Heartbeats and samples, in a run that ends before the tick wraps: a     *)
(* heartbeat lies in the past, and a task that still runs beats again one  *)
(* period (and the lag) later.                                             *)
(***************************************************************************)
NoWrap == MaxClock < TickMod

Samples ==
  /\ \A t \in Monitored : hb[t] <= clock
  /\ now["fault"] <= clock /\ now["watchdog"] <= clock
  /\ hb["fault"] <= now["fault"]
  /\ pc["fault"] = "sleep" => hb["fault"] = now["fault"]
  /\ pc["fault"] = "body" => wake["fault"] <= now["fault"]
  /\ pc["watchdog"] = "body" => wake["watchdog"] <= now["watchdog"]
  /\ pc["sensor"] \in Running => wake["sensor"] <= hb["sensor"] + SensorPeriod
  /\ pc["soc"] \in Running => wake["soc"] <= hb["soc"] + SocPeriod
  /\ pc["fault"] \in Running => wake["fault"] <= hb["fault"] + FaultPeriod + MaxLag

(* The types that the arithmetic of the proofs below rests on. *)
Numbers ==
  /\ SensorPeriod \in Nat /\ SocPeriod \in Nat /\ FaultPeriod \in Nat /\ CanPeriod \in Nat
  /\ WatchdogPeriod \in Nat /\ MaxLag \in Nat /\ StaleMs \in Nat /\ SimDuration \in Nat
  /\ clock \in Nat
  /\ pc \in [Threads -> Labels] /\ wake \in [Threads -> Nat]
  /\ \A t \in Tasks : wake[t] \in Nat
  /\ hb \in [Monitored -> Nat] /\ \A t \in Monitored : hb[t] \in Nat
  /\ now \in [{"fault", "watchdog"} -> Nat] /\ now["fault"] \in Nat /\ now["watchdog"] \in Nat

LEMMA NumbersHold == Base => Numbers
<1> SUFFICES ASSUME Base PROVE Numbers
  OBVIOUS
<1>1. \A n \in Ticks : n \in Nat
  BY TickAssumption DEF Ticks
<1>2. /\ SensorPeriod \in Nat /\ SocPeriod \in Nat /\ FaultPeriod \in Nat /\ CanPeriod \in Nat
      /\ WatchdogPeriod \in Nat /\ MaxLag \in Nat /\ StaleMs \in Nat /\ SimDuration \in Nat
      /\ MaxClock \in Nat
  BY TasksAssumption
<1>3. clock \in Nat /\ pc \in [Threads -> Labels] /\ wake \in [Threads -> Nat]
  BY <1>2 DEF Base, Typed
<1>4. \A t \in Tasks : wake[t] \in Nat
  BY <1>3 DEF Threads
<1>5. hb \in [Monitored -> Ticks] /\ now \in [{"fault", "watchdog"} -> Ticks]
  BY DEF Base, Typed
<1>6. hb \in [Monitored -> Nat] /\ \A t \in Monitored : hb[t] \in Nat
  BY <1>1, <1>5
<1>7. now \in [{"fault", "watchdog"} -> Nat] /\ now["fault"] \in Nat /\ now["watchdog"] \in Nat
  BY <1>1, <1>5
<1> QED
  BY <1>2, <1>3, <1>4, <1>6, <1>7 DEF Numbers

LEMMA TickIsClock ==
  ASSUME NoWrap, Base
  PROVE  tick = clock
<1>1. clock \in Ticks
  BY TickAssumption, TasksAssumption DEF NoWrap, Base, Typed, Ticks
<1> QED
  BY <1>1, LowWordExact DEF tick

LEMMA InitSamples == Init => Samples
<1> SUFFICES ASSUME Init PROVE Samples
  OBVIOUS
<1>1. /\ clock = 0 /\ hb = [t \in Monitored |-> 0] /\ now = [t \in {"fault", "watchdog"} |-> 0]
      /\ wake["sensor"] = 0 /\ wake["soc"] = 0 /\ wake["fault"] = 0 /\ wake["watchdog"] = 0
  BY DEF Init, AppContextInit, Tasks
<1>2. hb["sensor"] = 0 /\ hb["soc"] = 0 /\ hb["fault"] = 0 /\ now["fault"] = 0 /\ now["watchdog"] = 0
  BY <1>1 DEF Monitored
<1>3. SensorPeriod \in Nat /\ SocPeriod \in Nat /\ FaultPeriod \in Nat /\ MaxLag \in Nat
  BY TasksAssumption
<1> QED
  BY <1>1, <1>2, <1>3 DEF Samples, Monitored

(* What a step may do to the program counter and wake-up time of a thread  *)
(* that is not the one that steps.                                         *)
Others(t) == \A p \in Threads \ {t} : pc'[p] = pc[p] /\ wake'[p] = wake[p]

LEMMA NextSamples ==
  ASSUME NoWrap, Base, Timed, Samples, [Next]_vars
  PROVE  Samples'
<1>1. /\ Numbers /\ tick = clock
      /\ {"sensor", "soc", "fault", "can", "watchdog", "main"} \subseteq Threads
      /\ pc["fault"] # "start" /\ pc["sensor"] # "start" /\ pc["soc"] # "start"
  BY NumbersHold, TickIsClock DEF Threads, Tasks, Base, Phases
<1> USE <1>1 DEF Numbers, Others
<1>2. ASSUME NEW t \in Tasks, Begin(t) PROVE Samples'
  <2>1. pc[t] = "sleep" /\ wake[t] <= clock /\ clock' = clock /\ hb' = hb
    BY <1>2 DEF Begin, ctx
  <2>2. CASE pc' = [pc EXCEPT ![t] = "done"] /\ wake' = [wake EXCEPT ![t] = 0] /\ now' = now
    <3>1. pc'[t] = "done" /\ Others(t)
      BY <2>2 DEF Threads
    <3> QED
      BY <2>1, <2>2, <3>1 DEF Samples, Tasks, Running
  <2>3. CASE /\ pc' = [pc EXCEPT ![t] = "body"] /\ wake' = wake
             /\ now' = [x \in DOMAIN now |-> IF x = t THEN tick ELSE now[x]]
    <3>1. pc'[t] = "body" /\ Others(t)
      BY <2>3 DEF Threads
    <3>2. /\ now'["fault"] = IF t = "fault" THEN clock ELSE now["fault"]
          /\ now'["watchdog"] = IF t = "watchdog" THEN clock ELSE now["watchdog"]
      BY <2>3
    <3> QED
      BY <2>1, <2>3, <3>1, <3>2 DEF Samples, Tasks, Running, Monitored
  <2> QED
    BY <1>2, <2>2, <2>3 DEF Begin, Return, Goto
<1>3. ASSUME NEW t \in Tasks, Hang(t) PROVE Samples'
  <2>1. /\ pc'[t] = "hung" /\ Others(t)
        /\ clock' = clock /\ hb' = hb /\ now' = now
    BY <1>3 DEF Hang, Goto, ctx, locals, Threads
  <2> QED
    BY <2>1 DEF Samples, Tasks, Running
<1>4. CASE TaskSensor
  <2>1. /\ pc'["sensor"] = "sleep" /\ wake'["sensor"] = clock + SensorPeriod /\ Others("sensor")
        /\ hb'["sensor"] = clock /\ hb'["soc"] = hb["soc"] /\ hb'["fault"] = hb["fault"]
        /\ clock' = clock /\ now' = now
    BY <1>4 DEF TaskSensor, Delay, locals, Monitored
  <2> QED
    BY <2>1 DEF Samples, Running, Monitored
<1>5. CASE TaskSoc
  <2>1. /\ pc'["soc"] = "sleep" /\ wake'["soc"] = clock + SocPeriod /\ Others("soc")
        /\ hb'["soc"] = clock /\ hb'["sensor"] = hb["sensor"] /\ hb'["fault"] = hb["fault"]
        /\ clock' = clock /\ now' = now
    BY <1>5 DEF TaskSoc, Delay, locals, Monitored
  <2> QED
    BY <2>1 DEF Samples, Running, Monitored
<1>6. CASE TaskFault
  <2>1. /\ pc'["fault"] = "sleep" /\ wake'["fault"] = clock + FaultPeriod /\ Others("fault")
        /\ hb'["fault"] = now["fault"] /\ hb'["sensor"] = hb["sensor"] /\ hb'["soc"] = hb["soc"]
        /\ clock' = clock /\ now' = now /\ pc["fault"] = "body"
    BY <1>6 DEF TaskFault, Delay, locals, Monitored
  <2>2. clock <= wake["fault"] + MaxLag /\ wake["fault"] <= now["fault"]
    BY <2>1 DEF Timed, Samples, Running
  <2> QED
    BY <2>1, <2>2 DEF Samples, Running, Monitored
<1>7. CASE CanSnapshot \/ CanSend
  <2>1. Others("can") /\ clock' = clock /\ hb' = hb /\ now' = now
    BY <1>7 DEF CanSnapshot, CanSend, Delay, Goto, ctx
  <2> QED
    BY <2>1 DEF Samples, Running
<1>8. CASE Watchdog
  <2>1. /\ Others("watchdog") /\ clock' = clock /\ hb' = hb
        /\ pc'["watchdog"] # "body"
        /\ now'["fault"] = now["fault"] /\ now'["watchdog"] \in {0, now["watchdog"]}
    BY <1>8 DEF Watchdog, WatchdogStart, WatchdogSnapshot, WatchdogReport, WatchdogDelay, Delay, Goto, ctx, locals
  <2> QED
    BY <2>1 DEF Samples, Running
<1>9. CASE MainRequestShutdown \/ MainJoin
  <2>1. Others("main") /\ clock' = clock /\ hb' = hb /\ now' = now
    BY <1>9 DEF MainRequestShutdown, MainJoin, Goto, ctx, locals
  <2> QED
    BY <2>1 DEF Samples, Running
<1>10. CASE Tick
  <2>1. clock' = clock + 1 /\ pc' = pc /\ wake' = wake /\ hb' = hb /\ now' = now
    BY <1>10 DEF Tick, ctx, locals
  <2> QED
    BY <2>1 DEF Samples, Monitored
<1>11. CASE UNCHANGED vars
  BY <1>11 DEF vars, ctx, locals, Samples
<1> QED
  BY <1>2, <1>3, <1>4, <1>5, <1>6, <1>7, <1>8, <1>9, <1>10, <1>11 DEF Next, Over

LEMMA SpecSamples == NoWrap => (Spec => [](Base /\ Timed /\ Samples))
<1> SUFFICES ASSUME NoWrap PROVE Spec => [](Base /\ Timed /\ Samples)
  OBVIOUS
<1>1. Init => Base /\ Timed /\ Samples
  BY InitBase, InitTimed, InitSamples
<1>2. Base /\ Timed /\ Samples /\ [Next]_vars => (Base /\ Timed /\ Samples)'
  BY NextBase, NextTimed, NextSamples
<1> QED
  BY <1>1, <1>2, PTL DEF Spec

(* While main has not asked for the end, a task that exists is in its loop. *)
LEMMA StillRunning ==
  ASSUME Base, NEW t \in Tasks, ~shutdown, ~Gone(t)
  PROVE  pc[t] \in Running
BY DEF Base, Typed, Phases, Gone, Running, Labels, Threads

(* The step that ends an iteration of a task. *)
Ends(t) ==
  \/ t = "sensor" /\ TaskSensor
  \/ t = "soc" /\ TaskSoc
  \/ t = "fault" /\ TaskFault
  \/ t = "can" /\ CanSend
  \/ t = "watchdog" /\ Watchdog

(* Until the end is requested only a task's own iterations move its        *)
(* wake-up time, and a task that is gone stays gone.                       *)
LEMMA OwnSteps ==
  ASSUME Base, [Next]_vars, NEW t \in Tasks, ~shutdown'
  PROVE  /\ ~shutdown
         /\ Gone(t) => Gone(t)'
         /\ Ends(t) \/ wake'[t] = wake[t]
<1>1. /\ pc \in [Threads -> Labels] /\ wake \in [Threads -> Nat]
      /\ Tasks \subseteq Threads /\ "main" \in Threads \ Tasks
      /\ {"sensor", "soc", "fault", "can", "watchdog"} \subseteq Tasks
  BY DEF Base, Typed, Threads, Tasks
<1> USE <1>1 DEF Others
<1>2. ASSUME NEW p \in Threads, Others(p), p # t
      PROVE  (Gone(t) => Gone(t)') /\ wake'[t] = wake[t]
  BY <1>2 DEF Gone
<1>3. ASSUME NEW p \in Tasks, Begin(p)
      PROVE  ~shutdown /\ (Gone(t) => Gone(t)') /\ wake'[t] = wake[t]
  <2>1. ~shutdown /\ pc[p] = "sleep" /\ pc' = [pc EXCEPT ![p] = "body"] /\ wake' = wake
    BY <1>3 DEF Begin, Goto
  <2> QED
    BY <2>1 DEF Gone
<1>4. ASSUME NEW p \in Tasks, Hang(p)
      PROVE  ~shutdown /\ (Gone(t) => Gone(t)') /\ wake'[t] = wake[t]
  <2>1. ~shutdown /\ pc' = [pc EXCEPT ![p] = "hung"] /\ wake' = wake
    BY <1>4 DEF Hang, Goto
  <2> QED
    BY <2>1 DEF Gone
<1>5. CASE TaskSensor
  <2>1. ~shutdown /\ Others("sensor") /\ pc["sensor"] = "body"
    BY <1>5 DEF TaskSensor, Delay
  <2> QED
    BY <1>2, <1>5, <2>1 DEF Ends, Gone
<1>6. CASE TaskSoc
  <2>1. ~shutdown /\ Others("soc") /\ pc["soc"] = "body"
    BY <1>6 DEF TaskSoc, Delay
  <2> QED
    BY <1>2, <1>6, <2>1 DEF Ends, Gone
<1>7. CASE TaskFault
  <2>1. ~shutdown /\ Others("fault") /\ pc["fault"] = "body"
    BY <1>7 DEF TaskFault, Delay
  <2> QED
    BY <1>2, <1>7, <2>1 DEF Ends, Gone
<1>8. CASE CanSnapshot
  <2>1. ~shutdown /\ pc["can"] = "body" /\ pc' = [pc EXCEPT !["can"] = "send"] /\ wake' = wake
    BY <1>8 DEF CanSnapshot, Goto
  <2> QED
    BY <2>1 DEF Gone
<1>9. CASE CanSend
  <2>1. ~shutdown /\ Others("can") /\ pc["can"] = "send"
    BY <1>9 DEF CanSend, Delay
  <2> QED
    BY <1>2, <1>9, <2>1 DEF Ends, Gone
<1>10. CASE Watchdog
  <2>1. ~shutdown /\ Others("watchdog") /\ pc["watchdog"] \in {"start", "body", "report"}
    BY <1>10 DEF Watchdog, WatchdogStart, WatchdogSnapshot, WatchdogReport, WatchdogDelay, Delay, Goto
  <2> QED
    BY <1>2, <1>10, <2>1 DEF Ends, Gone
<1>11. CASE MainRequestShutdown \/ MainJoin \/ Tick
  <2>1. ~shutdown /\ Others("main")
    BY <1>11 DEF MainRequestShutdown, MainJoin, Tick, Goto
  <2> QED
    BY <1>2, <2>1
<1>12. CASE UNCHANGED vars
  BY <1>12 DEF vars, Gone
<1> QED
  BY <1>3, <1>4, <1>5, <1>6, <1>7, <1>8, <1>9, <1>10, <1>11, <1>12 DEF Next, Over

(* Who writes what. *)
LEMMA Writers ==
  ASSUME Base, [Next]_vars
  PROVE  /\ Tick \/ clock' = clock
         /\ TaskSensor \/ (reading' = reading /\ hb'["sensor"] = hb["sensor"])
         /\ TaskSoc \/ (status' = status /\ hb'["soc"] = hb["soc"])
         /\ TaskFault \/ hb'["fault"] = hb["fault"]
         /\ TaskFault \/ WatchdogReport \/ (fm' = fm /\ tripped' = tripped)
         /\ TaskSensor \/ TaskFault \/ judged' = judged
         /\ CanSnapshot \/ CanSend \/ frame' = frame
         /\ CanSend \/ (bus' = bus /\ last_faults' = last_faults)
<1>1. hb \in [Monitored -> Ticks]
  BY DEF Base, Typed
<1>2. CASE \E t \in Tasks : Begin(t) \/ Hang(t)
  BY <1>2 DEF Begin, Hang, ctx, locals, history
<1>3. CASE TaskSensor
  <2>1. /\ UNCHANGED <<clock, status, fm, tripped, frame, bus, last_faults>>
        /\ hb'["soc"] = hb["soc"] /\ hb'["fault"] = hb["fault"]
    BY <1>1, <1>3 DEF TaskSensor, locals, Monitored
  <2> QED
    BY <1>3, <2>1
<1>4. CASE TaskSoc
  <2>1. /\ UNCHANGED <<clock, reading, fm, tripped, judged, frame, bus, last_faults>>
        /\ hb'["sensor"] = hb["sensor"] /\ hb'["fault"] = hb["fault"]
    BY <1>1, <1>4 DEF TaskSoc, locals, history, Monitored
  <2> QED
    BY <1>4, <2>1
<1>5. CASE TaskFault
  <2>1. /\ UNCHANGED <<clock, reading, status, frame, bus, last_faults>>
        /\ hb'["sensor"] = hb["sensor"] /\ hb'["soc"] = hb["soc"]
    BY <1>1, <1>5 DEF TaskFault, locals, Monitored
  <2> QED
    BY <1>5, <2>1
<1>8. CASE CanSnapshot \/ CanSend
  <2>1. UNCHANGED <<clock, reading, fm, status, hb, tripped, judged>> /\ (CanSend \/ UNCHANGED <<bus, last_faults>>)
    BY <1>8 DEF CanSnapshot, ctx, history, CanSend
  <2> QED
    BY <1>8, <2>1
<1>9. CASE Watchdog
  <2>1. /\ UNCHANGED <<clock, reading, status, hb, judged, frame, bus, last_faults>>
        /\ WatchdogReport \/ UNCHANGED <<fm, tripped>>
    BY <1>9 DEF Watchdog, WatchdogStart, WatchdogSnapshot, WatchdogReport, ctx, locals, history
  <2> QED
    BY <2>1
<1>6. CASE MainRequestShutdown \/ MainJoin \/ Tick
  BY <1>6 DEF MainRequestShutdown, MainJoin, Tick, ctx, locals, history
<1>7. CASE UNCHANGED vars
  BY <1>7 DEF vars, ctx, locals, history
<1> QED
  BY <1>2, <1>3, <1>4, <1>5, <1>6, <1>7, <1>8, <1>9 DEF Next, Over

(* Both writers of the fault manager leave SHUTDOWN alone, and the          *)
(* watchdog's report ends in it.                                            *)
LEMMA ManagerSteps ==
  ASSUME Base, [Next]_vars
  PROVE  /\ fm.state = "SHUTDOWN" => fm' = fm
         /\ TaskFault /\ Critical(reading) => fm'.state = "SHUTDOWN"
         /\ WatchdogReport => fm'.state = "SHUTDOWN"
<1>1. fm \in FaultManagerT /\ Consistent(fm) /\ now["fault"] \in Ticks /\ now["watchdog"] \in Ticks
  BY DEF Base, Typed, SeveritiesMatch
<1>2. CASE TaskFault
  <2>1. fm' = FaultManagerEvaluate(fm, reading, now["fault"])
    BY <1>2 DEF TaskFault
  <2>2. (fm.state = "SHUTDOWN" => fm' = fm) /\ (Critical(reading) => fm'.state = "SHUTDOWN")
    BY <1>1, <2>1, EvaluateDoes
  <2>3. ~WatchdogReport \/ fm'.state = "SHUTDOWN"
    BY <1>1, ReportDoes DEF WatchdogReport
  <2> QED
    BY <2>2, <2>3
<1>3. CASE WatchdogReport /\ ~TaskFault
  BY <1>1, <1>3, ReportDoes DEF WatchdogReport
<1> QED
  BY <1>2, <1>3, Writers

-----------------------------------------------------------------------------
(***************************************************************************)
(* A critical reading waits for the fault task, which is at most one       *)
(* period away when the sensor task publishes it.                          *)
(***************************************************************************)
CriticalWaits ==
  ~shutdown /\ fm.state # "SHUTDOWN" /\ ~Gone("fault") /\ Critical(reading)
  => wake["fault"] <= hb["sensor"] + FaultPeriod

LEMMA InitCriticalWaits == Init => CriticalWaits
<1> SUFFICES ASSUME Init PROVE CriticalWaits
  OBVIOUS
<1>1. wake["fault"] = 0 /\ hb["sensor"] = 0 /\ FaultPeriod \in Nat
  BY TasksAssumption DEF Init, AppContextInit, Tasks, Monitored
<1> QED
  BY <1>1 DEF CriticalWaits

LEMMA NextCriticalWaits ==
  ASSUME NoWrap, Base, Timed, CriticalWaits, [Next]_vars
  PROVE  CriticalWaits'
<1> SUFFICES ASSUME ~shutdown', fm'.state # "SHUTDOWN", ~Gone("fault")', Critical(reading)'
             PROVE  wake'["fault"] <= hb'["sensor"] + FaultPeriod
  BY DEF CriticalWaits
<1>1. Numbers /\ tick = clock /\ "fault" \in Tasks
  BY NumbersHold, TickIsClock DEF Tasks
<1>2. ~shutdown /\ ~Gone("fault") /\ (TaskFault \/ wake'["fault"] = wake["fault"])
  BY <1>1, OwnSteps DEF Ends
<1>3. fm.state # "SHUTDOWN"
  BY ManagerSteps
<1>4. CASE TaskSensor
  <2>1. wake'["fault"] = wake["fault"] /\ hb'["sensor"] = clock
    BY <1>1, <1>4 DEF TaskSensor, Delay, Numbers, Monitored, Threads, Tasks
  <2>2. wake["fault"] <= clock + FaultPeriod
    BY <1>1, <1>2, StillRunning, LongestFacts DEF Timed
  <2> QED
    BY <2>1, <2>2
<1>5. CASE TaskFault
  <2>1. Critical(reading)
    BY <1>5 DEF TaskFault
  <2> QED
    BY <1>5, <2>1, ManagerSteps
<1>6. CASE ~TaskSensor /\ ~TaskFault
  <2>1. reading' = reading /\ hb'["sensor"] = hb["sensor"] /\ Critical(reading)
    BY <1>6, Writers
  <2> QED
    BY <1>2, <1>3, <1>6, <2>1 DEF CriticalWaits
<1> QED
  BY <1>4, <1>5, <1>6

(***************************************************************************)
(* An ASIL D condition is acted upon within one fault period and its lag   *)
(* of the reading that shows it, for all periods and lags, in a run that   *)
(* ends before the tick wraps.                                             *)
(***************************************************************************)
THEOREM CriticalCaught == NoWrap => (Spec => []AsilDCaught)
<1> SUFFICES ASSUME NoWrap PROVE Spec => []AsilDCaught
  OBVIOUS
<1>1. Spec => []CriticalWaits
  <2>1. Base /\ Timed /\ CriticalWaits /\ [Next]_vars => CriticalWaits'
    BY NextCriticalWaits
  <2> QED
    BY <2>1, InitCriticalWaits, SpecTimed, PTL DEF Spec
<1>2. Base /\ Timed /\ CriticalWaits => AsilDCaught
  <2> SUFFICES ASSUME Base, Timed, CriticalWaits,
                      ~shutdown, fm.state # "SHUTDOWN", ~Gone("fault"), Critical(reading)
               PROVE  clock - hb["sensor"] <= FaultPeriod + MaxLag
    BY DEF AsilDCaught, Critical
  <2>1. "fault" \in Tasks /\ "fault" \in Threads /\ "sensor" \in Monitored
    BY DEF Tasks, Threads, Monitored
  <2>2. clock <= wake["fault"] + MaxLag
    BY <2>1, StillRunning DEF Timed
  <2>3. wake["fault"] <= hb["sensor"] + FaultPeriod
    BY DEF CriticalWaits
  <2> QED
    BY <2>1, <2>2, <2>3, NumbersHold DEF Numbers
<1> QED
  BY <1>1, <1>2, SpecTimed, PTL

-----------------------------------------------------------------------------
(***************************************************************************)
(* While a reading is not evaluated the fault task's turn comes before the *)
(* sensor task's: it is earlier by the difference of the periods.          *)
(***************************************************************************)
FaultFirst ==
  ~shutdown /\ ~Gone("fault") /\ ~judged
  => wake["fault"] + SensorPeriod <= wake["sensor"] + FaultPeriod

LEMMA NextFaultFirst ==
  ASSUME Base, Timed, FaultFirst, [Next]_vars
  PROVE  FaultFirst'
<1> SUFFICES ASSUME ~shutdown', ~Gone("fault")', ~judged'
             PROVE  wake'["fault"] + SensorPeriod <= wake'["sensor"] + FaultPeriod
  BY DEF FaultFirst
<1>1. Numbers /\ "fault" \in Tasks /\ "sensor" \in Tasks
  BY NumbersHold DEF Tasks
<1>2. /\ ~shutdown /\ ~Gone("fault") /\ (TaskFault \/ wake'["fault"] = wake["fault"])
      /\ TaskSensor \/ wake'["sensor"] = wake["sensor"]
  BY <1>1, OwnSteps DEF Ends
<1>3. ~TaskFault
  BY DEF TaskFault
<1>4. CASE TaskSensor
  <2>1. wake'["sensor"] = clock + SensorPeriod
    BY <1>1, <1>4 DEF TaskSensor, Delay, Numbers, Threads, Tasks
  <2>2. wake["fault"] <= clock + FaultPeriod
    BY <1>1, <1>2, StillRunning, LongestFacts DEF Timed
  <2> QED
    BY <1>1, <1>2, <1>3, <2>1, <2>2 DEF Numbers
<1>5. CASE ~TaskSensor
  <2>1. ~judged
    BY <1>3, <1>5, Writers
  <2> QED
    BY <1>2, <1>3, <1>5, <2>1 DEF FaultFirst
<1> QED
  BY <1>4, <1>5

(***************************************************************************)
(* No sample is overwritten before it is evaluated whenever the sensor     *)
(* period exceeds the fault period by more than the lag, whatever the      *)
(* other tasks do and across the wrap of the tick counter.                 *)
(***************************************************************************)
THEOREM SamplesJudged ==
  FaultPeriod + MaxLag < SensorPeriod => (Spec => EveryReadingJudged)
<1> SUFFICES ASSUME FaultPeriod + MaxLag < SensorPeriod PROVE Spec => EveryReadingJudged
  OBVIOUS
<1>1. Init => FaultFirst
  BY DEF Init, FaultFirst
<1>2. Base /\ Timed /\ FaultFirst /\ [Next]_vars => FaultFirst'
  BY NextFaultFirst
<1>3. Base /\ Timed /\ FaultFirst /\ [Next]_vars
      => [TaskSensor /\ ~shutdown /\ ~Gone("fault") => judged]_vars
  <2> SUFFICES ASSUME Base, Timed, FaultFirst, TaskSensor, ~shutdown, ~Gone("fault"), ~judged
               PROVE  FALSE
    OBVIOUS
  <2>1. Numbers /\ "fault" \in Tasks /\ "sensor" \in Tasks /\ "fault" \in Threads
    BY NumbersHold DEF Tasks, Threads
  <2>2. wake["sensor"] <= clock
    BY <2>1 DEF TaskSensor, Timed, InIteration
  <2>3. clock <= wake["fault"] + MaxLag
    BY <2>1, StillRunning DEF Timed
  <2>4. wake["fault"] + SensorPeriod <= wake["sensor"] + FaultPeriod
    BY DEF FaultFirst
  <2> QED
    BY <2>1, <2>2, <2>3, <2>4 DEF Numbers
<1> QED
  BY <1>1, <1>2, <1>3, SpecTimed, PTL DEF Spec, EveryReadingJudged

-----------------------------------------------------------------------------
(***************************************************************************)
(* The watchdog.  When it samples the clock every heartbeat of a task that *)
(* is not gone is fresh, and no heartbeat gets older than that sample.     *)
(***************************************************************************)
FreshAtSample ==
  pc["watchdog"] = "body" =>
    \A t \in Monitored : Gone(t) \/ now["watchdog"] <= hb[t] + StaleMs

(* The periods leave every monitored task time to beat. *)
PeriodsFit ==
  /\ SensorPeriod + MaxLag <= StaleMs
  /\ SocPeriod + MaxLag <= StaleMs
  /\ FaultPeriod + 2 * MaxLag <= StaleMs

LEMMA HeartbeatsGrow ==
  ASSUME NoWrap, Base, Samples, [Next]_vars, NEW t \in Monitored
  PROVE  hb'[t] \in Nat /\ hb[t] <= hb'[t]
<1>1. Numbers /\ tick = clock
  BY NumbersHold, TickIsClock
<1>2. CASE TaskSensor
  BY <1>1, <1>2 DEF TaskSensor, Samples, Numbers, Monitored
<1>3. CASE TaskSoc
  BY <1>1, <1>3 DEF TaskSoc, Samples, Numbers, Monitored
<1>4. CASE TaskFault
  BY <1>1, <1>4 DEF TaskFault, Samples, Numbers, Monitored
<1>5. CASE ~TaskSensor /\ ~TaskSoc /\ ~TaskFault
  BY <1>1, <1>5, Writers DEF Numbers, Monitored
<1> QED
  BY <1>2, <1>3, <1>4, <1>5

LEMMA NextFreshAtSample ==
  ASSUME NoWrap, PeriodsFit, Base, Timed, Samples, FreshAtSample, [Next]_vars
  PROVE  FreshAtSample'
<1> SUFFICES ASSUME pc'["watchdog"] = "body", NEW t \in Monitored
             PROVE  Gone(t)' \/ now'["watchdog"] <= hb'[t] + StaleMs
  BY DEF FreshAtSample
<1>1. /\ Numbers /\ tick = clock /\ t \in Tasks
      /\ {"sensor", "soc", "fault", "can", "watchdog", "main"} \subseteq Threads
  BY NumbersHold, TickIsClock DEF Tasks, Threads, Monitored
<1> USE <1>1
<1>2. hb'[t] \in Nat /\ hb[t] <= hb'[t]
  BY HeartbeatsGrow
<1>4. CASE Begin("watchdog")
  <2>1. ~shutdown /\ now'["watchdog"] = clock /\ hb' = hb /\ pc[t] = pc'[t]
    <3>1. ~shutdown
      BY <1>4 DEF Begin, Return, Numbers
    <3> QED
      BY <1>4, <3>1 DEF Begin, Goto, ctx, Numbers, Monitored
  <2> SUFFICES ASSUME ~Gone(t) PROVE clock <= hb[t] + StaleMs
    BY <2>1 DEF Gone
  <2>2. pc[t] \in Running /\ clock <= wake[t] + MaxLag
    BY <2>1, StillRunning DEF Timed, Threads
  <2> QED
    BY <2>2 DEF Samples, PeriodsFit, Numbers, Monitored
<1>5. ASSUME pc["watchdog"] = "body", now'["watchdog"] = now["watchdog"], Gone(t) => Gone(t)'
      PROVE  Gone(t)' \/ now'["watchdog"] <= hb'[t] + StaleMs
  BY <1>2, <1>5 DEF FreshAtSample, Numbers
<1>6. ASSUME NEW p \in Tasks, Begin(p), p # "watchdog"
      PROVE  Gone(t)' \/ now'["watchdog"] <= hb'[t] + StaleMs
  <2>1. /\ now'["watchdog"] = now["watchdog"] /\ pc[p] = "sleep"
        /\ \A q \in Threads \ {p} : pc'[q] = pc[q]
    BY <1>6 DEF Begin, Return, Goto, Numbers
  <2> QED
    BY <1>5, <1>6, <2>1 DEF Gone, Threads
<1>7. ASSUME NEW p \in Tasks, Hang(p)
      PROVE  Gone(t)' \/ now'["watchdog"] <= hb'[t] + StaleMs
  <2>1. now' = now /\ pc' = [pc EXCEPT ![p] = "hung"]
    BY <1>7 DEF Hang, Goto, locals
  <2> QED
    BY <1>5, <2>1 DEF Gone, Numbers, Threads
<1>8. CASE TaskSensor \/ TaskSoc \/ TaskFault
  <2>1. PICK p \in {"sensor", "soc", "fault"} : pc[p] = "body" /\ pc' = [pc EXCEPT ![p] = "sleep"] /\ now' = now
    BY <1>8 DEF TaskSensor, TaskSoc, TaskFault, Delay, locals
  <2> QED
    BY <1>5, <2>1 DEF Gone, Numbers, Threads
<1>9. CASE CanSnapshot \/ CanSend
  <2>1. now' = now /\ \A q \in Threads \ {"can"} : pc'[q] = pc[q]
    BY <1>9 DEF CanSnapshot, CanSend, Delay, Goto, Numbers
  <2> QED
    BY <1>5, <2>1 DEF Gone, Threads, Monitored
<1>10. CASE Watchdog
  BY <1>10 DEF Watchdog, WatchdogStart, WatchdogSnapshot, WatchdogReport, WatchdogDelay, Delay, Goto, Numbers
<1>11. CASE MainRequestShutdown \/ MainJoin \/ Tick \/ UNCHANGED vars
  <2>1. now' = now /\ \A q \in Threads \ {"main"} : pc'[q] = pc[q]
    BY <1>11 DEF MainRequestShutdown, MainJoin, Tick, Goto, vars, locals, Numbers
  <2> QED
    BY <1>5, <2>1 DEF Gone, Threads, Monitored, Tasks
<1> QED
  BY <1>4, <1>6, <1>7, <1>8, <1>9, <1>10, <1>11 DEF Next, Over

(***************************************************************************)
(* The watchdog accuses only a task that is gone or that beat after the    *)
(* watchdog had sampled the clock, when every monitored period and its lag *)
(* fit below the threshold, in a run that ends before the tick wraps.      *)
(***************************************************************************)
THEOREM AccusationsExplained ==
  NoWrap /\ PeriodsFit => (Spec => StaleMeansGoneOrRaced)
<1> SUFFICES ASSUME NoWrap, PeriodsFit PROVE Spec => StaleMeansGoneOrRaced
  OBVIOUS
<1>1. Init => FreshAtSample
  BY DEF Init, FreshAtSample, Tasks
<1>2. Base /\ Timed /\ Samples /\ FreshAtSample /\ [Next]_vars => FreshAtSample'
  BY NextFreshAtSample
<1>3. Base /\ FreshAtSample /\ [Next]_vars
      => [WatchdogSnapshot => \A t \in Accused : Gone(t) \/ hb[t] > now["watchdog"]]_vars
  <2> SUFFICES ASSUME Base, FreshAtSample, WatchdogSnapshot, NEW t \in Monitored, Stale(hb[t]),
                      ~Gone(t), ~(hb[t] > now["watchdog"])
               PROVE  FALSE
    BY DEF Accused
  <2>1. Numbers /\ hb[t] \in Ticks /\ now["watchdog"] \in Ticks
    BY NumbersHold DEF Base, Typed
  <2>2. now["watchdog"] <= hb[t] + StaleMs
    BY DEF WatchdogSnapshot, FreshAtSample
  <2>3. TickSub(now["watchdog"], hb[t]) = now["watchdog"] - hb[t]
    BY <2>1, TickSubExact DEF Numbers
  <2> QED
    BY <2>1, <2>2, <2>3 DEF Stale, Numbers
<1> QED
  BY <1>1, <1>2, <1>3, SpecSamples, PTL DEF Spec, StaleMeansGoneOrRaced

-----------------------------------------------------------------------------
(***************************************************************************)
(* While the pack runs the watchdog's next look is less than the bound     *)
(* away from every heartbeat: an iteration that accuses nobody has seen    *)
(* each at most StaleMs old.                                               *)
(***************************************************************************)
LookAhead ==
  ~shutdown /\ fm.state # "SHUTDOWN" /\ pc["watchdog"] # "start" =>
    \A t \in Monitored : wake["watchdog"] <= hb[t] + StaleMs + WatchdogPeriod + MaxLag

(* The watchdog runs for good, and its grace delay is within the bound. *)
WatchdogUp ==
  /\ "watchdog" \in Created \ Mortal
  /\ SensorPeriod * 2 <= StaleMs + WatchdogPeriod

LEMMA NextLookAhead ==
  ASSUME NoWrap, WatchdogUp, Base, Timed, Samples, LookAhead, [Next]_vars
  PROVE  LookAhead'
<1> SUFFICES ASSUME ~shutdown', fm'.state # "SHUTDOWN", pc'["watchdog"] # "start", NEW t \in Monitored
             PROVE  wake'["watchdog"] <= hb'[t] + StaleMs + WatchdogPeriod + MaxLag
  BY DEF LookAhead
<1>1. /\ Numbers /\ hb'[t] \in Nat /\ hb[t] <= hb'[t] /\ hb[t] \in Nat
      /\ "watchdog" \in Tasks /\ "watchdog" \in Threads
  BY NumbersHold, HeartbeatsGrow DEF Numbers, Tasks, Threads
<1>2. fm.state # "SHUTDOWN" /\ ~WatchdogReport
  BY ManagerSteps
<1>3. ~shutdown /\ (Watchdog \/ wake'["watchdog"] = wake["watchdog"])
  BY <1>1, OwnSteps DEF Ends
<1> USE <1>1 DEF Numbers
<1>4. CASE WatchdogStart
  <2>1. wake'["watchdog"] = clock + SensorPeriod * 2
    BY <1>4 DEF WatchdogStart, Delay
  <2>2. clock <= MaxLag
    BY <1>4 DEF WatchdogStart, Timed, Running
  <2> QED
    BY <2>1, <2>2 DEF WatchdogUp
<1>5. CASE WatchdogSnapshot
  <2>1. pc["watchdog"] = "body"
    BY <1>5 DEF WatchdogSnapshot
  <2>2. CASE Stale(hb[t])
    <3>1. wake'["watchdog"] = wake["watchdog"]
      BY <1>5, <2>2 DEF WatchdogSnapshot, Goto
    <3> QED
      BY <1>2, <1>3, <2>1, <3>1 DEF LookAhead
  <2>3. CASE ~Stale(hb[t])
    <3>1. CASE wake'["watchdog"] = wake["watchdog"]
      BY <1>2, <1>3, <2>1, <3>1 DEF LookAhead
    <3>2. CASE wake'["watchdog"] = clock + WatchdogPeriod
      <4>1. clock <= wake["watchdog"] + MaxLag /\ wake["watchdog"] <= now["watchdog"]
        BY <2>1 DEF Timed, Samples, Running
      <4>2. now["watchdog"] <= hb[t] + StaleMs
        <5>1. CASE now["watchdog"] <= hb[t]
          BY <5>1
        <5>2. CASE hb[t] <= now["watchdog"]
          <6>1. hb[t] \in Ticks /\ now["watchdog"] \in Ticks
            BY DEF Base, Typed
          <6>2. TickSub(now["watchdog"], hb[t]) = now["watchdog"] - hb[t]
            BY <5>2, <6>1, TickSubExact
          <6> QED
            BY <2>3, <6>2 DEF Stale
        <5> QED
          BY <5>1, <5>2
      <4> QED
        BY <3>2, <4>1, <4>2
    <3> QED
      BY <1>5, <3>1, <3>2 DEF WatchdogSnapshot, WatchdogDelay, Delay, Goto
  <2> QED
    BY <2>2, <2>3
<1>6. CASE ~Watchdog
  <2>1. pc["watchdog"] # "start"
    <3> SUFFICES ASSUME pc["watchdog"] = "start" PROVE pc'["watchdog"] = "start"
      OBVIOUS
    <3>1. ASSUME NEW p \in Tasks, Begin(p) \/ Hang(p) PROVE pc'["watchdog"] = "start"
      BY <3>1 DEF Begin, Hang, Goto, Return
    <3>2. CASE TaskSensor \/ TaskSoc \/ TaskFault \/ CanSnapshot \/ CanSend
      BY <3>2 DEF TaskSensor, TaskSoc, TaskFault, CanSnapshot, CanSend, Delay, Goto
    <3>3. CASE MainRequestShutdown \/ MainJoin \/ Tick \/ UNCHANGED vars
      BY <3>3 DEF MainRequestShutdown, MainJoin, Tick, Goto, vars
    <3> QED
      BY <1>6, <3>1, <3>2, <3>3 DEF Next, Over
  <2> QED
    BY <1>2, <1>3, <1>6, <2>1 DEF LookAhead
<1> QED
  BY <1>2, <1>4, <1>5, <1>6 DEF Watchdog

(***************************************************************************)
(* A heartbeat that stops is caught: while the pack runs no heartbeat is   *)
(* older than the threshold, one watchdog period and two lags, for every   *)
(* set of tasks that hang or were never created, given a watchdog that     *)
(* runs, a grace delay within that bound, and a run that ends before the   *)
(* tick wraps.                                                             *)
(***************************************************************************)
THEOREM HangsCaught == NoWrap /\ WatchdogUp => (Spec => []StaleCaught)
<1> SUFFICES ASSUME NoWrap, WatchdogUp PROVE Spec => []StaleCaught
  OBVIOUS
<1>1. Init => LookAhead
  BY DEF Init, LookAhead, WatchdogUp, Tasks
<1>2. Base /\ Timed /\ Samples /\ LookAhead /\ [Next]_vars => LookAhead'
  BY NextLookAhead
<1>3. Base /\ Timed /\ Samples /\ LookAhead => StaleCaught
  <2> SUFFICES ASSUME Base, Timed, Samples, LookAhead, ~shutdown, fm.state # "SHUTDOWN",
                      NEW t \in Monitored
               PROVE  clock - hb[t] <= DetectionBound
    BY DEF StaleCaught
  <2>1. Numbers /\ hb[t] \in Nat /\ "watchdog" \in Tasks /\ "watchdog" \in Threads
    BY NumbersHold DEF Numbers, Tasks, Threads
  <2>2. ~Gone("watchdog")
    BY <2>1 DEF WatchdogUp, Base, Phases, Gone
  <2>3. clock <= wake["watchdog"] + MaxLag
    BY <2>1, <2>2, StillRunning DEF Timed
  <2>4. CASE pc["watchdog"] = "start"
    <3>1. clock <= MaxLag
      BY <2>1, <2>3, <2>4 DEF Timed, Numbers
    <3> QED
      BY <2>1, <3>1 DEF DetectionBound, Numbers
  <2>5. CASE pc["watchdog"] # "start"
    <3>1. wake["watchdog"] <= hb[t] + StaleMs + WatchdogPeriod + MaxLag
      BY <2>5 DEF LookAhead
    <3> QED
      BY <2>1, <2>3, <3>1 DEF DetectionBound, Numbers
  <2> QED
    BY <2>4, <2>5
<1> QED
  BY <1>1, <1>2, <1>3, SpecSamples, PTL DEF Spec

-----------------------------------------------------------------------------
(***************************************************************************)
(* The broadcast of a SHUTDOWN, on a bus that loses nothing and with the   *)
(* two tasks that carry it alive.                                          *)
(***************************************************************************)
Carried == {"soc", "can"} \subseteq Created \ Mortal /\ ~LossyBus

(* What BMS_STATUS and FAULT_REPORT have to say once the pack is shut down. *)
Verdict == [faults |-> fm.active_faults, severity |-> fm.severity]

(* Each copy of the state is a SHUTDOWN only if the one it was taken from   *)
(* is, and then the report with it is the final one.                        *)
Copies ==
  /\ tripped # NoTrip <=> fm.state = "SHUTDOWN"
  /\ status = "SHUTDOWN" => fm.state = "SHUTDOWN"
  /\ bus.report.faults = last_faults
  /\ frame.state = "SHUTDOWN" => status = "SHUTDOWN" /\ frame.report = Verdict
  /\ bus.state = "SHUTDOWN" =>
       /\ status = "SHUTDOWN" /\ bus.report = Verdict
       /\ pc["can"] = "send" => frame.state = "SHUTDOWN"

(* How far the news can still be from the bus. *)
OnItsWay ==
  ~shutdown /\ tripped # NoTrip =>
    /\ status # "SHUTDOWN" => wake["soc"] <= tripped + SocPeriod
    /\ status = "SHUTDOWN" /\ bus.state # "SHUTDOWN" =>
         /\ wake["can"] <= tripped + SocPeriod + CanPeriod + 2 * MaxLag
         /\ pc["can"] = "send" /\ frame.state # "SHUTDOWN" => wake["can"] <= tripped + SocPeriod + MaxLag

LEMMA InitCopies == Init => Copies /\ OnItsWay
<1> SUFFICES ASSUME Init PROVE Copies /\ OnItsWay
  OBVIOUS
<1>1. /\ tripped = NoTrip /\ fm.state = "NORMAL" /\ status = "NORMAL"
      /\ frame = NoFrame /\ bus = NoFrame /\ last_faults = {}
  BY InitialManager DEF Init, AppContextInit
<1>2. NoFrame.state = "NORMAL" /\ NoFrame.report.faults = {}
  BY DEF NoFrame
<1> QED
  BY <1>1, <1>2 DEF Copies, OnItsWay

(* Only the snapshot takes the can task to its sends. *)
LEMMA SendFollowsSnapshot ==
  ASSUME Base, [Next]_vars, ~CanSnapshot, pc'["can"] = "send"
  PROVE  pc["can"] = "send"
<1>1. pc \in [Threads -> Labels] /\ "can" \in Threads
  BY DEF Base, Typed, Threads, Tasks
<1>2. ASSUME NEW t \in Tasks, Begin(t) \/ Hang(t) PROVE pc["can"] = "send"
  BY <1>1, <1>2 DEF Begin, Hang, Goto, Return
<1>3. CASE TaskSensor \/ TaskSoc \/ TaskFault \/ CanSend
  BY <1>1, <1>3 DEF TaskSensor, TaskSoc, TaskFault, CanSend, Delay
<1>4. CASE Watchdog
  BY <1>1, <1>4 DEF Watchdog, WatchdogStart, WatchdogSnapshot, WatchdogReport, WatchdogDelay, Delay, Goto
<1>5. CASE MainRequestShutdown \/ MainJoin \/ Tick \/ UNCHANGED vars
  BY <1>1, <1>5 DEF MainRequestShutdown, MainJoin, Tick, Goto, vars
<1> QED
  BY <1>2, <1>3, <1>4, <1>5 DEF Next, Over

LEMMA NextCopies ==
  ASSUME Carried, Base, Copies, [Next]_vars
  PROVE  Copies'
<1>1. (fm.state = "SHUTDOWN" => fm' = fm) /\ clock \in Nat
  BY ManagerSteps, NumbersHold DEF Numbers
<1>2. tripped' # NoTrip <=> fm'.state = "SHUTDOWN"
  <2>1. CASE TaskFault \/ WatchdogReport
    BY <1>1, <2>1 DEF TaskFault, WatchdogReport, NoteTrip, Copies, NoTrip
  <2>2. CASE ~TaskFault /\ ~WatchdogReport
    BY <2>2, Writers DEF Copies
  <2> QED
    BY <2>1, <2>2
<1>3. status' = "SHUTDOWN" => fm'.state = "SHUTDOWN"
  <2>1. CASE TaskSoc
    BY <2>1 DEF TaskSoc
  <2>2. CASE ~TaskSoc
    BY <1>1, <2>2, Writers DEF Copies
  <2> QED
    BY <2>1, <2>2
<1>4. status = "SHUTDOWN" => status' = "SHUTDOWN" /\ Verdict' = Verdict
  <2> SUFFICES ASSUME status = "SHUTDOWN" PROVE status' = "SHUTDOWN" /\ Verdict' = Verdict
    OBVIOUS
  <2>1. fm.state = "SHUTDOWN" /\ fm' = fm
    BY <1>1 DEF Copies
  <2>2. TaskSoc => status' = "SHUTDOWN"
    BY <2>1 DEF TaskSoc
  <2> QED
    BY <2>1, <2>2, Writers DEF Verdict
<1>5. CASE CanSnapshot
  <2>1. /\ pc["can"] = "body" /\ UNCHANGED <<status, fm, bus, last_faults>>
        /\ frame' = [state |-> status, report |-> Verdict]
    BY <1>5 DEF CanSnapshot, ctx, Verdict
  <2>2. frame'.state = status /\ frame'.report = Verdict /\ Verdict' = Verdict
    BY <2>1 DEF Verdict
  <2> QED
    BY <1>2, <1>3, <2>1, <2>2 DEF Copies
<1>6. CASE CanSend
  <2> DEFINE report == IF frame.report.faults # last_faults THEN frame.report ELSE bus.report
  <2>1. /\ pc'["can"] = "sleep" /\ UNCHANGED <<status, fm>>
        /\ bus' = [state |-> frame.state, report |-> report]
        /\ last_faults' = frame.report.faults
        /\ frame' = NoFrame
    BY <1>6 DEF CanSend, Delay, ctx, Carried, Base, Typed, Threads, Tasks
  <2>2. bus'.state = frame.state /\ bus'.report = report /\ frame'.state = "NORMAL" /\ Verdict' = Verdict
    BY <2>1, NothingSent DEF Verdict
  <2>3. report.faults = frame.report.faults /\ (frame.state = "SHUTDOWN" => report = frame.report)
    <3>1. CASE frame.report.faults # last_faults
      BY <3>1
    <3>2. CASE frame.report.faults = last_faults
      <4>1. /\ report = bus.report /\ bus.report.faults = frame.report.faults
            /\ bus.report.severity = frame.report.severity
        BY <3>2 DEF Copies, Base, SeveritiesMatch
      <4>2. bus.report \in [faults : SUBSET FaultBits, severity : Asil] /\ frame.report \in [faults : SUBSET FaultBits, severity : Asil]
        BY DEF Base, Typed, FrameT
      <4>3. bus.report = frame.report
        BY <4>1, <4>2
      <4> QED
        BY <4>1, <4>3
    <3> QED
      BY <3>1, <3>2
  <2> HIDE DEF report
  <2> QED
    BY <1>2, <1>3, <2>1, <2>2, <2>3 DEF Copies
<1>7. CASE ~CanSnapshot /\ ~CanSend
  <2>1. UNCHANGED <<frame, bus, last_faults>>
    BY <1>7, Writers
  <2>2. pc'["can"] = "send" => pc["can"] = "send"
    BY <1>7, SendFollowsSnapshot
  <2> QED
    BY <1>2, <1>3, <1>4, <2>1, <2>2 DEF Copies
<1> QED
  BY <1>5, <1>6, <1>7

LEMMA CarriersRun ==
  ASSUME Carried, Base, Timed, ~shutdown
  PROVE  /\ pc["soc"] \in Running /\ pc["can"] \in Running
         /\ clock <= wake["soc"] + MaxLag /\ clock <= wake["can"] + MaxLag
         /\ wake["soc"] <= clock + SocPeriod /\ wake["can"] <= clock + CanPeriod
<1>1. {"soc", "can"} \subseteq Tasks /\ {"soc", "can"} \subseteq Threads
  BY DEF Tasks, Threads
<1>2. ~Gone("soc") /\ ~Gone("can")
  BY <1>1 DEF Carried, Base, Phases, Gone
<1>3. pc["soc"] \in Running /\ pc["can"] \in Running
  BY <1>1, <1>2, StillRunning
<1> QED
  BY <1>1, <1>3, LongestFacts DEF Timed

LEMMA NextOnItsWay ==
  ASSUME Carried, Base, Timed, Copies, OnItsWay, [Next]_vars
  PROVE  OnItsWay'
<1> SUFFICES ASSUME ~shutdown', tripped' # NoTrip
             PROVE  /\ status' # "SHUTDOWN" => wake'["soc"] <= tripped' + SocPeriod
                    /\ status' = "SHUTDOWN" /\ bus'.state # "SHUTDOWN" =>
                         /\ wake'["can"] <= tripped' + SocPeriod + CanPeriod + 2 * MaxLag
                         /\ pc'["can"] = "send" /\ frame'.state # "SHUTDOWN"
                            => wake'["can"] <= tripped' + SocPeriod + MaxLag
  BY DEF OnItsWay
<1>1. /\ Numbers /\ "soc" \in Tasks /\ "can" \in Tasks /\ "can" \in Threads
      /\ wake["soc"] \in Nat /\ wake["can"] \in Nat
  BY NumbersHold DEF Numbers, Tasks, Threads
<1>2. /\ ~shutdown
      /\ TaskSoc \/ wake'["soc"] = wake["soc"]
      /\ CanSend \/ wake'["can"] = wake["can"]
  BY <1>1, OwnSteps DEF Ends
<1>3. /\ pc["soc"] \in Running /\ pc["can"] \in Running
      /\ clock <= wake["soc"] + MaxLag /\ clock <= wake["can"] + MaxLag
      /\ wake["soc"] <= clock + SocPeriod /\ wake["can"] <= clock + CanPeriod
  BY <1>2, CarriersRun
<1>4. CASE tripped = NoTrip
  <2>1. fm.state # "SHUTDOWN" /\ status # "SHUTDOWN"
    BY <1>4 DEF Copies
  <2>2. TaskFault \/ WatchdogReport
    BY <1>4, Writers
  <2>3. tripped' = clock
    BY <1>4, <2>2 DEF TaskFault, WatchdogReport, NoteTrip
  <2>4. status' = status /\ wake'["soc"] = wake["soc"]
    BY <1>1, <2>2 DEF TaskFault, WatchdogReport, WatchdogDelay, Delay, Numbers, Threads, Tasks
  <2> QED
    BY <1>3, <2>1, <2>3, <2>4
<1>5. CASE tripped # NoTrip
  <2>1. fm.state = "SHUTDOWN" /\ fm' = fm
    BY <1>5, ManagerSteps DEF Copies
  <2>2. tripped' = tripped /\ tripped \in Nat
    <3>1. TaskFault \/ WatchdogReport => tripped' = tripped
      BY <2>1 DEF TaskFault, WatchdogReport, NoteTrip
    <3> QED
      BY <1>5, <3>1, Writers, TasksAssumption DEF Base, Typed
  <2>3. CASE TaskSoc
    <3>1. /\ status' = "SHUTDOWN" /\ wake'["can"] = wake["can"] /\ pc'["can"] = pc["can"]
          /\ frame' = frame /\ bus' = bus
      BY <1>1, <2>1, <2>3 DEF TaskSoc, Delay, locals, Numbers, Threads, Tasks
    <3>2. CASE status = "SHUTDOWN"
      BY <1>2, <1>5, <2>2, <3>1, <3>2 DEF OnItsWay
    <3>3. CASE status # "SHUTDOWN"
      <4>1. clock <= tripped + SocPeriod + MaxLag
        BY <1>1, <1>2, <1>3, <1>5, <2>2, <3>3 DEF OnItsWay, Numbers
      <4>2. pc["can"] = "send" => wake["can"] <= clock
        BY <1>1 DEF Timed, InIteration
      <4> QED
        BY <1>1, <1>3, <2>2, <3>1, <4>1, <4>2 DEF Numbers
    <3> QED
      BY <3>2, <3>3
  <2>4. CASE ~TaskSoc
    <3>1. status' = status /\ wake'["soc"] = wake["soc"]
      BY <1>2, <2>4, Writers
    <3>2. CASE CanSend
      <4>1. /\ pc["can"] = "send" /\ bus'.state = frame.state /\ pc'["can"] = "sleep"
            /\ wake'["can"] = clock + CanPeriod
        BY <1>1, <3>2 DEF CanSend, Delay, Carried, Numbers
      <4>2. ASSUME status = "SHUTDOWN", frame.state # "SHUTDOWN"
            PROVE  wake["can"] <= tripped + SocPeriod + MaxLag
        <5>1. bus.state # "SHUTDOWN"
          BY <4>1, <4>2 DEF Copies
        <5> QED
          BY <1>2, <1>5, <4>1, <4>2, <5>1 DEF OnItsWay
      <4> QED
        BY <1>1, <1>2, <1>3, <1>5, <2>2, <3>1, <4>1, <4>2 DEF OnItsWay, Numbers
    <3>3. CASE CanSnapshot
      <4>1. frame'.state = status /\ bus' = bus /\ wake' = wake
        BY <3>3 DEF CanSnapshot, Goto
      <4> QED
        BY <1>2, <1>5, <2>2, <3>1, <4>1 DEF OnItsWay
    <3>4. CASE ~CanSend /\ ~CanSnapshot
      <4>1. frame' = frame /\ bus' = bus /\ wake'["can"] = wake["can"]
        BY <1>2, <3>4, Writers
      <4>2. pc'["can"] = "send" => pc["can"] = "send"
        BY <1>1, <3>4, SendFollowsSnapshot
      <4> QED
        BY <1>2, <1>5, <2>2, <3>1, <4>1, <4>2 DEF OnItsWay
    <3> QED
      BY <3>2, <3>3, <3>4
  <2> QED
    BY <2>3, <2>4
<1> QED
  BY <1>4, <1>5

(***************************************************************************)
(* The other nodes learn of a SHUTDOWN, and why, one soc period, one can   *)
(* period and three lags after it, for all periods and lags and across the *)
(* wrap of the tick counter, provided both tasks run and no frame is lost. *)
(***************************************************************************)
THEOREM NewsArrives == Carried => (Spec => []ShutdownBroadcast)
<1> SUFFICES ASSUME Carried PROVE Spec => []ShutdownBroadcast
  OBVIOUS
<1>1. Base /\ Timed /\ Copies /\ OnItsWay /\ [Next]_vars => Copies' /\ OnItsWay'
  BY NextCopies, NextOnItsWay
<1>2. Base /\ Timed /\ Copies /\ OnItsWay => ShutdownBroadcast
  <2> SUFFICES ASSUME Base, Timed, Copies, OnItsWay, ~shutdown, tripped # NoTrip,
                      clock - tripped > SocPeriod + CanPeriod + 3 * MaxLag
               PROVE  bus = [state |-> "SHUTDOWN", report |-> Verdict]
    BY DEF ShutdownBroadcast, Verdict
  <2>1. Numbers /\ tripped \in Nat /\ wake["soc"] \in Nat /\ wake["can"] \in Nat
    BY NumbersHold, TasksAssumption DEF Numbers, Base, Typed, Tasks
  <2>2. clock <= wake["soc"] + MaxLag /\ clock <= wake["can"] + MaxLag
    BY CarriersRun
  <2>3. status = "SHUTDOWN"
    BY <2>1, <2>2 DEF OnItsWay, Numbers
  <2>4. bus.state = "SHUTDOWN"
    BY <2>1, <2>2, <2>3 DEF OnItsWay, Numbers
  <2>5. bus \in FrameT /\ bus.report = Verdict
    BY <2>4 DEF Base, Typed, Copies
  <2> QED
    BY <2>4, <2>5 DEF FrameT
<1> QED
  BY <1>1, <1>2, InitCopies, SpecTimed, PTL DEF Spec

-----------------------------------------------------------------------------
(***************************************************************************)
(* The tasks drive the fault manager as FaultManager says its callers do.  *)
(* The operators of the instance are those of this module.                 *)
(***************************************************************************)
LEMMA SameInit == FM!FaultManagerInit = FaultManagerInit
BY DEF FM!FaultManagerInit, FaultManagerInit, FM!ASIL_QM, ASIL_QM

LEMMA SameTicks ==
  /\ FM!Ticks = Ticks
  /\ \A t, d : FM!TickAdd(t, d) = TickAdd(t, d)
  /\ \A t, d : FM!TickSub(t, d) = TickSub(t, d)
BY DEF FM!Ticks, Ticks, FM!TickAdd, TickAdd, FM!TickSub, TickSub

LEMMA SameFaults ==
  /\ \A r : FM!EvaluateHardFaults(r) = EvaluateHardFaults(r)
  /\ \A r : FM!Cleared(r) = Cleared(r)
  /\ \A b : FM!GetSeverity(b) = GetSeverity(b)
  /\ FM!ASIL_D = ASIL_D
<1> USE DEF FM!AnyCellAtLeast, AnyCellAtLeast, FM!AnyCellAtMost, AnyCellAtMost,
     FM!SpreadAtLeast, SpreadAtLeast, FM!HottestAtLeast, HottestAtLeast, FM!FaultBits, FaultBits,
     FM!ASIL_QM, ASIL_QM, FM!ASIL_D, ASIL_D
<1>1. ASSUME NEW r PROVE FM!EvaluateHardFaults(r) = EvaluateHardFaults(r)
  BY DEF FM!EvaluateHardFaults, EvaluateHardFaults
<1>2. ASSUME NEW r PROVE FM!Cleared(r) = Cleared(r)
  BY DEF FM!Cleared, Cleared, FM!Warning, Warning
<1>3. ASSUME NEW b PROVE FM!GetSeverity(b) = GetSeverity(b)
  BY DEF FM!GetSeverity, GetSeverity, FM!Severity, Severity
<1> QED
  BY <1>1, <1>2, <1>3

LEMMA SameHelpers ==
  ASSUME NEW f, NEW r, NEW n
  PROVE  /\ FM!TotalFaults(f, r, n) = TotalFaults(f, r, n)
         /\ FM!EnterFault(f, n) = EnterFault(f, n)
         /\ FM!Escalate(f, n) = Escalate(f, n)
         /\ FM!Debounce(f, r, n) = Debounce(f, r, n)
         /\ \A b : FM!WithActiveFaults(f, b) = WithActiveFaults(f, b)
<1>1. FM!TotalFaults(f, r, n) = TotalFaults(f, r, n)
  BY SameFaults DEF FM!TotalFaults, TotalFaults, FM!WatchdogActive, WatchdogActive
<1>2. FM!EnterFault(f, n) = EnterFault(f, n)
  BY DEF FM!EnterFault, EnterFault, FM!RecordFaultEntry, RecordFaultEntry
<1>3. FM!Escalate(f, n) = Escalate(f, n)
  <2>1. FM!LatchShouldTrip(f, n) <=> LatchShouldTrip(f, n)
    BY DEF FM!LatchShouldTrip, LatchShouldTrip, FM!TickSub, TickSub
  <2> QED
    BY <2>1, SameFaults DEF FM!Escalate, Escalate
<1>4. FM!Debounce(f, r, n) = Debounce(f, r, n)
  BY SameFaults, SameTicks, Zenon DEF FM!Debounce, Debounce
<1>5. ASSUME NEW b PROVE FM!WithActiveFaults(f, b) = WithActiveFaults(f, b)
  BY SameFaults DEF FM!WithActiveFaults, WithActiveFaults
<1> QED
  BY <1>1, <1>2, <1>3, <1>4, <1>5

LEMMA SameEvaluate ==
  ASSUME NEW f, NEW r, NEW n
  PROVE  FM!FaultManagerEvaluate(f, r, n) = FaultManagerEvaluate(f, r, n)
<1> DEFINE g == WithActiveFaults(f, TotalFaults(f, r, n))
<1>1. FM!TotalFaults(f, r, n) = TotalFaults(f, r, n)
  BY SameHelpers
<1>2. FM!WithActiveFaults(f, TotalFaults(f, r, n)) = g
  BY SameHelpers
<1>3. FM!Escalate(FM!EnterFault(g, n), n) = Escalate(EnterFault(g, n), n)
  BY SameHelpers
<1>4. FM!Debounce(g, r, n) = Debounce(g, r, n) /\ FM!Cleared(r) = Cleared(r)
  BY SameHelpers, SameFaults
<1> QED
  BY <1>1, <1>2, <1>3, <1>4, Zenon DEF FM!FaultManagerEvaluate, FaultManagerEvaluate

LEMMA SameReport ==
  ASSUME NEW f, NEW n
  PROVE  FM!FaultManagerReportWatchdogFault(f, n) = FaultManagerReportWatchdogFault(f, n)
<1> DEFINE g == [f EXCEPT !.watchdog_fault_until_ms = TickAdd(n, DebounceMs)]
           h == WithActiveFaults(g, g.active_faults \cup {"TASK_WATCHDOG"})
<1>1. FM!TickAdd(n, DebounceMs) = TickAdd(n, DebounceMs)
  BY SameTicks
<1>2. FM!WithActiveFaults(g, g.active_faults \cup {"TASK_WATCHDOG"}) = h
  BY SameHelpers
<1>3. FM!Escalate(FM!EnterFault(h, n), n) = Escalate(EnterFault(h, n), n)
  BY SameHelpers
<1> QED
  BY <1>1, <1>2, <1>3, Zenon DEF FM!FaultManagerReportWatchdogFault, FaultManagerReportWatchdogFault

(* The fault task's next sample is at most MaxGap after its last one. *)
LEMMA SampleGap ==
  ASSUME NoWrap, Base, Timed, Samples, Begin("fault"), ~shutdown
  PROVE  /\ now'["fault"] = clock /\ hb' = hb /\ hb["fault"] = now["fault"]
         /\ now["fault"] <= clock /\ clock <= now["fault"] + (FaultPeriod + 2 * MaxLag)
<1>1. Numbers /\ tick = clock /\ "fault" \in Threads /\ pc["fault"] = "sleep"
  BY NumbersHold, TickIsClock DEF Begin, Threads, Tasks
<1>2. now'["fault"] = clock /\ hb' = hb
  BY <1>1 DEF Begin, ctx, Numbers
<1>3. clock <= wake["fault"] + MaxLag
  BY <1>1 DEF Timed, Running
<1> QED
  BY <1>1, <1>2, <1>3 DEF Samples, Running, Numbers, Tasks

LEMMA TasksStep ==
  ASSUME NoWrap, Base, Timed, Samples, [Next]_vars
  PROVE  [FM!Next]_(FM!vars)
<1> DEFINE Gap == now["fault"] - hb["fault"]
<1>1. /\ Numbers /\ fm \in FaultManagerT /\ reading \in Readings
      /\ hb["fault"] \in Nat /\ now["fault"] \in Ticks /\ now["watchdog"] \in Ticks
  BY NumbersHold DEF Base, Typed, Numbers, Monitored
<1>2. ASSUME UNCHANGED <<fm, reading>>, now'["fault"] = now["fault"], hb'["fault"] = hb["fault"]
      PROVE  UNCHANGED FM!vars
  BY <1>2 DEF FM!vars
<1>3. CASE Begin("fault") /\ ~shutdown
  <2>1. /\ now'["fault"] = clock /\ hb' = hb /\ hb["fault"] = now["fault"]
        /\ now["fault"] <= clock /\ clock <= now["fault"] + (FaultPeriod + 2 * MaxLag)
    BY <1>3, SampleGap
  <2>2. UNCHANGED <<fm, reading>>
    BY <1>3 DEF Begin, ctx
  <2>3. CASE clock = now["fault"]
    BY <1>2, <2>1, <2>2, <2>3
  <2>4. CASE clock # now["fault"]
    <3> DEFINE d == clock - now["fault"]
    <3>1. d \in 1 .. (FaultPeriod + 2 * MaxLag) - Gap
      BY <1>1, <2>1, <2>4 DEF Numbers
    <3>2. now'["fault"] = FM!TickAdd(now["fault"], d)
      <4>1. clock \in Ticks /\ now["fault"] + d = clock
        <5>1. clock \in Ticks
          BY TickAssumption, TasksAssumption DEF NoWrap, Base, Typed, Ticks
        <5> QED
          BY <1>1, <5>1 DEF Numbers
      <4>2. TickAdd(now["fault"], d) = clock
        BY <4>1, LowWordExact DEF TickAdd
      <4> QED
        BY <2>1, <4>2, SameTicks
    <3>3. now'["fault"] - hb'["fault"] = Gap + d
      BY <1>1, <2>1 DEF Numbers
    <3>4. FM!Advance
      BY <2>2, <3>1, <3>2, <3>3 DEF FM!Advance
    <3> QED
      BY <3>4 DEF FM!Next
  <2> QED
    BY <2>3, <2>4
<1>4. CASE TaskSensor
  <2>1. reading' \in Readings /\ fm' = fm /\ now' = now /\ hb'["fault"] = hb["fault"]
    BY <1>1, <1>4 DEF TaskSensor, locals, Numbers, Monitored
  <2>2. FM!Publish
    BY <2>1 DEF FM!Publish
  <2> QED
    BY <2>2 DEF FM!Next
<1>5. CASE TaskFault
  <2>1. /\ fm' = FaultManagerEvaluate(fm, reading, now["fault"])
        /\ reading' = reading /\ now' = now /\ hb'["fault"] = now["fault"]
    BY <1>1, <1>5 DEF TaskFault, locals, Numbers, Monitored
  <2>2. now'["fault"] - hb'["fault"] = 0
    BY <1>1, <2>1 DEF Numbers
  <2>3. FM!Evaluate
    BY <2>1, <2>2, SameEvaluate DEF FM!Evaluate
  <2> QED
    BY <2>3 DEF FM!Next
<1>6. CASE WatchdogReport
  <2>1. /\ fm' = FaultManagerReportWatchdogFault(fm, now["watchdog"])
        /\ reading' = reading /\ hb' = hb /\ now'["fault"] = now["fault"]
    BY <1>1, <1>6 DEF WatchdogReport, WatchdogDelay, Numbers
  <2>2. FM!ReportWatchdogFault
    BY <1>1, <2>1, SameReport, SameTicks DEF FM!ReportWatchdogFault
  <2> QED
    BY <2>2 DEF FM!Next
<1>7. CASE ~(Begin("fault") /\ ~shutdown) /\ ~TaskSensor /\ ~TaskFault /\ ~WatchdogReport
  <2>1. UNCHANGED <<fm, reading>> /\ hb'["fault"] = hb["fault"]
    BY <1>7, Writers
  <2>2. now'["fault"] = now["fault"]
    <3>1. ASSUME NEW t \in Tasks, Begin(t) PROVE now'["fault"] = now["fault"]
      BY <1>1, <1>7, <3>1 DEF Begin, Numbers
    <3>2. ASSUME NEW t \in Tasks, Hang(t) PROVE now' = now
      BY <3>2 DEF Hang, locals
    <3>3. CASE TaskSoc \/ CanSnapshot \/ CanSend
      BY <3>3 DEF TaskSoc, CanSnapshot, CanSend, locals
    <3>4. CASE WatchdogStart \/ WatchdogSnapshot
      BY <1>1, <3>4 DEF WatchdogStart, WatchdogSnapshot, WatchdogDelay, locals, Numbers
    <3>5. CASE MainRequestShutdown \/ MainJoin \/ Tick \/ UNCHANGED vars
      BY <3>5 DEF MainRequestShutdown, MainJoin, Tick, vars, locals
    <3> QED
      BY <1>7, <3>1, <3>2, <3>3, <3>4, <3>5 DEF Next, Over, Watchdog
  <2> QED
    BY <1>2, <2>1, <2>2
<1> QED
  BY <1>3, <1>4, <1>5, <1>6, <1>7

(***************************************************************************)
(* The tasks implement FaultManager: every behaviour of the system, in a   *)
(* run that ends before the tick wraps, drives the fault manager of the    *)
(* context as that module says, so what is proved of FaultManager holds of *)
(* the context.                                                            *)
(***************************************************************************)
THEOREM TasksDriveManager == NoWrap => (Spec => ImplementsFaultManager)
<1> SUFFICES ASSUME NoWrap PROVE Spec => ImplementsFaultManager
  OBVIOUS
<1>1. Init => FM!Init
  <2> SUFFICES ASSUME Init PROVE FM!Init
    OBVIOUS
  <2>1. fm = FaultManagerInit /\ reading = FirstReading /\ now["fault"] = 0 /\ hb["fault"] = 0
    BY DEF Init, AppContextInit, Monitored
  <2> QED
    BY <2>1, SameInit DEF FM!Init
<1>2. Base /\ Timed /\ Samples /\ [Next]_vars => [FM!Next]_(FM!vars)
  BY TasksStep
<1> QED
  BY <1>1, <1>2, SpecSamples, PTL DEF Spec, ImplementsFaultManager, FM!Spec
===============================================================================
