----------------------------- MODULE FaultHistory -----------------------------
(***************************************************************************)
(* FaultManager with history variables: the true time, which never wraps,  *)
(* and what the fault manager has seen so far.  The code keeps only the    *)
(* last LatchCount entry ticks and one debounce tick; the history is what  *)
(* those few words of state are supposed to summarise.                     *)
(***************************************************************************)
EXTENDS FaultManager, Sequences

CONSTANT MaxClock  \* bound: the last instant of the run

ASSUME ClockAssumption == MaxClock \in Nat

VARIABLES
  clock,    \* true milliseconds since boot; tick is its low word
  entries,  \* the true time of every entry into FAULT, oldest first
  okSince   \* when the run of fault-free evaluations began, NotOk if none

hvars == <<fm, reading, tick, gap, clock, entries, okSince>>

NotOk == -1

HTypeOK ==
  /\ TypeOK
  /\ clock \in 0 .. MaxClock
  /\ tick = clock % TickMod
  /\ entries \in Seq(0 .. MaxClock)
  /\ okSince \in {NotOk} \cup (0 .. MaxClock)

HInit ==
  /\ Init
  /\ clock = 0
  /\ entries = <<>>
  /\ okSince = NotOk

(* A new episode is a step from a quiet state into FAULT or beyond. *)
Observe ==
  entries' = IF fm.state \in Quiet /\ fm'.state \notin Quiet
             THEN Append(entries, clock) ELSE entries

HPublish ==
  /\ Publish
  /\ UNCHANGED <<clock, entries, okSince>>

HEvaluate ==
  /\ Evaluate
  /\ Observe
  /\ okSince' = IF TotalFaults(fm, reading, tick) # {} THEN NotOk
                ELSE IF okSince = NotOk THEN clock ELSE okSince
  /\ UNCHANGED clock

HReportWatchdogFault ==
  /\ ReportWatchdogFault
  /\ Observe
  /\ okSince' = NotOk
  /\ UNCHANGED clock

HAdvance ==
  /\ Advance
  /\ clock' = clock + (gap' - gap)
  /\ clock' <= MaxClock
  /\ UNCHANGED <<entries, okSince>>

HNext == HPublish \/ HEvaluate \/ HReportWatchdogFault \/ HAdvance

HSpec == HInit /\ [][HNext]_hvars

-----------------------------------------------------------------------------
(* LatchCount consecutive entries ending with the k-th lie inside the window. *)
LatchedAt(k) ==
  /\ k >= LatchCount
  /\ entries[k] - entries[k - LatchCount + 1] <= LatchWindowMs

(***************************************************************************)
(* The pack is never shut down without cause: SHUTDOWN means an ASIL D     *)
(* fault is active, or the last LatchCount episodes truly happened within  *)
(* the latch window (latch_should_trip judges by wrapped tick differences  *)
(* out of a shifted ring).                                                 *)
(***************************************************************************)
ShutdownJustified ==
  fm.state = "SHUTDOWN" => fm.severity = ASIL_D \/ LatchedAt(Len(entries))

(***************************************************************************)
(* What is true of it: the pack is not shut down without cause until the   *)
(* tick counter has wrapped (2^32 ms, 49.7 days).                          *)
(***************************************************************************)
JustifiedUntilWrap == clock < TickMod => ShutdownJustified

(***************************************************************************)
(* No latch is missed: while the pack runs, no LatchCount consecutive      *)
(* episodes of its whole history fell within the window, however far back  *)
(* record_fault_entry has shifted them out of the ring.                    *)
(***************************************************************************)
LatchComplete ==
  fm.state # "SHUTDOWN" => \A k \in 1 .. Len(entries) : ~LatchedAt(k)

(***************************************************************************)
(* FAULT is left for WARNING or NORMAL only after every evaluation of the  *)
(* last DebounceMs milliseconds was fault free: a fault seen in between    *)
(* restarts the debounce (last_ok_tick_ms).                                *)
(***************************************************************************)
ClearOnlyAfterDebounce ==
  [][fm.state = "FAULT" /\ fm'.state \in Quiet
       => okSince # NotOk /\ clock - okSince >= DebounceMs]_hvars

(***************************************************************************)
(* FAULT is not a trap: a pack whose evaluations have been fault free is   *)
(* still in FAULT only while the debounce runs, until the next evaluation. *)
(* The tick may wrap meanwhile; since last_ok_tick_ms = 0 doubles as "not  *)
(* started", a debounce that begins at tick 0 begins one evaluation late.  *)
(***************************************************************************)
DebounceLate == IF okSince % TickMod = 0 THEN MaxGap ELSE 0

RecoversInTime ==
  fm.state = "FAULT" /\ okSince # NotOk =>
    clock - okSince < DebounceMs + MaxGap + DebounceLate

(***************************************************************************)
(* What the CAN task publishes is coherent whichever of the two callers    *)
(* wrote last: severity is that of active_faults, an active fault never    *)
(* coexists with NORMAL or WARNING, and an ASIL D fault is never left in   *)
(* plain FAULT from where it could auto-clear.                             *)
(***************************************************************************)
ProtectiveState ==
  /\ fm.severity = GetSeverity(fm.active_faults)
  /\ fm.active_faults # {} => fm.state \notin Quiet
  /\ fm.severity = ASIL_D => fm.state = "SHUTDOWN"

(***************************************************************************)
(* The watchdog hold of fault_manager_evaluate (watchdog_active) never     *)
(* decides anything: once watchdog_fault_until_ms is set the manager is    *)
(* already latched in SHUTDOWN, and evaluate returns before reading it.    *)
(***************************************************************************)
WatchdogHoldUnused ==
  fm.state # "SHUTDOWN" =>
    /\ fm.watchdog_fault_until_ms = 0
    /\ "TASK_WATCHDOG" \notin fm.active_faults

(***************************************************************************)
(* SHUTDOWN is latched: neither caller changes anything any more, so the   *)
(* faults that caused it stay readable until service.                      *)
(***************************************************************************)
ShutdownLatched ==
  [][fm.state = "SHUTDOWN" => fm' = fm]_hvars

-----------------------------------------------------------------------------
(***************************************************************************)
(* The inductive invariant behind LatchComplete, ClearOnlyAfterDebounce    *)
(* and ShutdownJustified: the few words of state the code keeps do         *)
(* summarise the history.                                                  *)
(***************************************************************************)

(* The history lies in the past. *)
HistoryInPast ==
  /\ \A i \in 1 .. Len(entries) : entries[i] <= clock
  /\ okSince <= clock

(* The ring holds the low words of the last entries, oldest first. *)
RingHoldsLast ==
  LET n == fm.fault_entry_count IN
  fm.state # "SHUTDOWN" =>
    /\ n = IF Len(entries) < LatchCount THEN Len(entries) ELSE LatchCount
    /\ \A i \in 1 .. n :
         fm.fault_entry_ticks_ms[i] = entries[Len(entries) - n + i] % TickMod

(* last_ok_tick_ms is set only in FAULT and never claims more fault-free    *)
(* time than there was.                                                     *)
DebounceTracks ==
  /\ fm.state \in Quiet => fm.last_ok_tick_ms = 0
  /\ fm.state = "FAULT" /\ fm.last_ok_tick_ms # 0 =>
       okSince # NotOk /\ TickSub(tick, fm.last_ok_tick_ms) <= clock - okSince

(***************************************************************************)
(* The state fault_manager_t keeps (ring, count, debounce tick, severity)  *)
(* summarises the whole history, across wraps of the tick counter.         *)
(***************************************************************************)
IInv ==
  /\ HTypeOK
  /\ ProtectiveState
  /\ WatchdogHoldUnused
  /\ HistoryInPast
  /\ RingHoldsLast
  /\ DebounceTracks
  /\ LatchComplete
===============================================================================
