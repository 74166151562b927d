-------------------------- MODULE FaultManagerProofs --------------------------
(***************************************************************************)
(* Proofs about FaultManager and FaultHistory, for every pack size, every  *)
(* threshold, every debounce time, window and latch count, and readings    *)
(* without bound.                                                          *)
(***************************************************************************)
EXTENDS FaultHistory, FaultManagerLemmas, TLAPS

-----------------------------------------------------------------------------
(***************************************************************************)
(* The inductive invariant.                                                *)
(***************************************************************************)

(* The boot state has no history. *)
LEMMA InitIInv == HInit => IInv
<1> SUFFICES ASSUME HInit PROVE IInv
  OBVIOUS
<1> USE DEF HInit, Init
<1>1. /\ fm.state = "NORMAL" /\ fm.active_faults = {} /\ fm.severity = ASIL_QM
      /\ fm.last_ok_tick_ms = 0 /\ fm.watchdog_fault_until_ms = 0
      /\ fm.fault_entry_ticks_ms = [i \in 1 .. LatchCount |-> 0]
      /\ fm.fault_entry_count = 0
  BY DEF FaultManagerInit
<1>2. fm \in FaultManagerT
  <2>1. 0 \in Ticks /\ 0 \in 0 .. LatchCount /\ ASIL_QM \in Asil
    BY TickAssumption, LatchAssumption DEF Ticks, Asil, ASIL_QM, ASIL_D
  <2> QED
    BY <2>1 DEF FaultManagerInit, FaultManagerT, States
<1>3. HTypeOK
  BY <1>2, TickAssumption, ReadingsAssumption, GapAssumption, ClockAssumption
     DEF HTypeOK, TypeOK, Ticks, NotOk
<1>4. ProtectiveState /\ WatchdogHoldUnused
  BY <1>1, GetSeverityNone DEF ProtectiveState, WatchdogHoldUnused, ASIL_QM, ASIL_D
<1>5. HistoryInPast /\ RingHoldsLast /\ DebounceTracks /\ LatchComplete
  BY <1>1, LatchAssumption
     DEF HistoryInPast, RingHoldsLast, DebounceTracks, LatchComplete, NotOk, Quiet
<1> QED
  BY <1>3, <1>4, <1>5 DEF IInv

(* Appending one entry: the new history, its past and its latches. *)
LEMMA AppendEntry ==
  ASSUME IInv, entries' = Append(entries, clock), clock' = clock
  PROVE  /\ entries' \in Seq(0 .. MaxClock)
         /\ Len(entries') = Len(entries) + 1
         /\ \A i \in 1 .. Len(entries) : entries'[i] = entries[i]
         /\ entries'[Len(entries) + 1] = clock
         /\ \A i \in 1 .. Len(entries') : entries'[i] \in 0 .. MaxClock /\ entries'[i] <= clock
BY ClockAssumption DEF IInv, HTypeOK, HistoryInPast

(* Recording an entry keeps the ring equal to the tail of the history. *)
LEMMA RecordKeepsRing ==
  ASSUME IInv, fm.state \in Quiet, NEW g \in FaultManagerT, RingAfter(fm, g, tick),
         entries' = Append(entries, clock), clock' = clock
  PROVE  /\ g.fault_entry_count =
              IF Len(entries') < LatchCount THEN Len(entries') ELSE LatchCount
         /\ \A i \in 1 .. g.fault_entry_count :
              g.fault_entry_ticks_ms[i] =
                entries'[Len(entries') - g.fault_entry_count + i] % TickMod
<1> DEFINE n == fm.fault_entry_count
           L == Len(entries)
<1>0. /\ Len(entries') = L + 1
      /\ \A i \in 1 .. L : entries'[i] = entries[i]
      /\ entries'[L + 1] = clock
  BY AppendEntry
<1>1. /\ n = IF L < LatchCount THEN L ELSE LatchCount
      /\ \A i \in 1 .. n :
           fm.fault_entry_ticks_ms[i] = entries[L - n + i] % TickMod
  BY DEF IInv, RingHoldsLast, Quiet
<1>2. n \in 0 .. LatchCount /\ fm.fault_entry_ticks_ms \in [1 .. LatchCount -> Ticks]
  BY DEF IInv, HTypeOK, TypeOK, FaultManagerT
<1>3. fm.state # "FAULT" /\ tick = clock % TickMod /\ L \in Nat
  BY DEF IInv, HTypeOK, Quiet
<1> HIDE DEF n, L
<1>4. CASE n < LatchCount
  <2>1. /\ g.fault_entry_count = n + 1
        /\ g.fault_entry_ticks_ms = [fm.fault_entry_ticks_ms EXCEPT ![n + 1] = tick]
    BY <1>3, <1>4 DEF RingAfter, n
  <2>2. n = L
    BY <1>1, <1>3, <1>4, LatchAssumption
  <2>3. ASSUME NEW i \in 1 .. n + 1
        PROVE  g.fault_entry_ticks_ms[i] = entries'[i] % TickMod
    <3>1. CASE i = n + 1
      <4>1. g.fault_entry_ticks_ms[i] = tick
        BY <1>2, <1>4, <2>1, <3>1, LatchAssumption
      <4> QED
        BY <1>0, <1>3, <2>2, <3>1, <4>1
    <3>2. CASE i \in 1 .. n
      <4>1. g.fault_entry_ticks_ms[i] = fm.fault_entry_ticks_ms[i]
        BY <1>2, <1>4, <2>1, <3>2, LatchAssumption
      <4>2. L - n + i = i /\ entries'[i] = entries[i]
        BY <1>0, <1>2, <1>3, <2>2, <3>2
      <4> QED
        BY <1>1, <3>2, <4>1, <4>2
    <3>3. i = n + 1 \/ i \in 1 .. n
      BY <1>2
    <3> QED
      BY <3>1, <3>2, <3>3, Zenon
  <2>4. Len(entries') - g.fault_entry_count = 0 /\ Len(entries') <= LatchCount
    BY <1>0, <1>2, <1>3, <1>4, <2>1, <2>2, LatchAssumption
  <2>5. g.fault_entry_count = IF Len(entries') < LatchCount THEN Len(entries') ELSE LatchCount
    BY <1>0, <1>2, <1>3, <1>4, <2>1, <2>2, <2>4, LatchAssumption
  <2>6. ASSUME NEW i \in 1 .. g.fault_entry_count
        PROVE  g.fault_entry_ticks_ms[i] =
                 entries'[Len(entries') - g.fault_entry_count + i] % TickMod
    <3>1. i \in 1 .. n + 1
      BY <2>1
    <3>2. Len(entries') - g.fault_entry_count + i = i
      BY <1>2, <2>4, <3>1
    <3> QED
      BY <2>3, <3>1, <3>2, Zenon
  <2> QED
    BY <2>5, <2>6, Zenon
<1>5. CASE n = LatchCount
  <2>1. /\ g.fault_entry_count = LatchCount
        /\ g.fault_entry_ticks_ms =
             [i \in 1 .. LatchCount |->
                IF i < LatchCount THEN fm.fault_entry_ticks_ms[i + 1] ELSE tick]
    BY <1>3, <1>5 DEF RingAfter, n
  <2>2. L >= LatchCount
    BY <1>1, <1>3, <1>5, LatchAssumption
  <2>3. ASSUME NEW i \in 1 .. LatchCount
        PROVE  g.fault_entry_ticks_ms[i] = entries'[L + 1 - LatchCount + i] % TickMod
    <3>1. CASE i < LatchCount
      <4>1. /\ g.fault_entry_ticks_ms[i] = fm.fault_entry_ticks_ms[i + 1]
            /\ i + 1 \in 1 .. n
        BY <1>5, <2>1, <3>1, LatchAssumption
      <4>2. fm.fault_entry_ticks_ms[i + 1] = entries[L - n + (i + 1)] % TickMod
        BY <1>1, <4>1
      <4>3. /\ L - n + (i + 1) = L + 1 - LatchCount + i
            /\ L - n + (i + 1) \in 1 .. L
        BY <1>3, <1>5, <2>2, <3>1, LatchAssumption
      <4> QED
        BY <1>0, <4>1, <4>2, <4>3
    <3>2. CASE i = LatchCount
      <4>1. g.fault_entry_ticks_ms[i] = tick
        BY <2>1, <3>2, LatchAssumption
      <4>2. L + 1 - LatchCount + i = L + 1
        BY <1>3, <3>2, LatchAssumption
      <4> QED
        BY <1>0, <1>3, <4>1, <4>2
    <3>3. i < LatchCount \/ i = LatchCount
      BY LatchAssumption
    <3> QED
      BY <3>1, <3>2, <3>3, Zenon
  <2>4. ~(Len(entries') < LatchCount) /\ Len(entries') = L + 1
    BY <1>0, <1>3, <2>2, LatchAssumption
  <2>5. g.fault_entry_count =
          IF Len(entries') < LatchCount THEN Len(entries') ELSE LatchCount
    BY <2>1, <2>4, Zenon
  <2>6. ASSUME NEW i \in 1 .. g.fault_entry_count
        PROVE  g.fault_entry_ticks_ms[i] =
                 entries'[Len(entries') - g.fault_entry_count + i] % TickMod
    <3>1. i \in 1 .. LatchCount /\ Len(entries') - g.fault_entry_count = L + 1 - LatchCount
      BY <1>3, <2>1, <2>4, LatchAssumption
    <3> QED
      BY <2>3, <3>1, Zenon
  <2> QED
    BY <2>5, <2>6, Zenon
<1>6. n < LatchCount \/ n = LatchCount
  BY <1>2, LatchAssumption
<1> QED
  BY <1>4, <1>5, <1>6, Zenon

(* An entry that does not trip the latch completes no burst: a burst within *)
(* the window shows in the low words too, because the window fits in a tick. *)
LEMMA NoBurstMissed ==
  ASSUME IInv, fm.state \in Quiet, NEW g \in FaultManagerT, RingAfter(fm, g, tick),
         entries' = Append(entries, clock), clock' = clock, ~LatchShouldTrip(g, tick),
         NEW k \in 1 .. Len(entries')
  PROVE  ~LatchedAt(k)'
<1> DEFINE L == Len(entries)
           e == entries'[k - LatchCount + 1]
<1> SUFFICES ASSUME k >= LatchCount, entries'[k] - e <= LatchWindowMs
             PROVE  FALSE
  BY DEF LatchedAt
<1>1. /\ Len(entries') = L + 1
      /\ \A i \in 1 .. L : entries'[i] = entries[i]
      /\ entries'[L + 1] = clock
      /\ \A i \in 1 .. L + 1 : entries'[i] \in 0 .. MaxClock /\ entries'[i] <= clock
      /\ L \in Nat
  <2>1. L \in Nat
    BY DEF IInv, HTypeOK
  <2> QED
    BY <2>1, AppendEntry
<1>2. k - LatchCount + 1 \in 1 .. L + 1 /\ k \in 1 .. L + 1
  BY <1>1, LatchAssumption
<1>3. CASE k <= L
  <2>1. entries'[k] = entries[k] /\ e = entries[k - LatchCount + 1] /\ k \in 1 .. L
    BY <1>1, <1>2, <1>3, LatchAssumption
  <2> QED
    BY <2>1 DEF IInv, LatchComplete, LatchedAt, Quiet
<1>4. CASE k = L + 1
  <2>1. e \in Nat /\ e <= clock /\ clock \in Nat /\ clock - e <= LatchWindowMs
    <3>1. entries'[k] = clock
      BY <1>1, <1>4
    <3>2. e \in 0 .. MaxClock /\ e <= clock
      BY <1>1, <1>2
    <3>3. clock \in 0 .. MaxClock
      BY DEF IInv, HTypeOK
    <3> HIDE DEF e
    <3> QED
      BY <3>1, <3>2, <3>3, ClockAssumption
  <2>2. clock - e < TickMod
    <3> HIDE DEF e
    <3> QED
      BY <2>1, TickAssumption
  <2>3. TickSub(clock % TickMod, e % TickMod) = clock - e
    <3> HIDE DEF e
    <3> QED
      BY <2>1, <2>2, TickSubLowWords
  <2>4. g.fault_entry_count = LatchCount /\ g.fault_entry_ticks_ms[1] = e % TickMod
    <3>1. g.fault_entry_count = IF L + 1 < LatchCount THEN L + 1 ELSE LatchCount
      BY <1>1, RecordKeepsRing
    <3>2. g.fault_entry_count = LatchCount
      BY <1>1, <1>4, <3>1, LatchAssumption
    <3>3. g.fault_entry_ticks_ms[1] =
            entries'[Len(entries') - g.fault_entry_count + 1] % TickMod
      <4>1. 1 \in 1 .. g.fault_entry_count
        BY <3>2, LatchAssumption
      <4> QED
        BY <4>1, RecordKeepsRing, Zenon
    <3>4. Len(entries') - g.fault_entry_count + 1 = k - LatchCount + 1
      BY <1>1, <1>4, <3>2, LatchAssumption
    <3> QED
      BY <3>2, <3>3, <3>4, Zenon
  <2>5. tick = clock % TickMod
    BY DEF IInv, HTypeOK
  <2>6. TickSub(tick, g.fault_entry_ticks_ms[1]) <= LatchWindowMs
    <3> HIDE DEF e
    <3> QED
      BY <2>1, <2>3, <2>4, <2>5
  <2> QED
    BY <2>4, <2>6 DEF LatchShouldTrip
<1> QED
  BY <1>1, <1>2, <1>3, <1>4

(* fault_manager_evaluate on a faulty reading keeps the invariant. *)
LEMMA EvaluateFaultyIInv ==
  ASSUME IInv, HEvaluate, fm.state # "SHUTDOWN", TotalFaults(fm, reading, tick) # {}
  PROVE  IInv'
<1>1. /\ fm \in FaultManagerT /\ tick \in Ticks
      /\ fm' = FaultManagerEvaluate(fm, reading, tick)
      /\ clock' = clock /\ tick' = tick /\ reading' = reading /\ gap' = 0
      /\ okSince' = NotOk
  BY DEF HEvaluate, Evaluate, IInv, HTypeOK, TypeOK
<1>2. /\ fm' \in FaultManagerT
      /\ fm'.active_faults = TotalFaults(fm, reading, tick)
      /\ fm'.severity = GetSeverity(TotalFaults(fm, reading, tick))
      /\ fm'.last_ok_tick_ms = 0
      /\ fm'.watchdog_fault_until_ms = fm.watchdog_fault_until_ms
      /\ RingAfter(fm, fm', tick)
      /\ fm'.state = IF fm'.severity >= ASIL_D \/ LatchShouldTrip(fm', tick)
                     THEN "SHUTDOWN" ELSE "FAULT"
  BY <1>1, EvaluateFaulty
<1>3. fm.state \in Quiet \/ fm.state = "FAULT"
  BY <1>1 DEF FaultManagerT, States, Quiet
<1>4. fm'.state \notin Quiet
  BY <1>2 DEF Quiet
<1>5. ProtectiveState'
  BY <1>2, <1>4 DEF ProtectiveState, ASIL_D
<1>6. WatchdogHoldUnused'
  <2>1. fm.watchdog_fault_until_ms = 0
    BY DEF IInv, WatchdogHoldUnused
  <2>2. "TASK_WATCHDOG" \notin TotalFaults(fm, reading, tick)
    BY <2>1 DEF TotalFaults, WatchdogActive, EvaluateHardFaults
  <2> QED
    BY <1>2, <2>1, <2>2 DEF WatchdogHoldUnused
<1>7. DebounceTracks'
  BY <1>2, <1>4 DEF DebounceTracks
<1>8. CASE fm.state \in Quiet
  <2>1. entries' = Append(entries, clock)
    BY <1>4, <1>8 DEF HEvaluate, Observe
  <2>2. HTypeOK'
    BY <1>1, <1>2, <2>1, AppendEntry, GapAssumption DEF HTypeOK, TypeOK, IInv
  <2>3. HistoryInPast'
    <3>1. okSince' <= clock'
      BY <1>1 DEF NotOk, IInv, HTypeOK
    <3> QED
      BY <1>1, <2>1, <3>1, AppendEntry DEF HistoryInPast
  <2>4. RingHoldsLast'
    BY <1>1, <1>2, <1>8, <2>1, RecordKeepsRing, Zenon DEF RingHoldsLast
  <2>5. LatchComplete'
    <3> SUFFICES ASSUME fm'.state # "SHUTDOWN", NEW k \in 1 .. Len(entries')
                 PROVE  ~LatchedAt(k)'
      BY DEF LatchComplete
    <3>1. ~LatchShouldTrip(fm', tick)
      BY <1>2
    <3> QED
      BY <1>1, <1>2, <1>8, <2>1, <3>1, NoBurstMissed
  <2> QED
    BY <1>5, <1>6, <1>7, <2>2, <2>3, <2>4, <2>5 DEF IInv
<1>9. CASE fm.state = "FAULT"
  <2>1. entries' = entries
    BY <1>9 DEF HEvaluate, Observe, Quiet
  <2>2. HTypeOK'
    BY <1>1, <1>2, <2>1, GapAssumption DEF HTypeOK, TypeOK, IInv
  <2>3. HistoryInPast'
    BY <1>1, <2>1 DEF HistoryInPast, IInv, HTypeOK, NotOk
  <2>4. RingHoldsLast'
    <3>1. /\ fm'.fault_entry_count = fm.fault_entry_count
          /\ fm'.fault_entry_ticks_ms = fm.fault_entry_ticks_ms
      BY <1>2, <1>9 DEF RingAfter
    <3> QED
      BY <2>1, <3>1, Zenon DEF RingHoldsLast, IInv
  <2>5. LatchComplete'
    BY <2>1 DEF LatchComplete, LatchedAt, IInv
  <2> QED
    BY <1>5, <1>6, <1>7, <2>2, <2>3, <2>4, <2>5 DEF IInv
<1> QED
  BY <1>3, <1>8, <1>9

(* fault_manager_evaluate on a fault-free reading keeps the invariant, and  *)
(* leaves FAULT only after the debounce time.                               *)
LEMMA EvaluateCleanIInv ==
  ASSUME IInv, HEvaluate, fm.state # "SHUTDOWN", TotalFaults(fm, reading, tick) = {}
  PROVE  /\ IInv'
         /\ fm.state = "FAULT" /\ fm'.state \in Quiet
              => okSince # NotOk /\ clock - okSince >= DebounceMs
<1>1. /\ fm \in FaultManagerT /\ tick \in Ticks
      /\ fm' = FaultManagerEvaluate(fm, reading, tick)
      /\ clock' = clock /\ tick' = tick /\ reading' = reading /\ gap' = 0
      /\ okSince' = IF okSince = NotOk THEN clock ELSE okSince
  BY DEF HEvaluate, Evaluate, IInv, HTypeOK, TypeOK
<1> DEFINE f == fm
           g == fm'
<1>2. /\ g \in FaultManagerT
      /\ g.active_faults = {}
      /\ g.severity = ASIL_QM
      /\ g.watchdog_fault_until_ms = f.watchdog_fault_until_ms
      /\ g.fault_entry_ticks_ms = f.fault_entry_ticks_ms
      /\ g.fault_entry_count = f.fault_entry_count
      /\ \/ /\ f.state \in Quiet /\ g.state \in Quiet
            /\ g.last_ok_tick_ms = f.last_ok_tick_ms
         \/ /\ f.state = "FAULT" /\ g.state = "FAULT"
            /\ f.last_ok_tick_ms = 0 /\ g.last_ok_tick_ms = tick
         \/ /\ f.state = "FAULT" /\ g.state \in Quiet
            /\ f.last_ok_tick_ms # 0 /\ g.last_ok_tick_ms = 0
            /\ TickSub(tick, f.last_ok_tick_ms) >= DebounceMs
         \/ /\ f.state = "FAULT" /\ g.state = "FAULT"
            /\ f.last_ok_tick_ms # 0 /\ g.last_ok_tick_ms = f.last_ok_tick_ms
  BY <1>1, EvaluateClean
<1>3. entries' = entries
  BY <1>2 DEF HEvaluate, Observe, Quiet
<1>4. HTypeOK'
  BY <1>1, <1>2, <1>3, GapAssumption DEF HTypeOK, TypeOK, IInv
<1>5. ProtectiveState' /\ WatchdogHoldUnused'
  BY <1>2, GetSeverityNone DEF ProtectiveState, WatchdogHoldUnused, IInv, ASIL_QM, ASIL_D
<1>6. HistoryInPast'
  BY <1>1, <1>3 DEF HistoryInPast, IInv, HTypeOK
<1>7. RingHoldsLast'
  BY <1>2, <1>3, Zenon DEF RingHoldsLast, IInv
<1>8. LatchComplete'
  BY <1>3 DEF LatchComplete, LatchedAt, IInv
<1>9. DebounceTracks'
  <2>1. CASE g.state \in Quiet
    BY <1>2, <2>1 DEF DebounceTracks, IInv, Quiet
  <2>2. CASE f.state = "FAULT" /\ f.last_ok_tick_ms = 0 /\ g.last_ok_tick_ms = tick /\ g.state = "FAULT"
    <3>1. TickSub(tick, tick) = 0
      BY <1>1, TickSubExact DEF Ticks
    <3>2. okSince' # NotOk /\ 0 <= clock - okSince'
      BY <1>1 DEF NotOk, IInv, HTypeOK, HistoryInPast
    <3> QED
      BY <1>1, <2>2, <3>1, <3>2 DEF DebounceTracks, Quiet
  <2>3. CASE /\ f.state = "FAULT" /\ f.last_ok_tick_ms # 0
             /\ g.last_ok_tick_ms = f.last_ok_tick_ms /\ g.state = "FAULT"
    BY <1>1, <2>3 DEF DebounceTracks, IInv, Quiet
  <2> QED
    BY <1>2, <2>1, <2>2, <2>3
<1>10. ASSUME fm.state = "FAULT", fm'.state \in Quiet
       PROVE  okSince # NotOk /\ clock - okSince >= DebounceMs
  <2>1. fm.last_ok_tick_ms # 0 /\ TickSub(tick, fm.last_ok_tick_ms) >= DebounceMs
    BY <1>2, <1>10 DEF Quiet
  <2>2. okSince # NotOk /\ TickSub(tick, fm.last_ok_tick_ms) <= clock - okSince
    BY <1>10, <2>1 DEF IInv, DebounceTracks
  <2>3. /\ TickSub(tick, fm.last_ok_tick_ms) \in Int
        /\ clock - okSince \in Int
        /\ DebounceMs \in Int
    <3>1. tick \in Int /\ fm.last_ok_tick_ms \in Int
      BY <1>1 DEF FaultManagerT, Ticks
    <3>2. TickSub(tick, fm.last_ok_tick_ms) \in Ticks
      BY <3>1, TickRange
    <3> QED
      BY <3>2, TickAssumption DEF Ticks, IInv, HTypeOK, NotOk
  <2> QED
    BY <2>1, <2>2, <2>3
<1> QED
  BY <1>4, <1>5, <1>6, <1>7, <1>8, <1>9, <1>10 DEF IInv

(* Once latched, fault_manager_evaluate changes nothing. *)
LEMMA EvaluateLatchedIInv ==
  ASSUME IInv, HEvaluate, fm.state = "SHUTDOWN"
  PROVE  IInv' /\ fm' = fm
<1>1. /\ fm' = fm /\ entries' = entries /\ clock' = clock /\ tick' = tick
      /\ reading' = reading /\ gap' = 0
  BY DEF HEvaluate, Evaluate, FaultManagerEvaluate, Observe, Quiet
<1>2. okSince' \in {NotOk, clock, okSince}
  BY DEF HEvaluate
<1>3. HTypeOK' /\ HistoryInPast'
  BY <1>1, <1>2, GapAssumption, ClockAssumption DEF HTypeOK, TypeOK, HistoryInPast, IInv, NotOk
<1>4. ProtectiveState' /\ WatchdogHoldUnused' /\ RingHoldsLast' /\ DebounceTracks' /\ LatchComplete'
  BY <1>1
     DEF ProtectiveState, WatchdogHoldUnused, RingHoldsLast, DebounceTracks, LatchComplete, IInv, Quiet
<1> QED
  BY <1>1, <1>3, <1>4 DEF IInv

(* fault_manager_report_watchdog_fault keeps the invariant; once latched it *)
(* changes nothing.                                                         *)
LEMMA ReportIInv ==
  ASSUME IInv, HReportWatchdogFault
  PROVE  /\ IInv'
         /\ fm.state = "SHUTDOWN" => fm' = fm
         /\ fm.state # "SHUTDOWN" => fm'.severity = ASIL_D
         /\ fm'.state = "SHUTDOWN"
<1>1. PICK now \in Ticks : fm' = FaultManagerReportWatchdogFault(fm, now)
  BY DEF HReportWatchdogFault, ReportWatchdogFault
<1>2. /\ clock' = clock /\ tick' = tick /\ reading' = reading /\ gap' = gap
      /\ okSince' = NotOk
      /\ fm \in FaultManagerT
  BY DEF HReportWatchdogFault, ReportWatchdogFault, IInv, HTypeOK, TypeOK
<1>3. CASE fm.state = "SHUTDOWN"
  <2>1. fm' = fm
    BY <1>1, <1>3 DEF FaultManagerReportWatchdogFault
  <2>2. entries' = entries
    BY <1>3 DEF HReportWatchdogFault, Observe, Quiet
  <2>3. HTypeOK' /\ HistoryInPast'
    BY <1>2, <2>1, <2>2 DEF HTypeOK, TypeOK, HistoryInPast, IInv, NotOk
  <2>4. ProtectiveState' /\ WatchdogHoldUnused' /\ RingHoldsLast' /\ DebounceTracks' /\ LatchComplete'
    BY <1>3, <2>1
       DEF ProtectiveState, WatchdogHoldUnused, RingHoldsLast, DebounceTracks, LatchComplete, IInv, Quiet
  <2> QED
    BY <1>3, <2>1, <2>3, <2>4 DEF IInv
<1>4. CASE fm.state # "SHUTDOWN"
  <2>1. /\ fm' \in FaultManagerT
        /\ fm'.state = "SHUTDOWN"
        /\ fm'.severity = ASIL_D
        /\ fm'.severity = GetSeverity(fm'.active_faults)
    BY <1>1, <1>2, <1>4, ReportShutsDown
  <2>2. entries' = entries \/ entries' = Append(entries, clock)
    BY DEF HReportWatchdogFault, Observe
  <2>3. entries' \in Seq(0 .. MaxClock) /\ \A i \in 1 .. Len(entries') : entries'[i] <= clock
    <3>1. CASE entries' = entries
      BY <3>1 DEF IInv, HTypeOK, HistoryInPast
    <3>2. CASE entries' = Append(entries, clock)
      BY <1>2, <3>2, AppendEntry
    <3> QED
      BY <2>2, <3>1, <3>2
  <2>4. HTypeOK' /\ HistoryInPast'
    BY <1>2, <2>1, <2>3 DEF HTypeOK, TypeOK, HistoryInPast, IInv, NotOk
  <2>5. ProtectiveState' /\ WatchdogHoldUnused' /\ RingHoldsLast' /\ DebounceTracks' /\ LatchComplete'
    BY <2>1
       DEF ProtectiveState, WatchdogHoldUnused, RingHoldsLast, DebounceTracks, LatchComplete, Quiet
  <2> QED
    BY <1>4, <2>1, <2>4, <2>5 DEF IInv
<1> QED
  BY <1>3, <1>4

(* A new reading and the passing of time keep the invariant. *)
LEMMA PublishIInv ==
  ASSUME IInv, HPublish
  PROVE  IInv' /\ fm' = fm
<1>1. /\ fm' = fm /\ tick' = tick /\ gap' = gap /\ clock' = clock /\ entries' = entries
      /\ okSince' = okSince /\ reading' \in Readings
  BY DEF HPublish, Publish
<1>2. HTypeOK' /\ HistoryInPast'
  BY <1>1 DEF HTypeOK, TypeOK, HistoryInPast, IInv
<1>3. ProtectiveState' /\ WatchdogHoldUnused' /\ RingHoldsLast' /\ DebounceTracks' /\ LatchComplete'
  BY <1>1
     DEF ProtectiveState, WatchdogHoldUnused, RingHoldsLast, DebounceTracks, LatchComplete, LatchedAt, IInv
<1> QED
  BY <1>1, <1>2, <1>3 DEF IInv

LEMMA AdvanceIInv ==
  ASSUME IInv, HAdvance
  PROVE  IInv' /\ fm' = fm
<1>1. PICK d \in 1 .. MaxGap - gap :
        /\ fm' = fm /\ tick' = TickAdd(tick, d) /\ gap' = gap + d
        /\ clock' = clock + (gap' - gap) /\ clock' <= MaxClock /\ entries' = entries
        /\ okSince' = okSince /\ reading' = reading
  BY DEF HAdvance, Advance
<1>2. /\ fm \in FaultManagerT /\ reading \in Readings /\ tick \in Ticks /\ gap \in 0 .. MaxGap
      /\ clock \in 0 .. MaxClock /\ tick = clock % TickMod
      /\ entries \in Seq(0 .. MaxClock) /\ okSince \in {NotOk} \cup (0 .. MaxClock)
  BY DEF IInv, HTypeOK, TypeOK
<1>d. /\ d \in Nat /\ clock' = clock + d
      /\ gap' \in 0 .. MaxGap /\ clock' \in 0 .. MaxClock /\ clock \in Nat
  BY <1>1, <1>2, GapAssumption, ClockAssumption
<1>3. tick' \in Ticks /\ tick' = clock' % TickMod
  <2>1. tick \in Int
    BY <1>2 DEF Ticks
  <2>2. tick' \in Ticks
    BY <1>1, <1>d, <2>1, TickRange
  <2>3. ((clock % TickMod) + d) % TickMod = (clock + d) % TickMod
    BY <1>d, ModAdd
  <2> QED
    BY <1>1, <1>2, <1>d, <2>2, <2>3, Zenon DEF TickAdd
<1>4. HTypeOK'
  BY <1>1, <1>2, <1>d, <1>3 DEF HTypeOK, TypeOK
<1>5. HistoryInPast'
  <2>1. \A i \in 1 .. Len(entries) : entries[i] \in 0 .. MaxClock
    <3>1. entries \in Seq(0 .. MaxClock)
      BY <1>2
    <3> QED
      BY <3>1, ClockAssumption
  <2> QED
    BY <1>1, <1>2, <1>d, <2>1 DEF HistoryInPast, IInv, NotOk
<1>6. ProtectiveState' /\ WatchdogHoldUnused' /\ RingHoldsLast' /\ LatchComplete'
  BY <1>1 DEF ProtectiveState, WatchdogHoldUnused, RingHoldsLast, LatchComplete, LatchedAt, IInv
<1>7. DebounceTracks'
  <2> SUFFICES ASSUME fm.state = "FAULT", fm.last_ok_tick_ms # 0
               PROVE  okSince # NotOk /\ TickSub(tick', fm.last_ok_tick_ms) <= clock' - okSince
    BY <1>1, Zenon DEF DebounceTracks, IInv
  <2>1. okSince # NotOk /\ TickSub(tick, fm.last_ok_tick_ms) <= clock - okSince
    BY DEF DebounceTracks, IInv
  <2>2. fm.last_ok_tick_ms \in Ticks
    BY <1>2 DEF FaultManagerT
  <2>3. TickSub(tick', fm.last_ok_tick_ms) <= TickSub(tick, fm.last_ok_tick_ms) + d
    BY <1>1, <1>2, <1>d, <2>2, TickSubStep
  <2>4. /\ TickSub(tick, fm.last_ok_tick_ms) \in Int
        /\ TickSub(tick', fm.last_ok_tick_ms) \in Int
    <3>1. tick \in Int /\ tick' \in Int /\ fm.last_ok_tick_ms \in Int
      BY <1>2, <1>3, <2>2 DEF Ticks
    <3>2. /\ TickSub(tick, fm.last_ok_tick_ms) \in Ticks
          /\ TickSub(tick', fm.last_ok_tick_ms) \in Ticks
      BY <3>1, TickRange
    <3> QED
      BY <3>2 DEF Ticks
  <2> QED
    BY <1>1, <1>2, <1>d, <2>1, <2>3, <2>4
<1> QED
  BY <1>1, <1>4, <1>5, <1>6, <1>7 DEF IInv

(* Every step keeps the invariant. *)
LEMMA NextIInv == IInv /\ [HNext]_hvars => IInv'
<1> SUFFICES ASSUME IInv, [HNext]_hvars PROVE IInv'
  OBVIOUS
<1>1. CASE HPublish
  BY <1>1, PublishIInv
<1>2. CASE HEvaluate
  BY <1>2, EvaluateFaultyIInv, EvaluateCleanIInv, EvaluateLatchedIInv
<1>3. CASE HReportWatchdogFault
  BY <1>3, ReportIInv
<1>4. CASE HAdvance
  BY <1>4, AdvanceIInv
<1>5. CASE UNCHANGED hvars
  BY <1>5 DEF hvars, IInv, HTypeOK, TypeOK, ProtectiveState, WatchdogHoldUnused,
     HistoryInPast, RingHoldsLast, DebounceTracks, LatchComplete, LatchedAt
<1> QED
  BY <1>1, <1>2, <1>3, <1>4, <1>5 DEF HNext

-----------------------------------------------------------------------------
(***************************************************************************)
(* What holds of every behaviour, across wraps of the tick counter.        *)
(***************************************************************************)

(* The state fault_manager_t keeps always summarises the whole history. *)
THEOREM Summary == HSpec => []IInv
<1>1. HInit => IInv
  BY InitIInv
<1>2. IInv /\ [HNext]_hvars => IInv'
  BY NextIInv
<1> QED
  BY <1>1, <1>2, PTL DEF HSpec

(* Type correctness of the fault manager and its history. *)
THEOREM TypeCorrect == HSpec => []HTypeOK
<1>1. IInv => HTypeOK
  BY DEF IInv
<1> QED
  BY <1>1, Summary, PTL

(* active_faults, severity and state are coherent after every call of       *)
(* fault_manager_evaluate and fault_manager_report_watchdog_fault, and an   *)
(* ASIL D fault is never left outside SHUTDOWN.                             *)
THEOREM Protective == HSpec => []ProtectiveState
<1>1. IInv => ProtectiveState
  BY DEF IInv
<1> QED
  BY <1>1, Summary, PTL

(* The watchdog hold is dead code: outside SHUTDOWN it is never armed. *)
THEOREM HoldUnused == HSpec => []WatchdogHoldUnused
<1>1. IInv => WatchdogHoldUnused
  BY DEF IInv
<1> QED
  BY <1>1, Summary, PTL

(* No burst of LatchCount episodes within the window is ever missed, however *)
(* long the pack runs and wherever the tick counter wraps.                   *)
THEOREM NoLatchMissed == HSpec => []LatchComplete
<1>1. IInv => LatchComplete
  BY DEF IInv
<1> QED
  BY <1>1, Summary, PTL

(* FAULT is left only after DebounceMs of fault-free evaluations. *)
THEOREM DebounceHeld == HSpec => ClearOnlyAfterDebounce
<1> DEFINE Held == fm.state = "FAULT" /\ fm'.state \in Quiet
                     => okSince # NotOk /\ clock - okSince >= DebounceMs
<1>1. IInv /\ [HNext]_hvars => [Held]_hvars
  <2> SUFFICES ASSUME IInv, HNext, ~UNCHANGED hvars PROVE Held
    OBVIOUS
  <2>1. CASE HPublish
    BY <2>1, PublishIInv DEF Quiet
  <2>2. CASE HEvaluate
    <3>1. CASE fm.state = "SHUTDOWN"
      BY <3>1
    <3>2. CASE fm.state # "SHUTDOWN" /\ TotalFaults(fm, reading, tick) # {}
      <4>1. fm' = FaultManagerEvaluate(fm, reading, tick) /\ fm \in FaultManagerT /\ tick \in Ticks
        BY <2>2 DEF HEvaluate, Evaluate, IInv, HTypeOK, TypeOK
      <4>2. fm'.state \in {"SHUTDOWN", "FAULT"}
        BY <3>2, <4>1, EvaluateFaulty
      <4> QED
        BY <4>2 DEF Quiet
    <3>3. CASE fm.state # "SHUTDOWN" /\ TotalFaults(fm, reading, tick) = {}
      BY <2>2, <3>3, EvaluateCleanIInv
    <3> QED
      BY <3>1, <3>2, <3>3
  <2>3. CASE HReportWatchdogFault
    BY <2>3, ReportIInv DEF Quiet
  <2>4. CASE HAdvance
    BY <2>4, AdvanceIInv DEF Quiet
  <2> QED
    BY <2>1, <2>2, <2>3, <2>4 DEF HNext
<1> QED
  BY <1>1, Summary, PTL DEF HSpec, ClearOnlyAfterDebounce

(* SHUTDOWN is final. *)
THEOREM Latched == HSpec => ShutdownLatched
<1>1. IInv /\ [HNext]_hvars => [fm.state = "SHUTDOWN" => fm' = fm]_hvars
  <2> SUFFICES ASSUME IInv, HNext, fm.state = "SHUTDOWN" PROVE fm' = fm
    OBVIOUS
  <2> QED
    BY PublishIInv, EvaluateLatchedIInv, ReportIInv, AdvanceIInv DEF HNext
<1> QED
  BY <1>1, Summary, PTL DEF HSpec, ShutdownLatched

-----------------------------------------------------------------------------
(***************************************************************************)
(* Recovery.  The debounce has a true start: the first fault-free          *)
(* evaluation or, if that happened at tick 0, the next one at another      *)
(* tick.  As long as the manager is in FAULT the last evaluation (at       *)
(* clock - gap) came less than DebounceMs after it.                        *)
(***************************************************************************)
Started(s) ==
  /\ okSince <= s /\ s <= okSince + DebounceLate
  /\ fm.last_ok_tick_ms = s % TickMod
  /\ s <= clock - gap /\ clock - gap - s < DebounceMs

DebounceRuns ==
  fm.state = "FAULT" /\ okSince # NotOk =>
    /\ fm.last_ok_tick_ms = 0 => okSince % TickMod = 0 /\ clock - gap = okSince
    /\ fm.last_ok_tick_ms # 0 => \E s \in 0 .. MaxClock : Started(s)

(* Evaluations are close enough to tell elapsed times apart from wraps: the *)
(* code's fault period of 50 ms and debounce of 300 ms against 2^32 ms.     *)
GapFits == MaxGap + DebounceMs <= TickMod

LEMMA FieldTypes ==
  ASSUME IInv
  PROVE  /\ fm \in FaultManagerT /\ tick \in Ticks /\ tick = clock % TickMod
         /\ clock \in 0 .. MaxClock /\ gap \in 0 .. MaxGap /\ MaxGap \in Nat
         /\ DebounceMs \in Nat \ {0} /\ TickMod \in Nat \ {0} /\ MaxClock \in Nat
         /\ okSince # NotOk => okSince \in 0 .. MaxClock /\ okSince <= clock
BY TickAssumption, GapAssumption, ClockAssumption DEF IInv, HTypeOK, TypeOK, HistoryInPast

LEMMA RunsMeansInTime ==
  ASSUME IInv, DebounceRuns
  PROVE  RecoversInTime
<1> SUFFICES ASSUME fm.state = "FAULT", okSince # NotOk
             PROVE  clock - okSince < DebounceMs + MaxGap + DebounceLate
  BY DEF RecoversInTime
<1>1. DebounceLate \in Nat
  BY FieldTypes DEF DebounceLate
<1>2. CASE fm.last_ok_tick_ms = 0
  <2>1. clock - gap = okSince
    BY <1>2 DEF DebounceRuns
  <2>2. /\ okSince \in Int /\ clock \in Int /\ gap \in Int /\ gap <= MaxGap
        /\ MaxGap \in Int /\ DebounceMs \in Int /\ DebounceMs > 0
    BY FieldTypes
  <2> QED
    BY <1>1, <2>1, <2>2
<1>3. CASE fm.last_ok_tick_ms # 0
  <2>1. PICK s \in 0 .. MaxClock : Started(s)
    BY <1>3 DEF DebounceRuns
  <2> QED
    BY <1>1, <2>1, FieldTypes DEF Started
<1> QED
  BY <1>2, <1>3

(* A fault-free evaluation that leaves the manager in FAULT. *)
LEMMA EvaluateRuns ==
  ASSUME IInv, DebounceRuns, GapFits, HEvaluate, fm.state # "SHUTDOWN",
         TotalFaults(fm, reading, tick) = {}
  PROVE  DebounceRuns'
<1>1. /\ fm' = FaultManagerEvaluate(fm, reading, tick)
      /\ clock' = clock /\ tick' = tick /\ gap' = 0
      /\ okSince' = IF okSince = NotOk THEN clock ELSE okSince
  BY DEF HEvaluate, Evaluate
<1>2. /\ fm \in FaultManagerT /\ tick \in Ticks /\ tick = clock % TickMod
      /\ clock \in 0 .. MaxClock /\ gap \in 0 .. MaxGap /\ MaxGap \in Nat
      /\ DebounceMs \in Nat \ {0} /\ TickMod \in Nat \ {0} /\ MaxClock \in Nat
      /\ okSince # NotOk => okSince \in 0 .. MaxClock /\ okSince <= clock
  BY FieldTypes
<1> SUFFICES ASSUME fm'.state = "FAULT"
             PROVE  /\ fm'.last_ok_tick_ms = 0 =>
                         okSince' % TickMod = 0 /\ clock' - gap' = okSince'
                    /\ fm'.last_ok_tick_ms # 0 => \E s \in 0 .. MaxClock : Started(s)'
  BY DEF DebounceRuns
<1>3. /\ fm.state = "FAULT"
      /\ \/ fm.last_ok_tick_ms = 0 /\ fm'.last_ok_tick_ms = tick
         \/ /\ fm.last_ok_tick_ms # 0 /\ fm'.last_ok_tick_ms = fm.last_ok_tick_ms
            /\ ~(TickSub(tick, fm.last_ok_tick_ms) >= DebounceMs)
  <2>1. "FAULT" \notin Quiet
    BY DEF Quiet
  <2> QED
    BY <1>1, <1>2, <2>1, EvaluateClean
<1>4. CASE okSince = NotOk
  <2>1. fm.last_ok_tick_ms = 0
    BY <1>3, <1>4 DEF IInv, DebounceTracks
  <2>2. okSince' = clock /\ fm'.last_ok_tick_ms = clock % TickMod
    BY <1>1, <1>2, <1>3, <1>4, <2>1
  <2>3. ASSUME NEW s, s = clock PROVE Started(s)'
    <3>1. /\ s \in Nat /\ okSince' = s /\ clock' = s /\ gap' = 0
          /\ fm'.last_ok_tick_ms = s % TickMod
      BY <1>1, <1>2, <2>2, <2>3
    <3>2. okSince' <= s /\ s <= okSince' + DebounceLate'
      BY <1>2, <3>1 DEF DebounceLate
    <3>3. s <= clock' - gap' /\ clock' - gap' - s < DebounceMs
      BY <1>2, <3>1
    <3> QED
      BY <3>1, <3>2, <3>3 DEF Started
  <2>4. clock' - gap' = okSince' /\ clock \in 0 .. MaxClock
    BY <1>1, <1>2, <2>2
  <2> QED
    BY <2>2, <2>3, <2>4
<1>5. CASE okSince # NotOk /\ fm.last_ok_tick_ms = 0
  <2>1. /\ okSince' = okSince /\ fm'.last_ok_tick_ms = clock % TickMod
        /\ okSince % TickMod = 0 /\ clock - gap = okSince
    BY <1>1, <1>2, <1>3, <1>5 DEF DebounceRuns
  <2>2. ASSUME clock % TickMod = 0 PROVE clock = okSince
    <3>1. okSince \in Nat /\ clock \in Nat /\ okSince <= clock /\ clock - okSince < TickMod
      BY <1>2, <1>5, <2>1 DEF GapFits
    <3>2. TickSub(clock % TickMod, okSince % TickMod) = clock - okSince
      BY <3>1, TickSubLowWords
    <3>3. TickSub(0, 0) = 0
      BY <1>2, TickSubExact DEF Ticks
    <3> QED
      BY <2>1, <2>2, <3>1, <3>2, <3>3
  <2>3. DebounceLate' = MaxGap
    BY <1>1, <2>1 DEF DebounceLate
  <2>4. ASSUME NEW s, s = clock PROVE Started(s)'
    BY <1>1, <1>2, <1>5, <2>1, <2>3, <2>4 DEF Started
  <2>5. clock' - gap' = clock
    BY <1>1, <1>2
  <2> QED
    BY <1>2, <2>1, <2>2, <2>4, <2>5
<1>6. CASE okSince # NotOk /\ fm.last_ok_tick_ms # 0
  <2>1. PICK s \in 0 .. MaxClock : Started(s)
    BY <1>3, <1>6 DEF DebounceRuns
  <2>2. /\ fm.last_ok_tick_ms = s % TickMod /\ s <= clock - gap /\ clock - gap - s < DebounceMs
        /\ okSince <= s /\ s <= okSince + DebounceLate
    BY <2>1 DEF Started
  <2>3. s \in Nat /\ clock \in Nat /\ s <= clock /\ clock - s < TickMod
    BY <1>2, <2>2 DEF GapFits
  <2>4. TickSub(tick, fm.last_ok_tick_ms) = clock - s
    BY <1>2, <2>2, <2>3, TickSubLowWords
  <2>5. clock - s < DebounceMs
    BY <1>2, <1>3, <1>6, <2>3, <2>4
  <2>6. fm'.last_ok_tick_ms = fm.last_ok_tick_ms /\ okSince' = okSince /\ DebounceLate' = DebounceLate
    BY <1>1, <1>3, <1>6 DEF DebounceLate
  <2>7. Started(s)'
    BY <1>1, <1>2, <2>2, <2>3, <2>5, <2>6 DEF Started
  <2> QED
    BY <1>6, <2>6, <2>7
<1> QED
  BY <1>4, <1>5, <1>6

LEMMA NextRuns ==
  ASSUME IInv, DebounceRuns, GapFits, [HNext]_hvars
  PROVE  DebounceRuns'
<1>1. CASE HPublish \/ UNCHANGED hvars
  BY <1>1 DEF HPublish, Publish, hvars, DebounceRuns, Started, DebounceLate
<1>2. CASE HEvaluate
  <2>1. CASE fm.state = "SHUTDOWN"
    <3>1. fm' = fm
      BY <1>2, <2>1, EvaluateLatchedIInv
    <3> QED
      BY <2>1, <3>1 DEF DebounceRuns
  <2>2. CASE TotalFaults(fm, reading, tick) # {}
    BY <1>2, <2>2 DEF HEvaluate, DebounceRuns
  <2> QED
    BY <1>2, <2>1, <2>2, EvaluateRuns
<1>3. CASE HReportWatchdogFault
  BY <1>3 DEF HReportWatchdogFault, DebounceRuns
<1>4. CASE HAdvance
  <2>1. /\ fm' = fm /\ okSince' = okSince /\ clock' = clock + (gap' - gap) /\ gap' \in Int
    BY <1>4, FieldTypes DEF HAdvance, Advance
  <2>2. clock' - gap' = clock - gap
    BY <2>1, FieldTypes
  <2>3. \A s : Started(s)' <=> Started(s)
    BY <2>1, <2>2 DEF Started, DebounceLate
  <2> QED
    BY <2>1, <2>2, <2>3 DEF DebounceRuns
<1> QED
  BY <1>1, <1>2, <1>3, <1>4 DEF HNext

(***************************************************************************)
(* A FAULT whose cause is gone is left within the debounce and one gap     *)
(* between evaluations (two when the debounce began at tick 0), for every  *)
(* debounce and across every wrap of the tick.                             *)
(***************************************************************************)
THEOREM FaultEnds == GapFits => (HSpec => []RecoversInTime)
<1> SUFFICES ASSUME GapFits PROVE HSpec => []RecoversInTime
  OBVIOUS
<1>1. HInit => DebounceRuns
  BY DEF HInit, DebounceRuns
<1>2. IInv /\ DebounceRuns /\ [HNext]_hvars => DebounceRuns'
  BY NextRuns
<1>3. IInv /\ DebounceRuns => RecoversInTime
  BY RunsMeansInTime
<1> QED
  BY <1>1, <1>2, <1>3, Summary, PTL DEF HSpec

-----------------------------------------------------------------------------
(***************************************************************************)
(* What holds until the tick counter wraps (2^32 ms, 49.7 days).           *)
(***************************************************************************)

(* Without a wrap, a trip of the latch at the current tick means that the   *)
(* last LatchCount entries did fall within the window.                      *)
LEMMA TripIsABurst ==
  ASSUME NEW h \in Seq(0 .. MaxClock), NEW now \in 0 .. MaxClock, now < TickMod,
         \A i \in 1 .. Len(h) : h[i] <= now,
         NEW g \in FaultManagerT,
         g.fault_entry_count = IF Len(h) < LatchCount THEN Len(h) ELSE LatchCount,
         \A i \in 1 .. g.fault_entry_count :
           g.fault_entry_ticks_ms[i] = h[Len(h) - g.fault_entry_count + i] % TickMod,
         LatchShouldTrip(g, now)
  PROVE  /\ Len(h) >= LatchCount
         /\ h[Len(h)] - h[Len(h) - LatchCount + 1] <= LatchWindowMs
<1> DEFINE o == h[Len(h) - LatchCount + 1]
<1>1. g.fault_entry_count = LatchCount /\ TickSub(now, g.fault_entry_ticks_ms[1]) <= LatchWindowMs
  BY DEF LatchShouldTrip
<1>2. Len(h) >= LatchCount /\ Len(h) \in Nat
  BY <1>1, LatchAssumption
<1>3. Len(h) \in 1 .. Len(h) /\ Len(h) - LatchCount + 1 \in 1 .. Len(h)
  BY <1>2, LatchAssumption
<1>4. \A i \in 1 .. Len(h) : h[i] \in 0 .. MaxClock
  BY ClockAssumption
<1>5. /\ o \in 0 .. MaxClock /\ o <= now
      /\ h[Len(h)] \in 0 .. MaxClock /\ h[Len(h)] <= now
  BY <1>3, <1>4
<1>6. g.fault_entry_ticks_ms[1] = o % TickMod
  <2>1. 1 \in 1 .. g.fault_entry_count
    BY <1>1, LatchAssumption
  <2>2. g.fault_entry_ticks_ms[1] = h[Len(h) - g.fault_entry_count + 1] % TickMod
    BY <2>1, Zenon
  <2> QED
    BY <1>1, <2>2, Zenon
<1> HIDE DEF o
<1>7. o \in Ticks /\ now \in Ticks
  BY <1>5, TickAssumption, ClockAssumption DEF Ticks
<1>8. o % TickMod = o
  BY <1>7, LowWordExact
<1>9. TickSub(now, o) = now - o
  BY <1>5, <1>7, TickSubExact
<1>10. now - o <= LatchWindowMs
  BY <1>1, <1>6, <1>8, <1>9
<1>11. h[Len(h)] - o <= LatchWindowMs
  BY <1>5, <1>10, TickAssumption, ClockAssumption
<1> QED
  BY <1>2, <1>11 DEF o

(* Until the tick counter wraps, SHUTDOWN is never entered without cause. *)
THEOREM Justified == HSpec => []JustifiedUntilWrap
<1>1. HInit => JustifiedUntilWrap
  BY DEF HInit, Init, FaultManagerInit, JustifiedUntilWrap, ShutdownJustified
<1>2. IInv /\ JustifiedUntilWrap /\ [HNext]_hvars => JustifiedUntilWrap'
  <2> SUFFICES ASSUME IInv, JustifiedUntilWrap, [HNext]_hvars,
                      clock' < TickMod, fm'.state = "SHUTDOWN"
               PROVE  fm'.severity = ASIL_D \/ LatchedAt(Len(entries))'
    BY DEF JustifiedUntilWrap, ShutdownJustified
  <2>0. clock < TickMod /\ ShutdownJustified
    <3>1. clock \in Int /\ TickMod \in Int
      BY TickAssumption, ClockAssumption DEF IInv, HTypeOK
    <3>2. CASE HAdvance
      <4>1. PICK d \in 1 .. MaxGap - gap : gap' = gap + d
        BY <3>2 DEF HAdvance, Advance
      <4>2. gap \in Int /\ MaxGap \in Int /\ clock' = clock + (gap' - gap)
        BY <3>2, GapAssumption DEF HAdvance, IInv, HTypeOK, TypeOK
      <4>3. clock < clock'
        BY <3>1, <4>1, <4>2
      <4> QED
        BY <3>1, <4>2, <4>3, <4>1 DEF JustifiedUntilWrap
    <3>3. CASE ~HAdvance
      <4>1. clock' = clock
        BY <3>3 DEF HNext, HPublish, HEvaluate, HReportWatchdogFault, hvars
      <4> QED
        BY <4>1 DEF JustifiedUntilWrap
    <3> QED
      BY <3>2, <3>3
  <2>1. CASE fm' = fm /\ entries' = entries
    BY <2>0, <2>1 DEF ShutdownJustified, LatchedAt
  <2>2. CASE HEvaluate /\ fm.state = "SHUTDOWN"
    <3>1. fm' = fm /\ entries' = entries
      BY <2>2, EvaluateLatchedIInv DEF HEvaluate, Observe, Quiet
    <3> QED
      BY <2>1, <3>1
  <2>3. CASE HEvaluate /\ fm.state # "SHUTDOWN" /\ TotalFaults(fm, reading, tick) = {}
    <3>1. fm' = FaultManagerEvaluate(fm, reading, tick) /\ fm \in FaultManagerT /\ tick \in Ticks
      BY <2>3 DEF HEvaluate, Evaluate, IInv, HTypeOK, TypeOK
    <3>2. fm'.state \in Quiet \cup {"FAULT"}
      BY <2>3, <3>1, EvaluateClean
    <3> QED
      BY <3>2 DEF Quiet
  <2>4. CASE HEvaluate /\ fm.state # "SHUTDOWN" /\ TotalFaults(fm, reading, tick) # {}
    <3>1. IInv'
      BY <2>4, EvaluateFaultyIInv
    <3>2. /\ fm' = FaultManagerEvaluate(fm, reading, tick)
          /\ fm \in FaultManagerT /\ tick \in Ticks
          /\ tick = clock % TickMod /\ clock \in 0 .. MaxClock /\ clock' = clock
      BY <2>4 DEF HEvaluate, Evaluate, IInv, HTypeOK, TypeOK
    <3>3. /\ fm' \in FaultManagerT /\ RingAfter(fm, fm', tick)
          /\ fm'.severity >= ASIL_D \/ LatchShouldTrip(fm', tick)
      BY <2>4, <3>2, EvaluateFaulty
    <3>4. CASE fm'.severity >= ASIL_D
      BY <3>3, <3>4 DEF FaultManagerT, Asil, ASIL_D, ASIL_QM
    <3>5. CASE LatchShouldTrip(fm', tick)
      <4>1. tick = clock
        BY <2>0, <3>2, TickAssumption, ClockAssumption
      <4>2. entries' \in Seq(0 .. MaxClock) /\ \A i \in 1 .. Len(entries') : entries'[i] <= clock
        BY <3>1, <3>2 DEF IInv, HTypeOK, HistoryInPast
      <4>3. /\ fm'.fault_entry_count =
                 IF Len(entries') < LatchCount THEN Len(entries') ELSE LatchCount
            /\ \A i \in 1 .. fm'.fault_entry_count :
                 fm'.fault_entry_ticks_ms[i] =
                   entries'[Len(entries') - fm'.fault_entry_count + i] % TickMod
        <5>1. CASE fm.state \in Quiet
          <6>1. entries' = Append(entries, clock)
            BY <2>4, <5>1 DEF HEvaluate, Observe, Quiet
          <6> QED
            BY <3>2, <3>3, <5>1, <6>1, RecordKeepsRing
        <5>2. CASE fm.state = "FAULT"
          <6>1. /\ fm'.fault_entry_count = fm.fault_entry_count
                /\ fm'.fault_entry_ticks_ms = fm.fault_entry_ticks_ms
                /\ entries' = entries
            BY <2>4, <3>3, <5>2 DEF RingAfter, HEvaluate, Observe, Quiet
          <6> QED
            BY <2>4, <6>1, Zenon DEF IInv, RingHoldsLast
        <5>3. fm.state \in Quiet \/ fm.state = "FAULT"
          BY <2>4, <3>2 DEF FaultManagerT, States, Quiet
        <5> QED
          BY <5>1, <5>2, <5>3, Zenon
      <4>4. LatchShouldTrip(fm', clock)
        BY <3>5, <4>1
      <4>5. /\ Len(entries') >= LatchCount
            /\ entries'[Len(entries')] - entries'[Len(entries') - LatchCount + 1] <= LatchWindowMs
        BY <2>0, <3>2, <3>3, <4>2, <4>3, <4>4, TripIsABurst
      <4> QED
        BY <4>5 DEF LatchedAt
    <3> QED
      BY <3>3, <3>4, <3>5
  <2>5. CASE HReportWatchdogFault
    <3>1. CASE fm.state = "SHUTDOWN"
      <4>1. fm' = fm /\ entries' = entries
        BY <2>5, <3>1, ReportIInv DEF HReportWatchdogFault, Observe, Quiet
      <4> QED
        BY <2>1, <4>1
    <3>2. CASE fm.state # "SHUTDOWN"
      BY <2>5, <3>2, ReportIInv
    <3> QED
      BY <3>1, <3>2
  <2>6. CASE HPublish \/ HAdvance \/ UNCHANGED hvars
    <3>1. fm' = fm /\ entries' = entries
      BY <2>6 DEF HPublish, Publish, HAdvance, Advance, hvars
    <3> QED
      BY <2>1, <3>1
  <2> QED
    BY <2>2, <2>3, <2>4, <2>5, <2>6 DEF HNext
<1> QED
  BY <1>1, <1>2, Summary, PTL DEF HSpec
===============================================================================
