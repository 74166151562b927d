-------------------------- MODULE FaultManagerLemmas --------------------------
(***************************************************************************)
(* What the operators of FaultManagerOps compute, field by field, and the  *)
(* tick arithmetic they rest on: the lemmas that the proofs of every       *)
(* module with a fault manager cite.                                       *)
(***************************************************************************)
EXTENDS FaultManagerOps, TLAPS

-----------------------------------------------------------------------------
(***************************************************************************)
(* Tick arithmetic.                                                        *)
(***************************************************************************)

(* uint32_t subtraction and addition stay in range. *)
LEMMA TickRange ==
  ASSUME NEW t \in Int, NEW u \in Int
  PROVE  TickSub(t, u) \in Ticks /\ TickAdd(t, u) \in Ticks
BY TickAssumption DEF TickSub, TickAdd, Ticks

(* Without a wrap in between, the difference of two ticks is the elapsed time. *)
LEMMA TickSubExact ==
  ASSUME NEW t \in Ticks, NEW u \in Ticks, u <= t
  PROVE  TickSub(t, u) = t - u
<1>1. t - u \in 0 .. TickMod - 1
  BY TickAssumption DEF Ticks
<1> QED
  BY <1>1, TickAssumption DEF TickSub

(* A time below the tick range is its own low word. *)
LEMMA LowWordExact ==
  ASSUME NEW t \in Ticks
  PROVE  t % TickMod = t
BY TickAssumption DEF Ticks

(* Reducing first does not matter to a difference that fits in a tick. *)
LEMMA TickSubLowWords ==
  ASSUME NEW a \in Nat, NEW b \in Nat, b <= a, a - b < TickMod
  PROVE  TickSub(a % TickMod, b % TickMod) = a - b
<1> DEFINE r == a % TickMod
           q == b % TickMod
           d == a - b
<1>1. r \in 0 .. TickMod - 1 /\ q \in 0 .. TickMod - 1 /\ d \in 0 .. TickMod - 1
  BY TickAssumption
<1>2. d = r - q \/ d = r - q + TickMod
  <2>1. PICK k \in Int : d = r - q + k * TickMod
    <3> DEFINE i == a \div TickMod
               j == b \div TickMod
    <3>1. i \in Int /\ a = TickMod * i + r
      BY TickAssumption
    <3>2. j \in Int /\ b = TickMod * j + q
      BY TickAssumption
    <3>3. d = r - q + (i - j) * TickMod /\ i - j \in Int
      <4> HIDE DEF i, j, r, q
      <4> QED
        BY <1>1, <3>1, <3>2, TickAssumption
    <3> QED
      BY <3>3
  <2>2. k \in {0, 1}
    BY <1>1, <2>1, TickAssumption
  <2> QED
    BY <1>1, <2>1, <2>2, TickAssumption
<1>3. (r - q) % TickMod = d
  BY <1>1, <1>2, TickAssumption
<1> QED
  BY <1>3 DEF TickSub

(* The remainder is the only one in range. *)
LEMMA ModUnique ==
  ASSUME NEW x \in Int, NEW k \in Int, NEW s \in 0 .. TickMod - 1, x = TickMod * k + s
  PROVE  x % TickMod = s
<1> DEFINE q == x \div TickMod
           p == x % TickMod
<1>1. q \in Int /\ p \in 0 .. TickMod - 1 /\ x = TickMod * q + p
  BY TickAssumption
<1> HIDE DEF q, p
<1>2. TickMod * (k - q) = p - s /\ k - q \in Int
  BY <1>1, TickAssumption
<1>3. k - q = 0
  BY <1>1, <1>2, TickAssumption
<1>4. p = s
  BY <1>1, <1>2, <1>3, TickAssumption
<1> QED
  BY <1>4 DEF p

(* Reducing an operand first does not matter to a sum. *)
LEMMA ModAdd ==
  ASSUME NEW a \in Int, NEW b \in Int
  PROVE  ((a % TickMod) + b) % TickMod = (a + b) % TickMod
<1> DEFINE i == a \div TickMod
           r == a % TickMod
           j == (r + b) \div TickMod
           s == (r + b) % TickMod
<1>1. i \in Int /\ r \in Int /\ a = TickMod * i + r
  BY TickAssumption
<1>2. j \in Int /\ s \in 0 .. TickMod - 1 /\ r + b = TickMod * j + s
  <2> HIDE DEF r
  <2> QED
    BY <1>1, TickAssumption
<1>3. a + b = TickMod * (i + j) + s
  <2> HIDE DEF i, r, j, s
  <2> QED
    BY <1>1, <1>2, TickAssumption
<1>4. (a + b) % TickMod = s
  <2>1. i + j \in Int
    BY <1>1, <1>2
  <2>2. a + b \in Int
    OBVIOUS
  <2> HIDE DEF i, r, j, s
  <2> QED
    BY <1>2, <1>3, <2>1, <2>2, ModUnique
<1> QED
  BY <1>4

(* Time passing by d adds at most d to a tick difference. *)
LEMMA TickSubStep ==
  ASSUME NEW t \in Ticks, NEW u \in Ticks, NEW d \in Nat
  PROVE  TickSub(TickAdd(t, d), u) <= TickSub(t, u) + d
<1>1. t \in Int /\ u \in Int
  BY TickAssumption DEF Ticks
<1>2. TickSub(TickAdd(t, d), u) = (t + d - u) % TickMod
  <2> DEFINE v == 0 - u
             w == t + d
  <2>1. v \in Int /\ w \in Int /\ w + v = t + d - u
    BY <1>1
  <2>2. ((w % TickMod) + v) % TickMod = (w + v) % TickMod
    BY <2>1, ModAdd
  <2>3. (w % TickMod) + v = (w % TickMod) - u
    <3> HIDE DEF w
    <3> QED
      BY <1>1, <2>1, TickAssumption
  <2> QED
    BY <2>1, <2>2, <2>3, Zenon DEF TickSub, TickAdd
<1>3. (((t - u) % TickMod) + d) % TickMod = (t + d - u) % TickMod
  <2>1. (((t - u) % TickMod) + d) % TickMod = ((t - u) + d) % TickMod
    BY <1>1, ModAdd
  <2>2. (t - u) + d = t + d - u
    BY <1>1
  <2> QED
    BY <2>1, <2>2
<1>4. (t - u) % TickMod \in 0 .. TickMod - 1
  BY <1>1, TickAssumption
<1>5. ASSUME NEW y \in Nat
      PROVE  y % TickMod <= y
  BY TickAssumption
<1>6. (((t - u) % TickMod) + d) % TickMod <= ((t - u) % TickMod) + d
  BY <1>4, <1>5, TickAssumption
<1> QED
  BY <1>2, <1>3, <1>6 DEF TickSub

-----------------------------------------------------------------------------
(***************************************************************************)
(* fault_manager_get_severity.                                             *)
(***************************************************************************)

(* The severity of a set of fault bits is attained (or QM) and is an upper  *)
(* bound of the severities in the set.                                      *)
LEMMA GetSeverityBound ==
  ASSUME NEW faults \in SUBSET FaultBits
  PROVE  /\ GetSeverity(faults) \in {ASIL_QM} \cup {Severity[b] : b \in faults}
         /\ \A b \in faults : Severity[b] <= GetSeverity(faults)
         /\ GetSeverity(faults) \in Asil
<1> DEFINE S == {ASIL_QM} \cup {Severity[b] : b \in faults}
<1>1. \A b \in FaultBits : Severity[b] \in {2, 3, 4}
  BY DEF Severity, FaultBits, ASIL_D
<1>2. \E s \in S : \A b \in faults : Severity[b] <= s
  <2>1. CASE \E b \in faults : Severity[b] = 4
    BY <1>1, <2>1
  <2>2. CASE (\A b \in faults : Severity[b] # 4) /\ (\E b \in faults : Severity[b] = 3)
    BY <1>1, <2>2
  <2>3. CASE (\A b \in faults : Severity[b] \notin {3, 4}) /\ (\E b \in faults : Severity[b] = 2)
    BY <1>1, <2>3
  <2>4. CASE \A b \in faults : Severity[b] \notin {2, 3, 4}
    BY <1>1, <2>4
  <2> QED
    BY <2>1, <2>2, <2>3, <2>4
<1>3. GetSeverity(faults) \in S /\ \A b \in faults : Severity[b] <= GetSeverity(faults)
  BY <1>2 DEF GetSeverity
<1>4. S \subseteq Asil
  BY <1>1 DEF Asil, ASIL_QM, ASIL_D
<1> QED
  BY <1>3, <1>4

(* No fault, no severity. *)
LEMMA GetSeverityNone == GetSeverity({}) = ASIL_QM
BY GetSeverityBound

(* The watchdog fault alone is worth ASIL D. *)
LEMMA GetSeverityWatchdog ==
  ASSUME NEW faults \in SUBSET FaultBits, "TASK_WATCHDOG" \in faults
  PROVE  GetSeverity(faults) = ASIL_D
<1>1. Severity["TASK_WATCHDOG"] = ASIL_D
  BY DEF Severity
<1> QED
  BY <1>1, GetSeverityBound DEF Asil, ASIL_D, ASIL_QM

-----------------------------------------------------------------------------
(***************************************************************************)
(* What each operation does to the record, field by field.                 *)
(***************************************************************************)

(* record_fault_entry touches the ring and its count only. *)
LEMMA RecordFaultEntryFields ==
  ASSUME NEW f \in FaultManagerT, NEW now \in Ticks, NEW g, g = RecordFaultEntry(f, now)
  PROVE  /\ g \in FaultManagerT
         /\ g.state = f.state
         /\ g.active_faults = f.active_faults
         /\ g.severity = f.severity
         /\ g.last_ok_tick_ms = f.last_ok_tick_ms
         /\ g.watchdog_fault_until_ms = f.watchdog_fault_until_ms
         /\ f.fault_entry_count < LatchCount =>
              /\ g.fault_entry_count = f.fault_entry_count + 1
              /\ g.fault_entry_ticks_ms =
                   [f.fault_entry_ticks_ms EXCEPT ![f.fault_entry_count + 1] = now]
         /\ f.fault_entry_count = LatchCount =>
              /\ g.fault_entry_count = LatchCount
              /\ g.fault_entry_ticks_ms =
                   [i \in 1 .. LatchCount |->
                      IF i < LatchCount THEN f.fault_entry_ticks_ms[i + 1] ELSE now]
<1>1. CASE f.fault_entry_count < LatchCount
  <2> DEFINE n == f.fault_entry_count + 1
             ring == [f.fault_entry_ticks_ms EXCEPT ![n] = now]
  <2>1. n \in 0 .. LatchCount /\ ring \in [1 .. LatchCount -> Ticks]
    BY <1>1, LatchAssumption DEF FaultManagerT
  <2>2. g = [f EXCEPT !.fault_entry_ticks_ms[n] = now, !.fault_entry_count = n]
    BY <1>1, Zenon DEF RecordFaultEntry
  <2> HIDE DEF n
  <2>3. /\ g \in FaultManagerT
        /\ g.state = f.state
        /\ g.active_faults = f.active_faults
        /\ g.severity = f.severity
        /\ g.last_ok_tick_ms = f.last_ok_tick_ms
        /\ g.watchdog_fault_until_ms = f.watchdog_fault_until_ms
        /\ g.fault_entry_count = n
        /\ g.fault_entry_ticks_ms = ring
    BY <2>1, <2>2 DEF FaultManagerT
  <2> QED
    BY <1>1, <2>3, LatchAssumption DEF FaultManagerT, n
<1>2. CASE f.fault_entry_count = LatchCount
  <2> DEFINE ring == [i \in 1 .. LatchCount |->
                        IF i < LatchCount THEN f.fault_entry_ticks_ms[i + 1] ELSE now]
  <2>1. ring \in [1 .. LatchCount -> Ticks]
    BY LatchAssumption DEF FaultManagerT
  <2>2. g = [f EXCEPT !.fault_entry_ticks_ms = ring]
    BY <1>2, LatchAssumption DEF RecordFaultEntry
  <2> HIDE DEF ring
  <2>3. /\ g \in FaultManagerT
        /\ g.state = f.state
        /\ g.active_faults = f.active_faults
        /\ g.severity = f.severity
        /\ g.last_ok_tick_ms = f.last_ok_tick_ms
        /\ g.watchdog_fault_until_ms = f.watchdog_fault_until_ms
        /\ g.fault_entry_count = f.fault_entry_count
        /\ g.fault_entry_ticks_ms = ring
    BY <2>1, <2>2 DEF FaultManagerT
  <2> QED
    BY <1>2, <2>3, LatchAssumption DEF ring
<1> QED
  BY <1>1, <1>2, LatchAssumption DEF FaultManagerT

(* Setting active_faults and severity leaves the rest alone. *)
LEMMA WithActiveFaultsFields ==
  ASSUME NEW f \in FaultManagerT, NEW faults \in SUBSET FaultBits,
         NEW g, g = WithActiveFaults(f, faults)
  PROVE  /\ g \in FaultManagerT
         /\ g.active_faults = faults
         /\ g.severity = GetSeverity(faults)
         /\ g.state = f.state
         /\ g.last_ok_tick_ms = f.last_ok_tick_ms
         /\ g.watchdog_fault_until_ms = f.watchdog_fault_until_ms
         /\ g.fault_entry_ticks_ms = f.fault_entry_ticks_ms
         /\ g.fault_entry_count = f.fault_entry_count
<1> DEFINE sev == GetSeverity(faults)
<1>1. sev \in Asil
  BY GetSeverityBound
<1>2. g = [f EXCEPT !.active_faults = faults, !.severity = sev]
  BY DEF WithActiveFaults
<1> HIDE DEF sev
<1>3. /\ g \in FaultManagerT
      /\ g.active_faults = faults
      /\ g.severity = sev
      /\ g.state = f.state
      /\ g.last_ok_tick_ms = f.last_ok_tick_ms
      /\ g.watchdog_fault_until_ms = f.watchdog_fault_until_ms
      /\ g.fault_entry_ticks_ms = f.fault_entry_ticks_ms
      /\ g.fault_entry_count = f.fault_entry_count
  BY <1>1, <1>2 DEF FaultManagerT
<1> QED
  BY <1>3 DEF sev

(* Setting the state leaves the rest alone. *)
LEMMA StateFields ==
  ASSUME NEW f \in FaultManagerT, NEW s \in States, NEW g, g = [f EXCEPT !.state = s]
  PROVE  /\ g \in FaultManagerT
         /\ g.state = s
         /\ g.active_faults = f.active_faults
         /\ g.severity = f.severity
         /\ g.last_ok_tick_ms = f.last_ok_tick_ms
         /\ g.watchdog_fault_until_ms = f.watchdog_fault_until_ms
         /\ g.fault_entry_ticks_ms = f.fault_entry_ticks_ms
         /\ g.fault_entry_count = f.fault_entry_count
BY DEF FaultManagerT

(* Setting last_ok_tick_ms leaves the rest alone. *)
LEMMA OkTickFields ==
  ASSUME NEW f \in FaultManagerT, NEW t \in Ticks, NEW g, g = [f EXCEPT !.last_ok_tick_ms = t]
  PROVE  /\ g \in FaultManagerT
         /\ g.last_ok_tick_ms = t
         /\ g.state = f.state
         /\ g.active_faults = f.active_faults
         /\ g.severity = f.severity
         /\ g.watchdog_fault_until_ms = f.watchdog_fault_until_ms
         /\ g.fault_entry_ticks_ms = f.fault_entry_ticks_ms
         /\ g.fault_entry_count = f.fault_entry_count
BY DEF FaultManagerT

(* How the ring of g follows from that of f when a fault is seen at now:    *)
(* unchanged inside FAULT, one entry more on the way into it.               *)
RingAfter(f, g, now) ==
  /\ f.state = "FAULT" =>
       /\ g.fault_entry_count = f.fault_entry_count
       /\ g.fault_entry_ticks_ms = f.fault_entry_ticks_ms
  /\ f.state # "FAULT" /\ f.fault_entry_count < LatchCount =>
       /\ g.fault_entry_count = f.fault_entry_count + 1
       /\ g.fault_entry_ticks_ms =
            [f.fault_entry_ticks_ms EXCEPT ![f.fault_entry_count + 1] = now]
  /\ f.state # "FAULT" /\ f.fault_entry_count = LatchCount =>
       /\ g.fault_entry_count = LatchCount
       /\ g.fault_entry_ticks_ms =
            [i \in 1 .. LatchCount |->
               IF i < LatchCount THEN f.fault_entry_ticks_ms[i + 1] ELSE now]

(* The common tail of both operations: enter FAULT, then perhaps SHUTDOWN. *)
LEMMA FaultSeenFields ==
  ASSUME NEW f \in FaultManagerT, NEW now \in Ticks,
         NEW g, g = Escalate(EnterFault(f, now), now)
  PROVE  /\ g \in FaultManagerT
         /\ g.active_faults = f.active_faults
         /\ g.severity = f.severity
         /\ g.last_ok_tick_ms = f.last_ok_tick_ms
         /\ g.watchdog_fault_until_ms = f.watchdog_fault_until_ms
         /\ RingAfter(f, g, now)
         /\ g.state = IF f.severity >= ASIL_D \/ LatchShouldTrip(g, now)
                      THEN "SHUTDOWN" ELSE "FAULT"
<1> DEFINE e == EnterFault(f, now)
<1>1. /\ e \in FaultManagerT
      /\ e.state = "FAULT"
      /\ e.active_faults = f.active_faults
      /\ e.severity = f.severity
      /\ e.last_ok_tick_ms = f.last_ok_tick_ms
      /\ e.watchdog_fault_until_ms = f.watchdog_fault_until_ms
      /\ RingAfter(f, e, now)
  <2>1. CASE f.state = "FAULT"
    BY <2>1 DEF EnterFault, RingAfter
  <2>2. CASE f.state # "FAULT"
    <3> DEFINE r == RecordFaultEntry(f, now)
    <3>1. e = [r EXCEPT !.state = "FAULT"]
      BY <2>2 DEF EnterFault
    <3>2. r \in FaultManagerT
      BY RecordFaultEntryFields
    <3> HIDE DEF e, r
    <3>3. /\ e \in FaultManagerT
          /\ e.state = "FAULT"
          /\ e.active_faults = r.active_faults
          /\ e.severity = r.severity
          /\ e.last_ok_tick_ms = r.last_ok_tick_ms
          /\ e.watchdog_fault_until_ms = r.watchdog_fault_until_ms
          /\ e.fault_entry_ticks_ms = r.fault_entry_ticks_ms
          /\ e.fault_entry_count = r.fault_entry_count
      BY <3>1, <3>2, StateFields DEF States
    <3> QED
      BY <2>2, <3>3, RecordFaultEntryFields DEF r, RingAfter
  <2> QED
    BY <2>1, <2>2
<1>2. g = IF e.severity >= ASIL_D \/ LatchShouldTrip(e, now)
          THEN [e EXCEPT !.state = "SHUTDOWN"] ELSE e
  BY DEF Escalate
<1> HIDE DEF e
<1>3. /\ g \in FaultManagerT
      /\ g.active_faults = e.active_faults
      /\ g.severity = e.severity
      /\ g.last_ok_tick_ms = e.last_ok_tick_ms
      /\ g.watchdog_fault_until_ms = e.watchdog_fault_until_ms
      /\ g.fault_entry_ticks_ms = e.fault_entry_ticks_ms
      /\ g.fault_entry_count = e.fault_entry_count
      /\ g.state = IF e.severity >= ASIL_D \/ LatchShouldTrip(e, now)
                   THEN "SHUTDOWN" ELSE "FAULT"
  BY <1>1, <1>2, StateFields DEF States
<1>4. LatchShouldTrip(g, now) <=> LatchShouldTrip(e, now)
  BY <1>3 DEF LatchShouldTrip
<1> QED
  BY <1>1, <1>3, <1>4 DEF RingAfter

(* evaluate_hard_faults and the watchdog hold yield fault bits. *)
LEMMA TotalFaultsType ==
  ASSUME NEW f, NEW r, NEW now
  PROVE  TotalFaults(f, r, now) \in SUBSET FaultBits
BY DEF TotalFaults, EvaluateHardFaults, FaultBits

(* fault_manager_evaluate on a reading with a fault. *)
LEMMA EvaluateFaulty ==
  ASSUME NEW f \in FaultManagerT, f.state # "SHUTDOWN", NEW r, NEW now \in Ticks,
         TotalFaults(f, r, now) # {}, NEW g, g = FaultManagerEvaluate(f, r, now)
  PROVE  /\ g \in FaultManagerT
         /\ g.active_faults = TotalFaults(f, r, now)
         /\ g.severity = GetSeverity(TotalFaults(f, r, now))
         /\ g.last_ok_tick_ms = 0
         /\ g.watchdog_fault_until_ms = f.watchdog_fault_until_ms
         /\ RingAfter(f, g, now)
         /\ g.state = IF g.severity >= ASIL_D \/ LatchShouldTrip(g, now)
                      THEN "SHUTDOWN" ELSE "FAULT"
<1> DEFINE faults == TotalFaults(f, r, now)
           h == WithActiveFaults(f, faults)
           e == Escalate(EnterFault(h, now), now)
<1>1. g = [e EXCEPT !.last_ok_tick_ms = 0]
  BY Zenon DEF FaultManagerEvaluate
<1>2. faults \in SUBSET FaultBits
  BY TotalFaultsType
<1> HIDE DEF faults
<1>3. /\ h \in FaultManagerT
      /\ h.active_faults = faults
      /\ h.severity = GetSeverity(faults)
      /\ h.state = f.state
      /\ h.watchdog_fault_until_ms = f.watchdog_fault_until_ms
      /\ h.fault_entry_ticks_ms = f.fault_entry_ticks_ms
      /\ h.fault_entry_count = f.fault_entry_count
  BY <1>2, WithActiveFaultsFields
<1> HIDE DEF h
<1>4. /\ e \in FaultManagerT
      /\ e.active_faults = h.active_faults
      /\ e.severity = h.severity
      /\ e.watchdog_fault_until_ms = h.watchdog_fault_until_ms
      /\ RingAfter(h, e, now)
      /\ e.state = IF h.severity >= ASIL_D \/ LatchShouldTrip(e, now)
                   THEN "SHUTDOWN" ELSE "FAULT"
  BY <1>3, FaultSeenFields
<1> HIDE DEF e
<1>5. /\ g \in FaultManagerT
      /\ g.last_ok_tick_ms = 0
      /\ g.state = e.state
      /\ g.active_faults = e.active_faults
      /\ g.severity = e.severity
      /\ g.watchdog_fault_until_ms = e.watchdog_fault_until_ms
      /\ g.fault_entry_ticks_ms = e.fault_entry_ticks_ms
      /\ g.fault_entry_count = e.fault_entry_count
  <2>1. 0 \in Ticks
    BY TickAssumption DEF Ticks
  <2> QED
    BY <1>1, <1>4, <2>1, OkTickFields
<1>6. LatchShouldTrip(g, now) <=> LatchShouldTrip(e, now)
  BY <1>5 DEF LatchShouldTrip
<1> QED
  BY <1>3, <1>4, <1>5, <1>6 DEF RingAfter, faults

(* fault_manager_evaluate on a fault-free reading. *)
LEMMA EvaluateClean ==
  ASSUME NEW f \in FaultManagerT, f.state # "SHUTDOWN", NEW r, NEW now \in Ticks,
         TotalFaults(f, r, now) = {}, NEW g, g = FaultManagerEvaluate(f, r, now)
  PROVE  /\ g \in FaultManagerT
         /\ g.active_faults = {}
         /\ g.severity = ASIL_QM
         /\ g.watchdog_fault_until_ms = f.watchdog_fault_until_ms
         /\ g.fault_entry_ticks_ms = f.fault_entry_ticks_ms
         /\ g.fault_entry_count = f.fault_entry_count
         /\ g.state \in Quiet => g.state = Cleared(r)
         /\ \/ /\ f.state \in Quiet /\ g.state \in Quiet
               /\ g.last_ok_tick_ms = f.last_ok_tick_ms
            \/ /\ f.state = "FAULT" /\ g.state = "FAULT"
               /\ f.last_ok_tick_ms = 0 /\ g.last_ok_tick_ms = now
            \/ /\ f.state = "FAULT" /\ g.state \in Quiet
               /\ f.last_ok_tick_ms # 0 /\ g.last_ok_tick_ms = 0
               /\ TickSub(now, f.last_ok_tick_ms) >= DebounceMs
            \/ /\ f.state = "FAULT" /\ g.state = "FAULT"
               /\ f.last_ok_tick_ms # 0 /\ g.last_ok_tick_ms = f.last_ok_tick_ms
               /\ ~(TickSub(now, f.last_ok_tick_ms) >= DebounceMs)
<1> DEFINE h == WithActiveFaults(f, {})
           c == Cleared(r)
<1>1. /\ h \in FaultManagerT
      /\ h.active_faults = {}
      /\ h.severity = ASIL_QM
      /\ h.state = f.state
      /\ h.last_ok_tick_ms = f.last_ok_tick_ms
      /\ h.watchdog_fault_until_ms = f.watchdog_fault_until_ms
      /\ h.fault_entry_ticks_ms = f.fault_entry_ticks_ms
      /\ h.fault_entry_count = f.fault_entry_count
  BY WithActiveFaultsFields, GetSeverityNone
<1>2. c \in Quiet /\ c \in States
  BY DEF Cleared, Quiet, States
<1>3. f.state \in Quiet \/ f.state = "FAULT"
  BY DEF FaultManagerT, States, Quiet
<1>4. CASE f.state \in Quiet
  <2>1. g = [h EXCEPT !.state = c]
    BY <1>4, Zenon DEF FaultManagerEvaluate, Quiet
  <2> HIDE DEF h, c
  <2> QED
    BY <1>1, <1>2, <1>4, <2>1, StateFields DEF c
<1>5. CASE f.state = "FAULT"
  <2>1. g = Debounce(h, r, now)
    BY <1>5, Zenon DEF FaultManagerEvaluate
  <2> HIDE DEF h
  <2>2. CASE h.last_ok_tick_ms = 0
    <3>1. g = [h EXCEPT !.last_ok_tick_ms = now]
      BY <2>1, <2>2, Zenon DEF Debounce
    <3> QED
      BY <1>1, <1>5, <2>2, <3>1, OkTickFields DEF Quiet
  <2>3. CASE h.last_ok_tick_ms # 0 /\ TickSub(now, h.last_ok_tick_ms) >= DebounceMs
    <3>1. g = [h EXCEPT !.state = c, !.last_ok_tick_ms = 0]
      BY <2>1, <2>3, Zenon DEF Debounce
    <3>2. 0 \in Ticks
      BY TickAssumption DEF Ticks
    <3> HIDE DEF c
    <3>3. /\ g \in FaultManagerT
          /\ g.state = c
          /\ g.last_ok_tick_ms = 0
          /\ g.active_faults = h.active_faults
          /\ g.severity = h.severity
          /\ g.watchdog_fault_until_ms = h.watchdog_fault_until_ms
          /\ g.fault_entry_ticks_ms = h.fault_entry_ticks_ms
          /\ g.fault_entry_count = h.fault_entry_count
      BY <1>1, <1>2, <3>1, <3>2 DEF FaultManagerT
    <3> QED
      BY <1>1, <1>2, <1>5, <2>3, <3>3 DEF c
  <2>4. CASE h.last_ok_tick_ms # 0 /\ ~(TickSub(now, h.last_ok_tick_ms) >= DebounceMs)
    <3>1. g = h
      BY <2>1, <2>4, Zenon DEF Debounce
    <3> QED
      BY <1>1, <1>5, <2>4, <3>1 DEF Quiet
  <2> QED
    BY <2>2, <2>3, <2>4
<1> QED
  BY <1>3, <1>4, <1>5

(* fault_manager_report_watchdog_fault always ends in SHUTDOWN. *)
LEMMA ReportShutsDown ==
  ASSUME NEW f \in FaultManagerT, f.state # "SHUTDOWN", NEW now \in Ticks,
         NEW g, g = FaultManagerReportWatchdogFault(f, now)
  PROVE  /\ g \in FaultManagerT
         /\ g.state = "SHUTDOWN"
         /\ g.severity = ASIL_D
         /\ g.severity = GetSeverity(g.active_faults)
<1> DEFINE u == TickAdd(now, DebounceMs)
           w == [f EXCEPT !.watchdog_fault_until_ms = u]
           faults == w.active_faults \cup {"TASK_WATCHDOG"}
           h == WithActiveFaults(w, faults)
<1>1. g = Escalate(EnterFault(h, now), now)
  BY Zenon DEF FaultManagerReportWatchdogFault
<1>2. u \in Ticks
  <2>1. now \in Int /\ DebounceMs \in Int
    BY TickAssumption DEF Ticks
  <2> QED
    BY <2>1, TickRange
<1> HIDE DEF u
<1>3. w \in FaultManagerT
  BY <1>2 DEF FaultManagerT
<1> HIDE DEF w
<1>4. faults \in SUBSET FaultBits /\ "TASK_WATCHDOG" \in faults
  BY <1>3 DEF FaultManagerT, FaultBits
<1> HIDE DEF faults
<1>5. h \in FaultManagerT /\ h.active_faults = faults /\ h.severity = GetSeverity(faults)
  BY <1>3, <1>4, WithActiveFaultsFields
<1>6. h.severity = ASIL_D
  BY <1>4, <1>5, GetSeverityWatchdog
<1> HIDE DEF h
<1>7. /\ g \in FaultManagerT
      /\ g.active_faults = h.active_faults
      /\ g.severity = h.severity
      /\ g.state = IF h.severity >= ASIL_D \/ LatchShouldTrip(g, now)
                   THEN "SHUTDOWN" ELSE "FAULT"
  BY <1>1, <1>5, FaultSeenFields
<1>8. h.severity >= ASIL_D
  BY <1>6 DEF ASIL_D
<1> QED
  BY <1>5, <1>6, <1>7, <1>8

-----------------------------------------------------------------------------
(***************************************************************************)
(* The operations in one line each: what a caller relies on.               *)
(***************************************************************************)
Consistent(f) == f.severity = GetSeverity(f.active_faults)

(* The fault manager would shut the pack down on this reading. *)
Critical(r) == GetSeverity(EvaluateHardFaults(r)) = ASIL_D

LEMMA EvaluateDoes ==
  ASSUME NEW f \in FaultManagerT, Consistent(f), NEW r, NEW n \in Ticks,
         NEW g, g = FaultManagerEvaluate(f, r, n)
  PROVE  /\ g \in FaultManagerT /\ Consistent(g)
         /\ f.state = "SHUTDOWN" => g = f
         /\ Critical(r) => g.state = "SHUTDOWN"
<1>1. CASE f.state = "SHUTDOWN"
  <2>1. g = f
    BY <1>1, Zenon DEF FaultManagerEvaluate
  <2> QED
    BY <1>1, <2>1
<1>2. CASE f.state # "SHUTDOWN" /\ TotalFaults(f, r, n) # {}
  <2>1. /\ g \in FaultManagerT
        /\ g.active_faults = TotalFaults(f, r, n)
        /\ g.severity = GetSeverity(TotalFaults(f, r, n))
        /\ g.state = IF g.severity >= ASIL_D \/ LatchShouldTrip(g, n) THEN "SHUTDOWN" ELSE "FAULT"
    BY <1>2, EvaluateFaulty
  <2>2. ASSUME Critical(r) PROVE g.severity >= ASIL_D
    <3> DEFINE H == EvaluateHardFaults(r)
               T == TotalFaults(f, r, n)
    <3>1. H \in SUBSET FaultBits /\ T \in SUBSET FaultBits /\ H \subseteq T
      BY TotalFaultsType DEF EvaluateHardFaults, TotalFaults
    <3> HIDE DEF H, T
    <3>2. PICK b \in H : Severity[b] = ASIL_D
      <4>1. GetSeverity(H) = ASIL_D
        BY <2>2 DEF Critical, H
      <4>2. GetSeverity(H) \in {ASIL_QM} \cup {Severity[b] : b \in H}
        BY <3>1, GetSeverityBound
      <4> QED
        BY <4>1, <4>2 DEF ASIL_QM, ASIL_D
    <3>3. Severity[b] <= GetSeverity(T)
      BY <3>1, <3>2, GetSeverityBound
    <3>4. g.severity = GetSeverity(T) /\ GetSeverity(T) \in Asil
      BY <2>1, <3>1, GetSeverityBound DEF T
    <3> QED
      BY <3>2, <3>3, <3>4 DEF Asil, ASIL_D, ASIL_QM
  <2> QED
    BY <1>2, <2>1, <2>2 DEF Consistent
<1>3. CASE f.state # "SHUTDOWN" /\ TotalFaults(f, r, n) = {}
  <2>1. g \in FaultManagerT /\ g.active_faults = {} /\ g.severity = ASIL_QM
    BY <1>3, EvaluateClean
  <2>2. EvaluateHardFaults(r) = {}
    BY <1>3 DEF TotalFaults
  <2>3. ~Critical(r)
    BY <2>2, GetSeverityNone DEF Critical, ASIL_QM, ASIL_D
  <2> QED
    BY <1>3, <2>1, <2>3, GetSeverityNone DEF Consistent
<1> QED
  BY <1>1, <1>2, <1>3

LEMMA ReportDoes ==
  ASSUME NEW f \in FaultManagerT, Consistent(f), NEW n \in Ticks,
         NEW g, g = FaultManagerReportWatchdogFault(f, n)
  PROVE  /\ g \in FaultManagerT /\ Consistent(g)
         /\ f.state = "SHUTDOWN" => g = f
         /\ g.state = "SHUTDOWN"
<1>1. CASE f.state = "SHUTDOWN"
  BY <1>1, Zenon DEF FaultManagerReportWatchdogFault
<1>2. CASE f.state # "SHUTDOWN"
  BY <1>2, ReportShutsDown DEF Consistent
<1> QED
  BY <1>1, <1>2

LEMMA InitialManager ==
  /\ FaultManagerInit \in FaultManagerT
  /\ Consistent(FaultManagerInit)
  /\ FaultManagerInit.state = "NORMAL"
<1>1. 0 \in Ticks /\ 0 \in 0 .. LatchCount
  BY TickAssumption, LatchAssumption DEF Ticks
<1>2. FaultManagerInit \in FaultManagerT
  BY <1>1 DEF FaultManagerInit, FaultManagerT, States, Asil, ASIL_QM, ASIL_D
<1>3. FaultManagerInit.severity = ASIL_QM /\ FaultManagerInit.active_faults = {}
  BY DEF FaultManagerInit
<1>4. Consistent(FaultManagerInit)
  BY <1>3, GetSeverityNone DEF Consistent
<1> QED
  BY <1>2, <1>4 DEF FaultManagerInit
===============================================================================
