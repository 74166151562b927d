# Formal models of the BMS firmware simulator

TLA+ modules, TLC configurations and TLAPS proofs for the battery management
firmware in this repository. `PROJECT.json` maps each definition to the lines
it models and lists runs, mutants, findings, hazards and theorems.

    tlc -workers 2 -config FaultHistory.cfg MCFaultHistory
    tlapm FaultManagerProofs.tla

## 1. The system

Five periodic threads share one `app_context_t` under one mutex; `main` creates
them, sleeps for the simulated time, raises `g_shutdown`, joins them and tears
everything down.

| Component | State | Operations | Talks to |
|---|---|---|---|
| hard-fault classification (`bms/fault_manager.c`) | none | `evaluate_hard_faults`, `fault_manager_get_severity` | called by the state machine |
| fault state machine (`bms/fault_manager.c`) | state, active faults, severity, debounce start, watchdog hold, ring of entry times | `init`, `evaluate`, `report_watchdog_fault` | fault task, watchdog task |
| sensor, soc, fault, can, watchdog tasks (`tasks/`) | locals; heartbeats and copies in the context | one loop each | the context; the CAN HAL |
| `app_context` | latest reading, estimator, fault manager, status, three heartbeats | `app_context_init` | all tasks |
| main (`main.c`) | task handles | create, delay, request shutdown, join, destroy | all tasks |
| OSAL, POSIX (`osal/osal_posix.c`) | `g_shutdown`, start time, queues, mutexes | tasks, delay, tick, queue, mutex | everything |
| OSAL, FreeRTOS (`osal/osal_freertos.c`) | handles, a semaphore per task | the same; a join waits for the semaphore the task gives last | everything |
| CAN message format (`can/can_protocol.c`) | none | pack, unpack | can task, other nodes |
| CAN HAL, virtual and SocketCAN | subscriber table, lock, socket, reader thread | init, subscribe, send, shutdown | can task |
| cell model (`bms/cell_model.c`) | elapsed time, scenario, base voltages | init, set scenario, step | sensor task |
| SoC estimator (`bms/soc_estimator.c`) | SoC, bias, covariance (floating point) | init, update, getters | soc task |
| logger (`util/logger.c`) | its lock | init, log, shutdown | every task, the CAN callbacks |
| QEMU board support, tests, DBC tooling | | | |

**What is hard.** (a) Time: 32-bit ticks that wrap, clocks sampled before a lock
and used after it, periods that only fit together by their ratio. (b) Order:
five threads, one slot for the latest reading, a state that reaches the bus as a
copy of a copy. (c) Memory of the past: the latch and the debounce decide from a
few words what a whole history calls for. (d) Failure: a task that hangs, was
never created or does not leave its loop; a frame the bus does not take; a
condition variable whose time-out races its signal; a bus that did not come up.
(e) Teardown: a reader thread, two locks and a socket that main destroys in a
certain order; a join that frees what the task may still use. (f) Widths: drift,
voltage and pack sum of 16 bits, time in seconds and nanoseconds. The hazards in
`PROJECT.json` place each of these at its line.

**What makes each part correct.** *Fault manager:* SHUTDOWN exactly when the
latch rule or an ASIL D fault demands it, for good; FAULT while a fault is
active; out of FAULT only after a quiet debounce, but eventually. *Tasks:* every
sample judged; an ASIL D reading acted upon within a fault period; a hung
monitored task noticed within a bound and nobody else accused; the bus informed
within a bound. *main:* every thread joined, no mutex used afterwards. *Queue:*
a bounded FIFO, no lost wake-up, every call returns. *Message format:* decode
after encode is the identity, and incomplete frames are refused. *CAN HAL:* each
frame once to each subscriber, nothing after shutdown, no dead lock taken, no
socket closed under its reader. *OSAL tasks:* a join waits, frees what nobody
uses and leaks nothing. *Clock:* the tick is accurate and never goes backward.
*Cell model and estimator:* each scenario shows its fault, depletion warns and is
caught, the estimate is backed by the cells.

## 2. Modules

| Module | Models | Lines of the code |
|---|---|---|
| `HardFaults` | limits, warning zone, severities, as operators on a reading | `fault_manager.c:20-84` |
| `FaultManagerOps` | the state machine's functions as operators on `fault_manager_t` | `fault_manager.c:4-142` |
| `FaultManager` | one fault manager and what its two callers may do | `task_fault.c`, `task_watchdog.c` |
| `FaultHistory` | `FaultManager` with a history that the code does not keep: true time, all FAULT entries, start of the quiet period | |
| `BmsTasks` | the five tasks, the context, main, time, lateness, hangs, a lossy bus; instantiates `FaultManager` | `tasks/*.c`, `main.c` |
| `CellModel` | the simulated pack as operators on elapsed time and scenario | `cell_model.c`, `main.c:16-23` |
| `SocEstimator` | OCV table and lookup exactly, the filter by its bounds | `soc_estimator.c:10-126` |
| `Discharge` | `FaultManager`, `CellModel` and `SocEstimator` around `latest_reading` | `task_sensor.c`, `task_soc.c`, `task_fault.c`, `app_context.c`, `main.c:26-37` |
| `CanBus` | what `can_hal.h` promises a subscriber | `can_hal.h:39-47` |
| `CanHal` | both backends, the reader thread, the can task as their user, main and the logger's lock | `can_hal_virtual.c`, `can_hal_socketcan.c`, `logger.c`, `main.c` |
| `OsalTasks` | create, trampoline and join on both systems | `osal_posix.c:69-99`, `osal_freertos.c:43-83` |
| `OsalClock` | tick, deadline and delay as arithmetic | `osal_posix.c:48-67,101-126` |
| `BoundedFifo` | what a queue promises | `osal.h:34` |
| `OsalQueue` | the ring buffer with mutex and condition variables | `osal_posix.c:108-164` |
| `CanProtocol` | pack, the SocketCAN copy, unpack | `can_protocol.c`, `can_hal_socketcan.c:86-120,179-201` |
| `MC*` | instances for TLC | |
| `FaultManagerLemmas` | what the operators of `FaultManagerOps` return | |
| `FaultManagerProofs`, `BmsTasksProofs`, `DischargeProofs`, `OsalProofs`, `OsalQueueProofs`, `CanHalProofs`, `CanProtocolProofs` | theorems and proofs, see section 4 | |

**HardFaults / FaultManager.** A reading has any finite set of cells. The
`int warning` out-parameter is the operator `Warning`, the loop over cells a
quantifier. `fault_manager_t` is the record `fm`, field by field;
`fault_entry_ticks_ms` is a sequence of `LatchCount` ticks. Each C function is
an operator from the old record to the new one. Ticks are `0 .. TickMod - 1`
with `+` and `-` modulo `TickMod` (2^32 in the code). The actions are what the
callers do: `Publish` (sensor), `Evaluate` (fault), `ReportWatchdogFault`
(watchdog, at any tick, since its sample may be old), `Advance` (the fault task
samples the clock again; `MaxGap` bounds the time between two evaluations).

**FaultHistory.** The specification of the latch speaks of all FAULT entries
ever made and of true time; the code keeps three entries and a wrapping counter.
`entries`, `okSince` and the unbounded `clock` record what really happened, and
the properties compare the two.

**BmsTasks.** A thread is a program counter and a wake-up time. An iteration is
`Begin` (wake, test `g_shutdown`, sample `now` where the code does so before the
lock), the critical section as one step, what follows it, and the delay. The
soc, sensor and fault tasks do everything inside the critical section. The can
task sends after it, so `CanSnapshot` and `CanSend` are two steps; the three
sends of one iteration are one step, and the bus state is what the other nodes
last received. The watchdog judges outside the lock and reports under a second
lock: `WatchdogSnapshot` and `WatchdogReport`. `Tick` advances time unless a
thread would exceed its lateness `MaxLag`; that is the only thing assumed of the
scheduler, and lateness makes all interleavings of steps within an instant, and
across one tick, possible. `Hang` stops a task of `Mortal` at any iteration;
`Created` leaves out tasks whose creation failed, which main does not notice; they
count as NULL handles, a handle without a thread is `OsalTasks`' and `CanHal`'s
subject.
Left out here: the SoC estimate and the pack totals (`Discharge` has them) and
the cell voltages on the bus.

**CellModel / SocEstimator / Discharge.** A reading is a function of scenario
and elapsed time; `g_elapsed_ms`, `drift_mv` and the cell voltage wrap or clamp
at their own widths. The estimate is an integer in half percents. The Kalman
gain is `p00/s` with `p00, s > 0`, so it lies between 0 and 1: an update may use
any multiple of `1/GainSteps`, and the charge counted since the last update,
less the learned bias, is anything up to `MaxMove` either way. In `Discharge`
the sensor task takes a sample per `StepMs`, the fault task evaluates at least
once in between (which `BmsTasks` shows as `EveryReadingJudged`) and the soc
task fuses every `SocEvery` samples, the first time before or after the first
sample. `samples` and `evidence` are history: true time, and the lowest estimate
that the real cells can account for.

**CanHal.** main runs from `logger_init` to `logger_shutdown` and links either
backend. Locks are flags: what the code can get wrong is to take one that is
NULL, which ends the program (`crashed`). `can_hal_init` may fail in every place
where it can, and the logger's mutex may be missing on the FreeRTOS port, which
links the virtual bus (`log_ok` remembers it; the POSIX `osal_mutex_create` never
returns NULL). The reader thread may not come to exist, may be in `read()` (a
frame, the 200 ms time-out, an error) or in a callback when main shuts down. A
thread that does not come to exist leaves a NULL handle when there is no memory,
and a handle without a thread when `pthread_create` fails (`osal_posix.c:90`), for
the reader and for the can task alike. `osal_task_join` on the latter reads a
thread id nobody wrote: it returns, or main never comes back (`lost`).
Frames are told apart only by whether `on_charge_command` logs them. The can
task subscribes as often as the table allows, which the interface permits,
although this program does it once. `ImplementsCanBus` maps `subs` to the table
and `todo` to the rest of the copied one.

**OsalTasks.** The object `*t` and the semaphore are `none`, `live`, `freed` (or
`deleted`); a step that touches one that is not live adds its task to `touched`. A
thread is `ready`, in its function, `returned` (FreeRTOS: before the give) and
`gone`. Creation fails at every allocation; on POSIX it may also "succeed" without
a thread, since `pthread_create`'s result is dropped. Joining such a handle is
undefined (`JoinUndefined`): it returns, or the client is stuck in it.
`portMAX_DELAY` is no endless wait here: `FreeRTOSConfig.h:61` sets
`INCLUDE_vTaskSuspend` to 0, so that `xSemaphoreTake` gives up after 2^32 - 1
ticks, and `osal_task_join` does not look at its result (`JoinExpires`; `late`
holds the tasks whose join gave up). No build in the repository joins on that
target.

**OsalClock.** Operators only. C's division rounds toward zero, which is where
the two differences of `osal_get_tick_ms` matter; TLA+'s does not, hence `CDiv`.

**OsalQueue.** The mutex is free only inside `pthread_cond_timedwait`, so what
happens between two waits is a step. A waiter is woken by a signal or
spuriously, or its deadline passes; an expired thread returns 0 when it gets the
mutex. A signal never goes to a thread that has expired, as in glibc.

**CanProtocol.** Byte-exact packing. The receiver's frame has any length from 0
to 64: CAN-FD rounds lengths up, and another node may send fewer bytes under the
same identifier. The identifier is cut to its 11 bits, which changes none of the
four this program uses. Behind the received length the reader's stack frame holds
anything (`Garbage`).

## 3. Runs

Limits of the cells are those of `bms_config.h`; times are scaled down, ratios
kept where they matter.

| Run | Question | Result |
|---|---|---|
| `fault_history` | Does the state machine do what the history calls for, and does the inductive invariant hold across a wrap of the tick? Does FAULT end in time when its cause is gone? | hold |
| `heartbeats` | Is every hung monitored task caught in time, and nobody else accused? | holds, up to the clock race |
| `stale_race` | Does a stale heartbeat mean that a task is gone? | no: the clock race |
| `shared_context` | Do the tasks implement `FaultManager`? Can a receiver trust a FAULT_REPORT on a bus that loses frames? Does every loop end, and nobody use a destroyed mutex? | hold |
| `broadcast` | Is every sample judged, an ASIL D reading acted upon in one period, a SHUTDOWN on the bus in time? | hold |
| `hung_soc` | ... even if the soc task hangs? | no: BMS_STATUS keeps the old state |
| `hung_can` | Does the watchdog notice whichever task hangs? | no: the can task stamps no heartbeat |
| `queue` | Is the queue a bounded FIFO without lost wake-ups, and does every call return? | hold |
| `can_format` | Is decoding exact? | holds |
| `can_hal` | Do both backends implement the bus? Is every lock alive when taken, the socket open while it is read, the reader alive? Does shutdown return on a silent and on a busy bus? | hold, but for a failed `can_hal_init`, a logger without a lock and threads that were never created |
| `discharge` | Does each scenario show its fault, does depletion warn first and stay caught, is the estimate backed by the cells? | hold, until the 16-bit drift wraps |
| `osal_tasks` | Does a join wait, free nothing in use, leak nothing and return? | hold, but for the task whose `pthread_create` failed unnoticed and the one whose FreeRTOS join timed out |

**Bounds, and why they are enough.** *Fault manager:* two cells and one reading
for each class the limits tell apart; `LatchCount = 3` as in the code, and
enough time (`MaxClock`) for more entries than the ring holds, so that it
shifts, and for the window to be left. `TickMod` is smaller than `MaxClock`, so
that the counter wraps while entries and a debounce are pending.
`Debounce < Window < TickMod` as in the code. *Tasks:* times are in units of the
fault period. Each question is asked with the tasks that take part in it, since
the product of all five is large: `heartbeats` leaves out can, which stamps no
heartbeat; `broadcast` leaves out the watchdog; `shared_context` leaves out soc,
as if its creation had failed, so that the watchdog really reports, also while a
lesser fault is being sent. `MaxLag = 1` lets any other task, and time, come
between two steps of an iteration; in `broadcast` the sensor period is the smallest for which no sample is lost with that lag
(`SensorPeriod > FaultPeriod + MaxLag`, which the code's 100 ms and 50 ms meet
as long as the fault task is less than 50 ms late). `MaxClock` lies beyond the
last deadline a property speaks of; a run that reaches it stops there.
`hung_soc` and `hung_can` have all five tasks and no lag: one schedule is enough for
a counterexample; `EveryHangCaught` does hold in the instance of `heartbeats`, where
only monitored tasks hang. In `heartbeats` `MaxClock` exceeds `DetectionBound` by more than a soc period, so that a
task can beat, hang and be caught.
`DetectionBound`, `FaultPeriod + MaxLag`, `SocPeriod + CanPeriod + 3 * MaxLag`
and `LongestDelay[t] + 3 * MaxLag` are the latencies the code achieves; a mutant
shows that each is not vacuous. *Queue:* two senders, two receivers, two slots:
the ring wraps, and a second waiter of either kind may overtake the one that was
signalled. *CAN:* five cells, values around byte and sign boundaries.
*CanHal:* three table entries (8 in the code) and a socket queue of three: the
table fills while frames are dispatched, and main may stop at each moment.
*Discharge:* the pack and limits of `bms_config.h` with all five cells; 1 mV per
2 ms and a drift of 12 bits instead of 1 mV per second and 16 bits, so that the
drift passes the cell voltage (3700 < 4096) and wraps, and `g_elapsed_ms` and
the tick wrap too, within some hundred samples; 50 mV per sample is the warning
margin, the coarsest step for which a warning can be promised. `GainSteps = 2`
includes the two extremes of the gain. *OsalTasks:* three tasks on each system.

**Fairness.** The fault manager needs none: `MaxGap` bounds the time between two
evaluations, which `BmsTasks` shows of the fault task (`ImplementsFaultManager`),
so that recovery is a bound (`RecoversInTime`) and not a hope. `BmsTasks` needs none: its deadlines are
invariants of the clock, and deadlock is checked, so that time cannot stop
before main is done. `OsalQueue!FairSpec`: a woken or expired thread eventually
gets the mutex; a deadline is absolute and computed once before the loop, so a
thread that is woken in vain again and again still meets it (strong fairness of
`Expire`); nobody has to call anything. `CanHal!FairSpec`: threads are scheduled,
callbacks return, and `read()` returns because of `SO_RCVTIMEO`; frames need not
arrive and main need not wake up (on the target it never does).
`OsalTasks!FairSpec`: task functions return (`ExitsInTime`) and a join that can
return does; no time-out and no undefined join has to happen.

**Findings.** The three runs that end in a violation, `stale_race`, `hung_soc` and
`hung_can`, are described in `PROJECT.json`.

**Observations.** Further disagreements that the models show and no run is kept
for; each can be seen with the modules as they are.

- *Latch across a wrap* (`fault_manager.c:17`): an entry recorded a whole wrap of
  the tick ago (49.7 days) counts as recent. `ShutdownJustified` as an invariant
  of `fault_history`'s instance is violated; `JustifiedUntilWrap`, which is
  proved, says that this is the only way.
- *Time-out beside an item* (`osal_posix.c:153`): the count is not tested again
  after ETIMEDOUT, so "empty, timed out" may be returned while there is an item:
  `GiveUp` is enabled with `count > 0`. The item is not lost (`ImplementsFifo`).
- *Failed CAN initialisation* (`main.c:33`): the result is ignored and the can
  task's `can_hal_subscribe` then locks a NULL mutex. `LocksLive` without its
  exception is violated.
- *A logger without a lock* (`logger.c:17`): `logger_init` does not look at what
  `osal_mutex_create` returns; on a port without the malloc-failed hook the first
  log line would lock NULL. `LocksLive` names it as its other exception.
- *Unnoticed `pthread_create` failure* (`osal_posix.c:90`): the join then uses a
  thread id that was never written, and a SocketCAN layer without its reader
  (`can_hal_socketcan.c:163`) reports success and hears nothing. `NoUseAfterFree`,
  `JoinReturns`, `ShutdownReturns` and `Heard` name these cases.
- *Bounded join on FreeRTOS* (`osal_freertos.c:80`): after 2^32 - 1 ticks the join
  frees the object of a task that still runs. `osal_mutex_lock` waits with
  `portMAX_DELAY` too and would go on without the mutex after the same time.
- *Own frames*: the virtual bus hands a frame to the sender's own callbacks,
  while a CAN_RAW socket does not hear its own frames. No property depends on it.
- *Drift* (`cell_model.c:24`): after 65536 s an empty simulated pack reads 3700 mV
  again and the fault manager recovers from FAULT.
- *Warning before clear*: `fault_manager.h:21` says "FAULT auto-clears back to
  WARNING", while `fault_manager.c:118` leaves FAULT for WARNING or NORMAL,
  whichever the reading is in.

## 4. Proofs

Every invariant, action property and refinement that a passing run checks is
also a theorem, for every value of the constants that the named assumptions and
hypotheses allow. What stays with TLC is listed at the end of the section.

**FaultManagerLemmas** says once what an evaluation does: `EvaluateFaulty` and
`EvaluateClean` (the two branches), `EvaluateDoes` and `ReportDoes` (what every
call keeps: type, latched SHUTDOWN, severity that matches the faults),
`GetSeverityBound` (the severity of a set is that of its worst member).

**FaultManager.** `FaultManagerProofs`, for every finite pack, all limits, every debounce,
window, latch count and tick width allowed by the assumptions:

- `Summary`: `HSpec => []IInv`. `IInv` is the inductive invariant. The safety
  properties are not inductive alone: that no latch is missed depends on what
  the ring holds, so `RingHoldsLast` says that it holds the low words of the
  last entries, oldest first; the debounce rule depends on `last_ok_tick_ms`, so
  `DebounceTracks` says that it never claims more quiet time than there was;
  both need that the history lies in the past. All of it holds across wraps.
- `TypeCorrect`, `Protective`, `HoldUnused`, `NoLatchMissed` follow from `IInv`;
  `DebounceHeld` and `Latched` are action properties proved from it.
- `Justified`: `HSpec => []JustifiedUntilWrap`. While the true time is below
  `TickMod` a wrapped tick difference is the true one, so a latch that trips is a
  real burst. Beyond that it is false (see the observations in section 3).
- `FaultEnds`: `RecoversInTime`, if `GapFits` (gap and debounce fit into a wrap:
  50 and 300 ms against 2^32 ms). The bound is not inductive: it needs the true
  start of the debounce that `last_ok_tick_ms` stands for, which `DebounceRuns`
  keeps; a debounce that starts at tick 0 starts one evaluation later, and that
  is all the sentinel costs.

The assumptions: `ThresholdsAssumption` (the limits are numbers; their order is not
needed), `TickAssumption` (debounce and window are shorter than a wrap),
`LatchAssumption`, `ReadingsAssumption`, `GapAssumption`, `ClockAssumption`. TLC
evaluates them on every run.

**CAN message format.** `CanProtocolProofs`: `Decodes`, `Spec => []DecodesExactly` for every pack of up
to 32 cells (what 64 bytes hold) and every message. It rests on the byte round
trip, the cast round trip and one decoding lemma per message. `PackedFits`: every
packed frame consists of bytes and fits 64 of them.

**BmsTasks.** `BmsTasksProofs`, for every pack, all periods, lags and durations,
every set of tasks created and every set of tasks that may hang. One invariant
carries the rest, `Base`: types, severities that match their faults in every
copy, and which program counters go with which phase of main. On it stand:

- `ContextTyped`, `ReportsConsistent`, `MutexOutlivesTasks`: from `Base` alone.
- `LoopsExit`: `ExitsInTime` needs to know when each sleep ends, which is `Timed`
  (no thread runs later than its wake-up and the lag, none sleeps longer than its
  longest delay) and `Ending` (the last iteration begins before main's request).
- `CriticalCaught`: `AsilDCaught`, from `CriticalWaits`: a critical reading finds
  the fault task at most one period away.
- `SamplesJudged`: `EveryReadingJudged`, from `FaultFirst`: while a reading is not
  evaluated the fault task's turn comes before the sensor task's.
- `AccusationsExplained`: `StaleMeansGoneOrRaced`, from `Samples` (a heartbeat
  lies in the past and a task that runs beats again one period and lag later) and
  `FreshAtSample` (when the watchdog samples the clock every living heartbeat is
  fresh; only the race afterwards can make one look stale).
- `HangsCaught`: `StaleCaught`, from `LookAhead`: the watchdog's next look is never
  further from any heartbeat than threshold, period and lag.
- `NewsArrives`: `ShutdownBroadcast`, from `Copies` (no copy of the state is ahead
  of the one it was taken from, and a SHUTDOWN travels with the final report) and
  `OnItsWay` (how far the news can still be from the bus).
- `TasksDriveManager`: `ImplementsFaultManager`. Each task step is an action of
  `FaultManager` or leaves its variables alone; that two evaluations are not
  further apart than the instance's `MaxGap` comes from `Timed` and `Samples`.

Four hypotheses name what a theorem needs beyond the assumptions:

| Hypothesis | Says | In the code |
|---|---|---|
| `NoWrap` | the run ends before the tick wraps | the simulation ends after seconds; a target wraps after 49.7 days, and what happens then is `fault_history`'s subject |
| `PeriodsFit` | each monitored period and its lag fit below `StaleMs` | 100, 500 and 50 ms against 1000 ms: true for lags up to 475 ms |
| `WatchdogUp` | the watchdog exists and does not hang; its grace delay is within the bound | 200 ms against 1200 ms; nobody watches the watchdog |
| `Carried` | soc and can tasks run, no frame is lost | otherwise false: run `hung_soc`, and `task_can.c:50` |

`SamplesJudged` asks for `FaultPeriod + MaxLag < SensorPeriod`: 50 ms and a lag
below 50 ms against 100 ms. The runs' instances satisfy the hypotheses of the
properties they check, so that no theorem is vacuous where TLC looks.

**Discharge.** `DischargeProofs`, for every pack that satisfies `PackAssumption`
(cells 0 to 2 exist, a fresh pack is inside all limits and margins, injected
voltages fit 16 bits, one sample drains at most the warning margin, `drift_mv`
wraps after at least one sample and not later than `g_elapsed_ms`: the numbers of
`bms_config.h` and those of the run do) and `AverageAssumption` (the average of a
nominal pack is `NominalMv`: 5 * 3700 fits the 16 bits of `pack_mv`).

- Operators: `OcvMonotone`, from one lemma per segment of the table;
  `UpdateBetween`: for every gain and every charge counted, an update ends between
  the OCV measurement and the old estimate with the charge counted in or out;
  `DriftExact` (before the wrap the 16 bits hold the true drift), `DriftStep` (one
  sample drains at most the margin, also across both wraps), `ScenarioShows`
  (each scenario has its fault in every reading).
- `DInv` is inductive: `DTyped` (the reading is the seed before the first sample
  and the model's ever after; elapsed time is true time until the wrap), `Follows`
  (a judged faulty reading means FAULT or SHUTDOWN, a FAULT means that the reading
  is still faulty), `Depletes` (NORMAL leaves a margin for one more sample).
- `ScenarioTakesEffect`, `DepletionOnly`, `DepletionNoticed`, and the action
  properties `WarningComesFirst` and `FaultStays`, follow. `EstimateBacked` is
  `SocBacked` from `UpdateBetween` and `Backed` (evidence starts at the nominal
  voltage and only falls, so an update before the first sample is covered).

**OsalQueue.** `OsalQueueProofs`, for every capacity, all items and any finite
sets of threads: `RingSafe` (the slots in use hold items, `Filled`), `RingIsFifo`
(the refinement of `BoundedFifo`; appending at the tail and removing at the head
of the ring are `Append` and `Tail` of the queue it stands for), `WakeupsKept`:
`NoLostWakeup` is inductive as it stands, by counting the threads that were woken.

**CanHal.** `CanHalProofs`, with either backend, any callbacks, every table size
and queue length: `HalTyped`, `LocksExist`, `SocketOpen`, `ReaderListens`, from one
invariant `CInv` that says who exists while main is where (`LocksByPhase`,
`CanByPhase`, `ReaderByPhase`, `TodoByPhase`), whichever locks and threads could be
created, and `HalIsBus`, the refinement of `CanBus`.

**OSAL tasks and clock.** `OsalProofs`: `HandlesConsistent`, `Spec => []TInv`, for
any set of tasks on both systems. That nothing freed is used is not inductive: it
depends on which states of handle, object, semaphore and thread go together,
which is `Consistent` (the semaphore is given exactly when the task is gone,
everything exists exactly while the handle is valid). A task whose thread never was
or whose join timed out is the exception, and only for itself. `MemorySafe`, `JoinWaits`
and `HeapClean` follow. `TickAccurate` (within a millisecond of true time),
`TickMonotone`, `DeadlineExact`, `DelayExact` hold for all times. The deadlines
and ticks are unbounded here, so no run checks them.

**Only model-checked.** Liveness (`CallsReturn`, `ShutdownReturns`,
`Heard`, `JoinReturns`), since fairness and ENABLED are out of the prover's reach.
That the sum of the cells is computed right: it is a fold over the pack, which the
prover cannot unfold, so `AverageAssumption` states the two facts the proofs use
and TLC evaluates them. The three violations (`stale_race`, `hung_soc`,
`hung_can`), which are counterexamples. The timing theorems of `BmsTasks` marked `NoWrap` say nothing of a
run across a wrap of the tick; no run crosses it there either.

## 5. What is not modelled

- *The Kalman filter's numbers.* Covariances, bias and gain are floating point;
  the model keeps what follows for any gain between 0 and 1. How fast the
  estimate converges, and the getters for variance and bias, are left out.
- *The FreeRTOS queue, mutex, tick and scheduler functions.* Each is one call of
  the kernel, whose source is a submodule and not in the repository. Priorities
  are not modelled: the tasks interleave freely, which includes every schedule
  priorities allow. On the target the malloc-failed hook (`freertos_hooks.c`)
  stops the system before the cleanup in `osal_task_create` can run; `OsalTasks`
  models the cleanup.
- *A queue that could not be created.* `OsalQueue` starts with the queue that
  `osal_queue_create` returns when both allocations succeed. When the first fails
  it returns NULL, on which there is nothing to do; the second is not checked
  (`osal_posix.c:109-111`), and the first send would write through a NULL `buf`.
- *Text*: the logger's lines, the final printout.
- *QEMU board support*: registers, vectors, linker symbols. `board_main.c` makes
  the calls of main up to the creation of the tasks; a main that sleeps for ever
  is included in `CanHal` and `Discharge`.
- *Blocking output.* The watchdog logs before it reports (`task_watchdog.c:35`);
  a task that blocks in `printf` with the logger's lock would stop it. A hang in
  `BmsTasks` holds no lock, since no critical section of the context calls
  anything that can block.
- *Setting the wall clock* while a queue call waits on CLOCK_REALTIME: a deadline
  in `OsalQueue` may pass at any time, which includes it.
- *Tests, fuzzing, DBC tooling*: read as statements of intent.

## 6. Plan

1. Proofs without `NoWrap`: heartbeat ages across a wrap of the tick, where the
   code compares tick differences modulo 2^32, and the watchdog's sample of the
   clock that may lie before a heartbeat.
2. `BmsTasks` with the logger's lock: the fault task's log line and the
   watchdog's before its report, with output that blocks.
