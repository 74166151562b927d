------------------------------- MODULE Discharge ------------------------------
(***************************************************************************)
(* A pack from full to empty: the cell model read by the sensor task, the  *)
(* fault manager run by the fault task and the SoC estimate of the soc     *)
(* task, around the one slot latest_reading.                               *)
(*                                                                         *)
(* Time passes in sensor periods.  Between two samples the fault task      *)
(* evaluates at least once (BmsTasks shows when: EveryReadingJudged), as   *)
(* often as it likes and before the first sample too.  The soc task        *)
(* updates once in SocEvery samples, the first time before or after the    *)
(* first sample.                                                           *)
(***************************************************************************)
EXTENDS FaultManager, CellModel, SocEstimator, Functions, FiniteSets

CONSTANTS
  Args,     \* what may stand on the command line
  SocEvery  \* TASK_PERIOD_SOC_MS / TASK_PERIOD_SENSOR_MS

ASSUME SocEveryAssumption == SocEvery \in Nat \ {0}

(* What bms_config.h's numbers have in common with the scaled ones: a fresh  *)
(* pack is inside every limit and margin, an injected voltage fits 16 bits,  *)
(* one sample drains no more than the margin, and drift_mv wraps after at    *)
(* least one sample and no later than g_elapsed_ms.                          *)
ASSUME PackAssumption ==
  /\ {0, 1, 2} \subseteq Cells
  /\ UndervoltageMv + WarningMarginMv < NominalMv
  /\ NominalMv < OvervoltageMv /\ OvervoltageMv <= 65535
  /\ NominalMv + ImbalanceMv + 20 <= 65535
  /\ ImbalanceMv > 0 /\ OvertempC > 25
  /\ StepMs <= MsPerMv * WarningMarginMv
  /\ StepMs <= DriftMod * MsPerMv /\ DriftMod * MsPerMv <= ElapsedMod

VARIABLES
  asked,     \* argv[1]
  scenario,  \* g_scenario
  elapsed,   \* g_elapsed_ms
  soc,       \* ctx->soc
  judged,    \* latest_reading has been evaluated
  rest,      \* samples until the soc task wakes up
  samples,   \* history: samples taken, up to the wrap of drift_mv
  evidence   \* history: the lowest estimate anything so far can account for

dvars == <<fm, reading, tick, gap, asked, scenario, elapsed, soc, judged, rest, samples, evidence>>

(* The sample that makes drift_mv start over at 0: after 65536 seconds. *)
WrapSample == (DriftMod * MsPerMv) \div StepMs

-----------------------------------------------------------------------------
(* Mutant: latest_reading is left as memset made it. *)
ZeroReading ==
  [cell_mv |-> [i \in Cells |-> 0], cell_temp_c |-> [i \in Cells |-> 0]]

(* app_context_init seeds latest_reading with a nominal pack. *)
SeedReading ==
  [cell_mv |-> [i \in Cells |-> NominalMv], cell_temp_c |-> [i \in Cells |-> 25]]

(* task_soc: the sum of the cells in a uint16_t, then their average. *)
CellSum(mv) == FoldFunction(+, 0, mv)
PackMv(r) == CellSum(r.cell_mv) % 65536
AvgCellMv(r) == PackMv(r) \div Cardinality(Cells)

(* The sum of the nominal cells fits pack_mv, so their average is exact. *)
ASSUME AverageAssumption ==
  /\ AvgCellMv([cell_mv |-> [i \in Cells |-> NominalMv]]) = NominalMv
  /\ \A s \in Scenarios, e \in 0 .. ElapsedMod - 1 : AvgCellMv(ModelReading(s, e)) \in Nat

(* Mutant: cell_model_set_scenario before app_context_init, whose           *)
(* cell_model_init resets the scenario.                                     *)
StartScenarioFirst(arg) == "nominal"

StartScenario(arg) == ParseScenario(arg)

DInit ==
  /\ fm = FaultManagerInit
  /\ reading = SeedReading
  /\ tick = 0 /\ gap = 0
  /\ asked \in Args
  /\ scenario = StartScenario(asked)
  /\ elapsed = 0
  /\ soc = Full
  /\ judged = TRUE /\ rest = 0
  /\ samples = 0
  /\ evidence = OcvLookup(NominalMv)

(* task_sensor: step the model, publish the reading. *)
Sample ==
  /\ judged
  /\ samples = 0 \/ rest > 0
  /\ elapsed' = (elapsed + StepMs) % ElapsedMod
  /\ reading' = ModelReading(scenario, elapsed')
  /\ tick' = TickAdd(tick, StepMs)
  /\ judged' = FALSE
  /\ rest' = IF rest > 0 THEN rest - 1 ELSE 0
  /\ samples' = IF samples < WrapSample THEN samples + 1 ELSE samples
  /\ UNCHANGED <<fm, gap, asked, scenario, soc, evidence>>

(* task_fault. *)
Judge ==
  /\ fm' = FaultManagerEvaluate(fm, reading, tick)
  /\ judged' = TRUE
  /\ UNCHANGED <<reading, tick, gap, asked, scenario, elapsed, soc, rest, samples, evidence>>

(* task_soc.  evidence follows the cells, not the copy of them in ctx. *)
Fuse ==
  /\ rest = 0
  /\ soc' \in SocUpdate(soc, AvgCellMv(reading))
  /\ LET z == OcvLookup(AvgCellMv(ModelReading(scenario, elapsed))) IN
       evidence' = Clamp((IF z < evidence THEN z ELSE evidence) - MaxMove)
  /\ rest' = SocEvery
  /\ UNCHANGED <<fm, reading, tick, gap, asked, scenario, elapsed, judged, samples>>

DNext == Sample \/ Judge \/ Fuse

DSpec == DInit /\ [][DNext]_dvars

-----------------------------------------------------------------------------
Injected ==
  [nominal |-> {}, overvoltage |-> {"OVERVOLTAGE"}, undervoltage |-> {"UNDERVOLTAGE"},
   overtemp |-> {"OVERTEMP"}, imbalance |-> {"CELL_IMBALANCE"}]

(***************************************************************************)
(* The scenario asked for on the command line is the one the fault manager *)
(* acts on, from the first sample to the last before the drift wraps: its  *)
(* fault is active, an ASIL D one has latched SHUTDOWN.  Only imbalance    *)
(* ends earlier, when every cell has been clamped to 0 mV.                 *)
(***************************************************************************)
ScenarioActs ==
  LET wanted == Injected[ParseScenario(asked)] IN
  judged /\ 0 < samples /\ samples < WrapSample =>
    /\ wanted \subseteq fm.active_faults \/ DriftMv(elapsed) > NominalMv
    /\ wanted # {} /\ GetSeverity(wanted) = ASIL_D => fm.state = "SHUTDOWN"

(***************************************************************************)
(* A discharging pack announces itself: without an injected fault the      *)
(* state is WARNING before it is FAULT, in every discharge, also in the    *)
(* ones after a wrap of the drift or of g_elapsed_ms.                      *)
(***************************************************************************)
WarnsFirst ==
  [][asked = "nominal" /\ fm.state = "NORMAL" => fm'.state # "FAULT"]_dvars

(***************************************************************************)
(* The only fault a discharging pack ever shows is undervoltage, although  *)
(* the drift exceeds the cell voltage and the difference is cast back to   *)
(* 16 unsigned bits.                                                       *)
(***************************************************************************)
OnlyDepletes == asked = "nominal" => fm.active_faults \subseteq {"UNDERVOLTAGE"}

(***************************************************************************)
(* No FAULT of any scenario, depletion included, is ever taken back before *)
(* the 16-bit drift wraps.  When it does, after 18.2 hours on a target     *)
(* that never stops, the empty pack reads 3700 mV again and recovers.      *)
(***************************************************************************)
FaultKeptUntilWrap ==
  [][fm.state = "FAULT" /\ samples < WrapSample => fm'.state \notin {"NORMAL", "WARNING"}]_dvars

(***************************************************************************)
(* The estimate never falls below the lowest voltage the cells have shown, *)
(* less the charge counted out, whichever of the soc and the sensor task   *)
(* runs first: an update before the first sample must not read the zeroed  *)
(* context as an empty pack (app_context.c:12-19).                         *)
(***************************************************************************)
SocBacked == soc >= evidence

(***************************************************************************)
(* No pack is drained unnoticed: from the first judged sample at which     *)
(* true time has taken the cells to the undervoltage limit, the state is   *)
(* FAULT or SHUTDOWN, until the drift wraps, whatever widths the time      *)
(* passes through on its way into a cell voltage.                          *)
(***************************************************************************)
DepletionCaught ==
  LET drained == (samples * StepMs) \div MsPerMv IN
  judged /\ samples < WrapSample /\ NominalMv - drained <= UndervoltageMv =>
    fm.state \in {"FAULT", "SHUTDOWN"}
===============================================================================
