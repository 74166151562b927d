------------------------------- MODULE CellModel ------------------------------
(***************************************************************************)
(* The simulated pack of src/bms/cell_model.c: what the analog front end   *)
(* would read after elapsed milliseconds in a scenario.  The pack current  *)
(* is a constant and enters only the SoC estimate.                         *)
(***************************************************************************)
EXTENDS HardFaults

CONSTANTS
  NominalMv,   \* BMS_CELL_NOMINAL_MV
  MsPerMv,     \* 1000: the pack loses 1 mV per second
  DriftMod,    \* 2^16: the range of drift_mv
  ElapsedMod,  \* 2^32: the range of g_elapsed_ms
  StepMs       \* TASK_PERIOD_SENSOR_MS

ASSUME CellModelAssumption ==
  /\ NominalMv \in Nat
  /\ {MsPerMv, DriftMod, ElapsedMod, StepMs} \subseteq Nat \ {0}

Scenarios == {"nominal", "overvoltage", "undervoltage", "overtemp", "imbalance"}

(* Anything else on the command line, or nothing, is the nominal scenario. *)
ParseScenario(arg) == IF arg \in Scenarios THEN arg ELSE "nominal"

(* Mutant: a type of half the width. *)
DriftMvShort(elapsed) == (elapsed \div MsPerMv) % (DriftMod \div 2)

(* Mutant: a drift of one byte. *)
DriftMvByte(elapsed) == (elapsed \div MsPerMv) % 256

DriftMv(elapsed) == (elapsed \div MsPerMv) % DriftMod

(* Mutant: no clamp, the cast to uint16_t wraps. *)
Wrap16(mv) == mv % 65536

Clamp16(mv) == IF mv < 0 THEN 0 ELSE IF mv > 65535 THEN 65535 ELSE mv

(* One injected fault per scenario, each in a cell of its own. *)
CellMv(scenario, i, elapsed) ==
  LET mv == NominalMv - DriftMv(elapsed) IN
  Clamp16(CASE scenario = "overvoltage" /\ i = 0 -> OvervoltageMv + 50
            [] scenario = "undervoltage" /\ i = 0 -> UndervoltageMv - 50
            [] scenario = "imbalance" /\ i = 2 -> mv + ImbalanceMv + 20
            [] OTHER -> mv)

CellTempC(scenario, i) ==
  IF scenario = "overtemp" /\ i = 1 THEN OvertempC + 5 ELSE 25

(* The reading cell_model_step returns. *)
ModelReading(scenario, elapsed) ==
  [cell_mv     |-> [i \in Cells |-> CellMv(scenario, i, elapsed)],
   cell_temp_c |-> [i \in Cells |-> CellTempC(scenario, i)]]
===============================================================================
