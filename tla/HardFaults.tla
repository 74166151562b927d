------------------------------ MODULE HardFaults ------------------------------
(***************************************************************************)
(* The classification of one cell reading: evaluate_hard_faults and        *)
(* fault_manager_get_severity of src/bms/fault_manager.c.  Pure operators, *)
(* shared by every module that evaluates readings.                         *)
(*                                                                         *)
(* A fault bitmask (uint16_t of FAULT_BIT constants) is the set of its set *)
(* bits.                                                                   *)
(* A reading is a record of two functions over Cells; the pack current     *)
(* plays no part in fault detection and is left out.                       *)
(***************************************************************************)
EXTENDS Integers

CONSTANTS
  Cells,            \* cell indices, 0 .. BMS_CELL_COUNT-1
  OvervoltageMv,    \* BMS_CELL_OVERVOLTAGE_MV
  UndervoltageMv,   \* BMS_CELL_UNDERVOLTAGE_MV
  WarningMarginMv,  \* BMS_WARNING_MARGIN_MV
  ImbalanceMv,      \* BMS_CELL_IMBALANCE_MV
  OvertempC         \* BMS_OVERTEMP_C

ASSUME ThresholdsAssumption ==
  /\ OvervoltageMv \in Nat
  /\ UndervoltageMv \in Nat
  /\ WarningMarginMv \in Nat
  /\ ImbalanceMv \in Nat
  /\ OvertempC \in Int

FaultBits == {"OVERVOLTAGE", "UNDERVOLTAGE", "OVERTEMP", "CELL_IMBALANCE", "TASK_WATCHDOG"}

CellReadings == [cell_mv : [Cells -> Nat], cell_temp_c : [Cells -> Int]]

-----------------------------------------------------------------------------
(***************************************************************************)
(* bms_asil_t and the FAULT_SEVERITIES table.                              *)
(***************************************************************************)
ASIL_QM == 0
ASIL_D == 4

Asil == ASIL_QM .. ASIL_D

Severity ==
  [OVERVOLTAGE    |-> ASIL_D,
   OVERTEMP       |-> ASIL_D,
   TASK_WATCHDOG  |-> ASIL_D,
   UNDERVOLTAGE   |-> 3,
   CELL_IMBALANCE |-> 2]

(* The worst severity among the set bits, ASIL_QM when none is set. *)
GetSeverity(faults) ==
  CHOOSE s \in {ASIL_QM} \cup {Severity[b] : b \in faults} :
    \A b \in faults : Severity[b] <= s

-----------------------------------------------------------------------------
AnyCellAtLeast(r, mv) == \E i \in Cells : r.cell_mv[i] >= mv

AnyCellAtMost(r, mv) == \E i \in Cells : r.cell_mv[i] <= mv

(* max_mv - min_mv >= d, without naming the extremes. *)
SpreadAtLeast(r, d) == \E i, j \in Cells : r.cell_mv[i] - r.cell_mv[j] >= d

HottestAtLeast(r, c) == \E i \in Cells : r.cell_temp_c[i] >= c

(* The bits evaluate_hard_faults returns. *)
EvaluateHardFaults(r) ==
  {b \in FaultBits :
     \/ b = "OVERVOLTAGE"    /\ AnyCellAtLeast(r, OvervoltageMv)
     \/ b = "UNDERVOLTAGE"   /\ AnyCellAtMost(r, UndervoltageMv)
     \/ b = "OVERTEMP"       /\ HottestAtLeast(r, OvertempC)
     \/ b = "CELL_IMBALANCE" /\ SpreadAtLeast(r, ImbalanceMv)}

(* Mutant: no margin above the lower limit. *)
WarningHighOnly(r) ==
  \E i \in Cells : OvervoltageMv - WarningMarginMv <= r.cell_mv[i] /\ r.cell_mv[i] < OvervoltageMv

(* Its *warning_out: the voltage tests are per cell, so a cell inside its    *)
(* margin warns even while another cell is past a limit; the pack-wide      *)
(* temperature and spread tests warn only below their own limit.            *)
Warning(r) ==
  \/ \E i \in Cells :
       \/ OvervoltageMv - WarningMarginMv <= r.cell_mv[i] /\ r.cell_mv[i] < OvervoltageMv
       \/ UndervoltageMv < r.cell_mv[i] /\ r.cell_mv[i] <= UndervoltageMv + WarningMarginMv
  \/ HottestAtLeast(r, OvertempC - 5) /\ ~HottestAtLeast(r, OvertempC)
  \/ SpreadAtLeast(r, (ImbalanceMv * 3) \div 4) /\ ~SpreadAtLeast(r, ImbalanceMv)
===============================================================================
