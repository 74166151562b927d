----------------------------- MODULE SocEstimator -----------------------------
(***************************************************************************)
(* The state-of-charge estimate of src/bms/soc_estimator.c, in units of    *)
(* half a percent.                                                         *)
(*                                                                         *)
(* The open-circuit-voltage table and its lookup are exact.  The Kalman    *)
(* filter is floating point; what its callers can rely on is that the      *)
(* gain p00/s lies between 0 and 1, so an update puts the estimate         *)
(* somewhere between the Coulomb-counted prediction and the OCV            *)
(* measurement, and clamps it.  The gain is any multiple of 1/GainSteps,   *)
(* whatever the covariances are; what the measured current less the        *)
(* learned bias adds is anything up to MaxMove either way.                 *)
(***************************************************************************)
EXTENDS Integers

CONSTANTS
  MaxMove,   \* bound: half percents one update may count in or out
  GainSteps  \* bound: resolution of the Kalman gain

ASSUME FilterAssumption == MaxMove \in Nat /\ GainSteps \in Nat \ {0}

Full == 200

(* OCV_TABLE. *)
OcvMv == <<3000, 3300, 3400, 3500, 3600, 3700, 3800, 3900, 4000, 4100, 4200>>
OcvPercentX2 == <<0, 15, 30, 50, 70, 100, 120, 140, 160, 180, 200>>

Segments == 1 .. 10

Interpolate(i, mv) ==
  OcvPercentX2[i] +
    ((OcvPercentX2[i + 1] - OcvPercentX2[i]) * (mv - OcvMv[i])) \div (OcvMv[i + 1] - OcvMv[i])

(* The first segment the voltage lies in. *)
Segment(mv) == CHOOSE i \in Segments : OcvMv[i] < mv /\ mv <= OcvMv[i + 1]

(* soc_estimator_ocv_lookup_percent_x2, clamped at both ends. *)
OcvLookup(mv) ==
  IF mv <= 3000 THEN 0
  ELSE IF mv >= 4200 THEN Full
  ELSE Interpolate(Segment(mv), mv)

-----------------------------------------------------------------------------
Clamp(p) == IF p < 0 THEN 0 ELSE IF p > Full THEN Full ELSE p

(* The estimates soc_estimator_update may arrive at:                        *)
(* soc_pred + k_soc * (z_percent - soc_pred), clamped.                      *)
SocUpdate(soc, avg_cell_mv) ==
  LET z == OcvLookup(avg_cell_mv) IN
  {Clamp(soc + move + (k * (z - (soc + move))) \div GainSteps) :
     move \in -MaxMove .. MaxMove, k \in 0 .. GainSteps}
===============================================================================
