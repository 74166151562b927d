---------------------------- MODULE DischargeProofs ---------------------------
(***************************************************************************)
(* Proofs about the discharge of a pack and the operators it is built      *)
(* from: the OCV lookup and the update of the estimate (SocEstimator), the *)
(* simulated cells (CellModel), and the composed system, for every pack    *)
(* that satisfies PackAssumption and AverageAssumption.                    *)
(***************************************************************************)
EXTENDS Discharge, FaultManagerLemmas, TLAPS

(* The segment of a voltage strictly inside the table. *)
In(i, mv) == OcvMv[i] < mv /\ mv <= OcvMv[i + 1]

LEMMA SegmentExists ==
  ASSUME NEW mv \in Nat, 3000 < mv, mv < 4200
  PROVE  \E i \in Segments : In(i, mv)
<1>1. CASE mv <= 3600
  BY <1>1 DEF In, OcvMv, Segments
<1>2. CASE mv > 3600
  BY <1>2 DEF In, OcvMv, Segments
<1> QED
  BY <1>1, <1>2

LEMMA LookupInside ==
  ASSUME NEW mv \in Nat, 3000 < mv, mv < 4200
  PROVE  \E i \in Segments : In(i, mv) /\ OcvLookup(mv) = Interpolate(i, mv)
<1>1. Segment(mv) \in Segments /\ In(Segment(mv), mv)
  BY SegmentExists DEF In, Segment
<1>2. OcvLookup(mv) = Interpolate(Segment(mv), mv)
  BY DEF OcvLookup
<1> QED
  BY <1>1, <1>2

(* Inside a segment the value lies between the two table entries. *)
LEMMA InterpolateRange ==
  ASSUME NEW mv \in Nat, NEW i \in Segments, In(i, mv)
  PROVE  /\ Interpolate(i, mv) \in Nat
         /\ OcvPercentX2[i] <= Interpolate(i, mv)
         /\ Interpolate(i, mv) <= OcvPercentX2[i + 1]
BY DEF Interpolate, In, OcvMv, OcvPercentX2, Segments

LEMMA InterpolateMonotone ==
  ASSUME NEW a \in Nat, NEW b \in Nat, a <= b, NEW i \in Segments, In(i, a), In(i, b)
  PROVE  Interpolate(i, a) <= Interpolate(i, b)
BY DEF Interpolate, In, OcvMv, OcvPercentX2, Segments

LEMMA LookupType ==
  ASSUME NEW mv \in Nat
  PROVE  OcvLookup(mv) \in Nat /\ OcvLookup(mv) <= Full
<1>1. CASE 3000 < mv /\ mv < 4200
  <2>1. PICK i \in Segments : In(i, mv) /\ OcvLookup(mv) = Interpolate(i, mv)
    BY <1>1, LookupInside
  <2>2. OcvPercentX2[i + 1] <= Full
    BY DEF OcvPercentX2, Segments, Full
  <2>3. OcvPercentX2[i + 1] \in Nat
    BY DEF OcvPercentX2, Segments
  <2> QED
    BY <2>1, <2>2, <2>3, InterpolateRange DEF Full
<1>2. CASE mv <= 3000 \/ mv >= 4200
  BY <1>2 DEF OcvLookup, Full
<1> QED
  BY <1>1, <1>2

(* Whatever lies in an earlier segment is at most what lies in a later one. *)
LEMMA SegmentsOrdered ==
  ASSUME NEW a \in Nat, NEW b \in Nat, a <= b,
         NEW i \in Segments, NEW j \in Segments, In(i, a), In(j, b)
  PROVE  i = j \/ OcvPercentX2[i + 1] <= OcvPercentX2[j]
BY DEF In, OcvMv, OcvPercentX2, Segments

LEMMA TableType == \A i \in 1 .. 11 : OcvPercentX2[i] \in Nat
BY DEF OcvPercentX2

(***************************************************************************)
(* A higher cell voltage never reads as a lower state of charge, over      *)
(* segment boundaries, clamps and the rounding of the integer division     *)
(* (soc_estimator_ocv_lookup_percent_x2), and the result fits its uint8_t. *)
(***************************************************************************)
THEOREM OcvMonotone ==
  ASSUME NEW a \in Nat, NEW b \in Nat, a <= b
  PROVE  0 <= OcvLookup(a) /\ OcvLookup(a) <= OcvLookup(b) /\ OcvLookup(b) <= Full
<1> USE DEF Full
<1>1. /\ OcvLookup(a) \in Nat /\ OcvLookup(a) <= Full
      /\ OcvLookup(b) \in Nat /\ OcvLookup(b) <= Full
  BY LookupType
<1>2. CASE a <= 3000
  BY <1>1, <1>2 DEF OcvLookup
<1>3. CASE b >= 4200
  BY <1>1, <1>3 DEF OcvLookup
<1>4. CASE 3000 < a /\ b < 4200
  <2>1. PICK i \in Segments : In(i, a) /\ OcvLookup(a) = Interpolate(i, a)
    BY <1>4, LookupInside
  <2>2. PICK j \in Segments : In(j, b) /\ OcvLookup(b) = Interpolate(j, b)
    BY <1>4, LookupInside
  <2>3. CASE i = j
    BY <1>1, <2>1, <2>2, <2>3, InterpolateMonotone
  <2>4. CASE OcvPercentX2[i + 1] <= OcvPercentX2[j]
    <3>1. OcvPercentX2[i + 1] \in Nat /\ OcvPercentX2[j] \in Nat
      BY TableType DEF Segments
    <3> QED
      BY <1>1, <2>1, <2>2, <2>4, <3>1, InterpolateRange
  <2> QED
    BY <2>1, <2>2, <2>3, <2>4, SegmentsOrdered
<1> QED
  BY <1>2, <1>3, <1>4

-----------------------------------------------------------------------------
(* A share of at most the whole of d lies between 0 and d. *)
LEMMA QuotientUp ==
  ASSUME NEW g \in Nat, g > 0, NEW d \in Int, NEW x \in Int, x <= g * d
  PROVE  x \div g <= d
<1>1. PICK q \in Int : q = x \div g
  OBVIOUS
<1>2. g * q <= x
  BY <1>1
<1>3. SUFFICES ASSUME q >= d + 1 PROVE FALSE
  BY <1>1
<1>4. g * q >= g * (d + 1)
  BY <1>3
<1>5. g * (d + 1) = g * d + g
  OBVIOUS
<1> QED
  BY <1>2, <1>4, <1>5

LEMMA QuotientDown ==
  ASSUME NEW g \in Nat, g > 0, NEW d \in Int, NEW x \in Int, g * d <= x
  PROVE  d <= x \div g
<1>1. PICK q \in Int : q = x \div g
  OBVIOUS
<1>2. x < g * q + g
  BY <1>1
<1>3. SUFFICES ASSUME q <= d - 1 PROVE FALSE
  BY <1>1
<1>4. g * q <= g * (d - 1)
  BY <1>3
<1>5. g * (d - 1) = g * d - g
  OBVIOUS
<1> QED
  BY <1>2, <1>4, <1>5

(* The k/g-th part of the way from p to z ends between them. *)
LEMMA PartOfTheWay ==
  ASSUME NEW g \in Nat, g > 0, NEW k \in 0 .. g, NEW p \in Int, NEW z \in Int
  PROVE  /\ p + (k * (z - p)) \div g \in Int
         /\ p <= z => p <= p + (k * (z - p)) \div g /\ p + (k * (z - p)) \div g <= z
         /\ z <= p => z <= p + (k * (z - p)) \div g /\ p + (k * (z - p)) \div g <= p
<1> DEFINE d == z - p
           x == k * d
<1>1. d \in Int /\ x \in Int
  OBVIOUS
<1>2. p <= z => g * 0 <= x /\ x <= g * d
  OBVIOUS
<1>3. z <= p => g * d <= x /\ x <= g * 0
  OBVIOUS
<1> HIDE DEF x
<1>4. x \div g \in Int
  BY <1>1
<1>5. p <= z => 0 <= x \div g /\ x \div g <= d
  BY <1>1, <1>2, QuotientUp, QuotientDown
<1>6. z <= p => d <= x \div g /\ x \div g <= 0
  BY <1>1, <1>3, QuotientUp, QuotientDown
<1>7. /\ p + x \div g \in Int
      /\ p <= z => p <= p + x \div g /\ p + x \div g <= z
      /\ z <= p => z <= p + x \div g /\ p + x \div g <= p
  BY <1>4, <1>5, <1>6
<1> QED
  BY <1>7 DEF x

(***************************************************************************)
(* Whatever the gain and the learned bias are, soc_estimator_update ends   *)
(* between two values: the OCV measurement, and the old estimate with at   *)
(* most MaxMove counted in or out (cut to 0 .. 100 %).  So it leaves the   *)
(* range of old estimate and measurement by no more than the charge        *)
(* counted, on either side, and never leaves 0 .. 100 %.                   *)
(***************************************************************************)
THEOREM UpdateBetween ==
  ASSUME NEW old \in 0 .. Full, NEW mv \in Nat, NEW s \in SocUpdate(old, mv)
  PROVE  /\ s \in 0 .. Full
         /\ \E p \in old - MaxMove .. old + MaxMove :
              \/ Clamp(p) <= s /\ s <= OcvLookup(mv)
              \/ OcvLookup(mv) <= s /\ s <= Clamp(p)
<1> DEFINE z == OcvLookup(mv)
<1>1. z \in Nat /\ z <= Full
  BY LookupType
<1>2. PICK move \in -MaxMove .. MaxMove, k \in 0 .. GainSteps :
        s = Clamp(old + move + (k * (z - (old + move))) \div GainSteps)
  BY DEF SocUpdate
<1> HIDE DEF z
<1> DEFINE p == old + move
           r == p + (k * (z - p)) \div GainSteps
<1>3. p \in old - MaxMove .. old + MaxMove /\ p \in Int
  BY FilterAssumption DEF Full
<1>4. r \in Int /\ (p <= z => p <= r /\ r <= z) /\ (z <= p => z <= r /\ r <= p)
  <2> HIDE DEF p
  <2> QED
    BY <1>1, <1>3, FilterAssumption, PartOfTheWay
<1>5. s = Clamp(r)
  BY <1>2
<1> HIDE DEF r, p
<1>6. s \in 0 .. Full /\ ((Clamp(p) <= s /\ s <= z) \/ (z <= s /\ s <= Clamp(p)))
  BY <1>1, <1>3, <1>4, <1>5 DEF Clamp, Full
<1> QED
  BY <1>3, <1>6 DEF z

-----------------------------------------------------------------------------
(***************************************************************************)
(* The drift of the cells: (elapsed / 1000) cut to 16 bits.                *)
(***************************************************************************)
LEMMA Widths ==
  /\ NominalMv \in Nat /\ MsPerMv \in Nat \ {0} /\ DriftMod \in Nat \ {0}
  /\ ElapsedMod \in Nat \ {0} /\ StepMs \in Nat \ {0}
  /\ OvervoltageMv \in Nat /\ UndervoltageMv \in Nat /\ WarningMarginMv \in Nat
  /\ ImbalanceMv \in Nat /\ OvertempC \in Int
BY CellModelAssumption, ThresholdsAssumption

LEMMA DriftType ==
  ASSUME NEW e \in Nat
  PROVE  DriftMv(e) \in Nat
<1>1. e \div MsPerMv \in Nat
  BY Widths
<1> QED
  BY <1>1, Widths DEF DriftMv

(* Dividing preserves the order, and m * w more is at most w more. *)
LEMMA DivMonotone ==
  ASSUME NEW m \in Nat \ {0}, NEW a \in Nat, NEW b \in Nat, a <= b
  PROVE  a \div m \in Nat /\ b \div m \in Nat /\ a \div m <= b \div m
<1>1. PICK p \in Int, q \in Int : p = a \div m /\ q = b \div m
  BY SMT
<1>2. m * p <= a /\ b < m * q + m /\ p \in Nat /\ q \in Nat
  BY <1>1
<1>3. SUFFICES ASSUME p >= q + 1 PROVE FALSE
  BY <1>1, <1>2
<1>4. m * p >= m * (q + 1) /\ m * (q + 1) = m * q + m
  BY <1>2, <1>3
<1> QED
  BY <1>2, <1>4

LEMMA DivStep ==
  ASSUME NEW m \in Nat \ {0}, NEW a \in Nat, NEW w \in Nat
  PROVE  (a + m * w) \div m = a \div m + w
<1>1. PICK p \in Int : p = a \div m
  BY SMT
<1>2. m * p <= a /\ a < m * p + m /\ m * w \in Nat
  BY <1>1
<1>3. m * (p + w) = m * p + m * w
  BY <1>1
<1>4. PICK q \in Int : q = (a + m * w) \div m
  BY <1>2
<1>5. m * q <= a + m * w /\ a + m * w < m * q + m
  BY <1>2, <1>4
<1>6. q >= p + w
  <2> SUFFICES ASSUME q <= p + w - 1 PROVE FALSE
    BY <1>1, <1>4
  <2>1. m * q <= m * (p + w - 1) /\ m * (p + w - 1) = m * (p + w) - m
    BY <1>1, <1>4
  <2> QED
    BY <1>2, <1>3, <1>5, <2>1
<1>7. q <= p + w
  <2> SUFFICES ASSUME q >= p + w + 1 PROVE FALSE
    BY <1>1, <1>4
  <2>1. m * q >= m * (p + w + 1) /\ m * (p + w + 1) = m * (p + w) + m
    BY <1>1, <1>4
  <2> QED
    BY <1>2, <1>3, <1>5, <2>1
<1> QED
  BY <1>1, <1>4, <1>6, <1>7

(* Before the wrap nothing is cut off: the drift is the true one. *)
LEMMA DriftExact ==
  ASSUME NEW n \in Nat, n < WrapSample
  PROVE  /\ n * StepMs \in Nat /\ n * StepMs + StepMs <= ElapsedMod
         /\ DriftMv(n * StepMs) = (n * StepMs) \div MsPerMv
<1> DEFINE x == DriftMod * MsPerMv
<1>1. x \in Nat /\ n * StepMs \in Nat
  BY Widths
<1>2. PICK k \in Int : k = x \div StepMs /\ k = WrapSample
  BY <1>1, Widths DEF WrapSample
<1>3. StepMs * k <= x
  BY <1>1, <1>2, Widths
<1>4. StepMs * (n + 1) <= StepMs * k
  BY <1>2, Widths
<1>5. n * StepMs + StepMs <= x
  BY <1>1, <1>3, <1>4, Widths
<1>6. (n * StepMs) \div MsPerMv \in 0 .. DriftMod - 1
  <2>1. PICK q \in Int : q = (n * StepMs) \div MsPerMv
    BY <1>1, Widths
  <2>2. MsPerMv * q <= n * StepMs /\ n * StepMs < MsPerMv * q + MsPerMv /\ q \in Nat
    BY <1>1, <2>1, Widths
  <2>3. SUFFICES ASSUME q >= DriftMod PROVE FALSE
    BY <2>1, <2>2, Widths
  <2>4. MsPerMv * q >= MsPerMv * DriftMod
    BY <2>2, <2>3, Widths
  <2> QED
    BY <1>1, <1>5, <2>2, <2>4, Widths
<1>7. x <= ElapsedMod
  BY PackAssumption
<1>8. DriftMv(n * StepMs) = (n * StepMs) \div MsPerMv
  BY <1>6, Widths DEF DriftMv
<1> QED
  BY <1>1, <1>5, <1>7, <1>8, Widths

LEMMA DriftGrows ==
  ASSUME NEW n \in Nat, n + 1 < WrapSample
  PROVE  /\ (n * StepMs + StepMs) % ElapsedMod = (n + 1) * StepMs
         /\ DriftMv(n * StepMs) <= DriftMv((n + 1) * StepMs)
<1>0. WrapSample \in Int
  BY Widths DEF WrapSample
<1>1. /\ (n + 1) * StepMs \in Nat /\ (n + 1) * StepMs + StepMs <= ElapsedMod
      /\ DriftMv((n + 1) * StepMs) = ((n + 1) * StepMs) \div MsPerMv
  BY <1>0, DriftExact
<1>2. n * StepMs \in Nat /\ DriftMv(n * StepMs) = (n * StepMs) \div MsPerMv
  BY <1>0, DriftExact
<1>3. n * StepMs + StepMs = (n + 1) * StepMs
  BY Widths
<1>4. (n + 1) * StepMs < ElapsedMod
  BY <1>1, Widths
<1>5. (n * StepMs) \div MsPerMv <= ((n + 1) * StepMs) \div MsPerMv
  BY <1>1, <1>2, <1>3, Widths, DivMonotone
<1>6. ((n + 1) * StepMs) % ElapsedMod = (n + 1) * StepMs
  BY <1>1, <1>4, Widths
<1> QED
  BY <1>1, <1>2, <1>3, <1>5, <1>6

(* A remainder grows by no more than its argument. *)
LEMMA ModStep ==
  ASSUME NEW m \in Nat \ {0}, NEW a \in Nat, NEW b \in Nat, NEW w \in Nat, a <= b, b <= a + w
  PROVE  b % m <= (a % m) + w
<1>1. PICK p \in Int, r \in Int : p = a \div m /\ r = a % m
  BY SMT
<1>2. a = m * p + r /\ 0 <= r /\ r < m
  BY <1>1
<1>3. PICK q \in Int, s \in Int : q = b \div m /\ s = b % m
  BY SMT
<1>4. b = m * q + s /\ 0 <= s /\ s < m
  BY <1>3
<1>5. p <= q
  BY <1>1, <1>3, DivMonotone
<1>6. m * p <= m * q
  BY <1>1, <1>3, <1>5
<1> QED
  BY <1>1, <1>2, <1>3, <1>4, <1>6

(* One sample drains at most the warning margin, also where g_elapsed_ms or  *)
(* drift_mv wraps.                                                           *)
LEMMA DriftStep ==
  ASSUME NEW e \in 0 .. ElapsedMod - 1
  PROVE  /\ (e + StepMs) % ElapsedMod \in 0 .. ElapsedMod - 1
         /\ DriftMv((e + StepMs) % ElapsedMod) <= DriftMv(e) + WarningMarginMv
<1> DEFINE d == (e + StepMs) % ElapsedMod
           w == WarningMarginMv
           q == e \div MsPerMv
           p == d \div MsPerMv
<1>1. d \in 0 .. ElapsedMod - 1 /\ MsPerMv * w \in Nat /\ e \in Nat /\ StepMs <= MsPerMv * w
  BY Widths, PackAssumption
<1>2. q \in Nat /\ p \in Nat
  <2> HIDE DEF d
  <2> QED
    BY <1>1, Widths, DivMonotone
<1>3. CASE e + StepMs < ElapsedMod
  <2>1. d = e + StepMs
    BY <1>1, <1>3, Widths
  <2> HIDE DEF d
  <2>2. q <= p
    BY <1>1, <2>1, Widths, DivMonotone
  <2>3. p <= q + w
    <3>1. p <= (e + MsPerMv * w) \div MsPerMv
      BY <1>1, <2>1, Widths, DivMonotone
    <3>2. (e + MsPerMv * w) \div MsPerMv = q + w
      BY <1>1, Widths, DivStep
    <3> QED
      BY <3>1, <3>2
  <2> HIDE DEF q, p, d
  <2>4. p % DriftMod <= (q % DriftMod) + w
    BY <1>2, <2>2, <2>3, Widths, ModStep
  <2> QED
    BY <1>1, <2>4 DEF DriftMv, q, p, d
<1>4. CASE e + StepMs >= ElapsedMod
  <2>1. d <= StepMs
    BY <1>1, <1>4, Widths
  <2>2. p <= w
    <3> HIDE DEF d
    <3>1. p <= (MsPerMv * w) \div MsPerMv
      BY <1>1, <2>1, Widths, DivMonotone
    <3>2. (0 + MsPerMv * w) \div MsPerMv = (0 \div MsPerMv) + w /\ 0 \div MsPerMv = 0
      BY Widths, DivStep
    <3> QED
      BY <1>1, <3>1, <3>2, Widths
  <2>3. p % DriftMod <= p
    <3> HIDE DEF p
    <3> QED
      BY <1>2, Widths, ModStep
  <2>4. DriftMv(d) <= w /\ DriftMv(d) \in Nat /\ DriftMv(e) \in Nat
    <3> HIDE DEF d
    <3> QED
      BY <1>1, <1>2, <2>2, <2>3, DriftType, Widths DEF DriftMv, p
  <2> QED
    BY <1>1, <2>4, Widths
<1> QED
  BY <1>1, <1>3, <1>4, Widths

-----------------------------------------------------------------------------
(***************************************************************************)
(* The cells, and what evaluate_hard_faults makes of them.                 *)
(***************************************************************************)
LEMMA ClampFacts ==
  ASSUME NEW mv \in Int
  PROVE  /\ Clamp16(mv) \in Nat
         /\ mv < 0 => Clamp16(mv) = 0
         /\ 0 <= mv /\ mv <= 65535 => Clamp16(mv) = mv
         /\ mv > 65535 => Clamp16(mv) = 65535
BY DEF Clamp16

(* What an untouched cell reads. *)
Plain(e) == Clamp16(NominalMv - DriftMv(e))

LEMMA PlainFacts ==
  ASSUME NEW e \in Nat
  PROVE  /\ Plain(e) \in 0 .. NominalMv
         /\ DriftMv(e) <= NominalMv => Plain(e) = NominalMv - DriftMv(e)
         /\ DriftMv(e) > NominalMv => Plain(e) = 0
<1> DEFINE x == NominalMv - DriftMv(e)
<1>1. DriftMv(e) \in Nat /\ NominalMv \in Nat /\ NominalMv <= 65535 /\ x \in Int
  BY DriftType, Widths, PackAssumption
<1>2. /\ x < 0 => Clamp16(x) = 0
      /\ 0 <= x /\ x <= 65535 => Clamp16(x) = x
  BY <1>1, ClampFacts
<1> QED
  BY <1>1, <1>2 DEF Plain

LEMMA CellFacts ==
  ASSUME NEW s \in Scenarios, NEW i \in Cells, NEW e \in Nat
  PROVE  /\ s = "overvoltage" /\ i = 0 => CellMv(s, i, e) = Clamp16(OvervoltageMv + 50)
         /\ s = "undervoltage" /\ i = 0 => CellMv(s, i, e) = Clamp16(UndervoltageMv - 50)
         /\ s = "imbalance" /\ i = 2 => CellMv(s, i, e) = Clamp16(NominalMv - DriftMv(e) + ImbalanceMv + 20)
         /\ s \in {"nominal", "overtemp"} \/ i = 1 => CellMv(s, i, e) = Plain(e)
         /\ s = "imbalance" /\ i # 2 => CellMv(s, i, e) = Plain(e)
<1> DEFINE A == s = "overvoltage" /\ i = 0
           B == s = "undervoltage" /\ i = 0
           C == s = "imbalance" /\ i = 2
<1>1. CASE A
  <2>1. A /\ ~B /\ ~C
    BY <1>1
  <2>2. CellMv(s, i, e) = Clamp16(OvervoltageMv + 50)
    BY <2>1, Zenon DEF CellMv
  <2> QED
    BY <1>1, <2>2
<1>2. CASE B
  <2>1. ~A /\ B /\ ~C
    BY <1>2
  <2>2. CellMv(s, i, e) = Clamp16(UndervoltageMv - 50)
    BY <2>1, Zenon DEF CellMv
  <2> QED
    BY <1>2, <2>2
<1>3. CASE C
  <2>1. ~A /\ ~B /\ C
    BY <1>3
  <2>2. CellMv(s, i, e) = Clamp16(NominalMv - DriftMv(e) + ImbalanceMv + 20)
    BY <2>1, Zenon DEF CellMv
  <2> QED
    BY <1>3, <2>2
<1>4. CASE ~A /\ ~B /\ ~C
  <2>1. CellMv(s, i, e) = Plain(e)
    BY <1>4, Zenon DEF CellMv, Plain
  <2> QED
    BY <1>4, <2>1
<1> QED
  BY <1>1, <1>2, <1>3, <1>4

(* A pack of equal cells at room temperature. *)
Uniform(r, v) == \A i \in Cells : r.cell_mv[i] = v /\ r.cell_temp_c[i] = 25

LEMMA UniformFaults ==
  ASSUME NEW r, NEW v \in 0 .. NominalMv, Uniform(r, v)
  PROVE  EvaluateHardFaults(r) = IF v <= UndervoltageMv THEN {"UNDERVOLTAGE"} ELSE {}
<1>1. \A i \in Cells : r.cell_mv[i] = v /\ r.cell_temp_c[i] = 25
  BY DEF Uniform
<1>2. v \in Nat /\ v < OvervoltageMv /\ 0 \in Cells
  BY Widths, PackAssumption
<1>3. ~AnyCellAtLeast(r, OvervoltageMv)
  BY <1>1, <1>2, Widths DEF AnyCellAtLeast
<1>4. AnyCellAtMost(r, UndervoltageMv) <=> v <= UndervoltageMv
  BY <1>1, <1>2, Widths DEF AnyCellAtMost
<1>5. ~HottestAtLeast(r, OvertempC)
  BY <1>1, Widths, PackAssumption DEF HottestAtLeast
<1>6. ~SpreadAtLeast(r, ImbalanceMv)
  BY <1>1, <1>2, Widths, PackAssumption DEF SpreadAtLeast
<1> QED
  BY <1>3, <1>4, <1>5, <1>6 DEF EvaluateHardFaults, FaultBits

LEMMA SeedFine ==
  /\ Uniform(SeedReading, NominalMv) /\ NominalMv = Plain(0) /\ DriftMv(0) = 0
  /\ EvaluateHardFaults(SeedReading) = {}
<1>1. Uniform(SeedReading, NominalMv)
  BY DEF Uniform, SeedReading
<1>2. NominalMv \in 0 .. NominalMv /\ ~(NominalMv <= UndervoltageMv)
  BY Widths, PackAssumption
<1>3. DriftMv(0) = 0
  <2>1. 0 \div MsPerMv = 0
    BY Widths
  <2> QED
    BY <2>1, Widths DEF DriftMv
<1>4. Plain(0) = NominalMv
  BY <1>3, PlainFacts, Widths
<1> QED
  BY <1>1, <1>2, <1>3, <1>4, UniformFaults

LEMMA NominalUniform ==
  ASSUME NEW e \in Nat
  PROVE  Uniform(ModelReading("nominal", e), Plain(e))
<1>1. \A i \in Cells : CellMv("nominal", i, e) = Plain(e) /\ CellTempC("nominal", i) = 25
  BY CellFacts DEF Scenarios, CellTempC
<1> QED
  BY <1>1 DEF Uniform, ModelReading

(***************************************************************************)
(* Every scenario shows its fault at any time, except that an imbalance    *)
(* gives way to undervoltage once all cells are clamped to 0 mV.           *)
(***************************************************************************)
LEMMA ScenarioShows ==
  ASSUME NEW s \in Scenarios, NEW e \in Nat, NEW r, r = ModelReading(s, e)
  PROVE  /\ Injected[s] \subseteq EvaluateHardFaults(r) \/ DriftMv(e) > NominalMv
         /\ s \in {"overvoltage", "overtemp"} => Injected[s] \subseteq EvaluateHardFaults(r)
         /\ s # "nominal" => EvaluateHardFaults(r) # {}
         /\ NominalMv - DriftMv(e) <= UndervoltageMv => EvaluateHardFaults(r) # {}
<1>1. /\ {0, 1, 2} \subseteq Cells
      /\ \A i \in Cells : r.cell_mv[i] = CellMv(s, i, e) /\ r.cell_temp_c[i] = CellTempC(s, i)
  BY PackAssumption DEF ModelReading
<1>2. DriftMv(e) \in Nat
  BY DriftType
<1>3. CASE s = "overvoltage"
  <2>1. r.cell_mv[0] = Clamp16(OvervoltageMv + 50)
    BY <1>1, <1>3, CellFacts
  <2>2. r.cell_mv[0] >= OvervoltageMv
    BY <2>1, ClampFacts, Widths, PackAssumption
  <2>3. "OVERVOLTAGE" \in EvaluateHardFaults(r)
    BY <1>1, <2>2 DEF EvaluateHardFaults, FaultBits, AnyCellAtLeast
  <2> QED
    BY <1>3, <2>3 DEF Injected
<1>4. CASE s = "undervoltage"
  <2>1. r.cell_mv[0] = Clamp16(UndervoltageMv - 50)
    BY <1>1, <1>4, CellFacts
  <2>2. r.cell_mv[0] <= UndervoltageMv
    BY <2>1, ClampFacts, Widths, PackAssumption
  <2>3. "UNDERVOLTAGE" \in EvaluateHardFaults(r)
    BY <1>1, <2>2 DEF EvaluateHardFaults, FaultBits, AnyCellAtMost
  <2> QED
    BY <1>4, <2>3 DEF Injected
<1>5. CASE s = "overtemp"
  <2>1. r.cell_temp_c[1] = OvertempC + 5
    BY <1>1, <1>5 DEF CellTempC
  <2>2. "OVERTEMP" \in EvaluateHardFaults(r)
    BY <1>1, <2>1, Widths DEF EvaluateHardFaults, FaultBits, HottestAtLeast
  <2> QED
    BY <1>5, <2>2 DEF Injected
<1>6. CASE s = "imbalance"
  <2>1. /\ r.cell_mv[2] = Clamp16(NominalMv - DriftMv(e) + ImbalanceMv + 20)
        /\ r.cell_mv[0] = Plain(e)
    BY <1>1, <1>6, CellFacts
  <2>2. CASE DriftMv(e) <= NominalMv
    <3>1. r.cell_mv[0] = NominalMv - DriftMv(e)
      BY <2>1, <2>2, PlainFacts
    <3>2. r.cell_mv[2] = NominalMv - DriftMv(e) + ImbalanceMv + 20
      BY <1>2, <2>1, <2>2, ClampFacts, Widths, PackAssumption
    <3>3. "CELL_IMBALANCE" \in EvaluateHardFaults(r)
      BY <1>1, <1>2, <3>1, <3>2, Widths DEF EvaluateHardFaults, FaultBits, SpreadAtLeast
    <3> QED
      BY <1>6, <3>3 DEF Injected
  <2>3. CASE DriftMv(e) > NominalMv
    <3>1. r.cell_mv[0] = 0
      BY <2>1, <2>3, PlainFacts
    <3>2. "UNDERVOLTAGE" \in EvaluateHardFaults(r)
      BY <1>1, <3>1, Widths DEF EvaluateHardFaults, FaultBits, AnyCellAtMost
    <3> QED
      BY <1>6, <2>3, <3>2
  <2> QED
    BY <1>2, <2>2, <2>3, Widths
<1>7. CASE s = "nominal"
  <2>1. Uniform(r, Plain(e)) /\ Plain(e) \in 0 .. NominalMv
    BY <1>7, NominalUniform, PlainFacts
  <2>2. NominalMv - DriftMv(e) <= UndervoltageMv => Plain(e) <= UndervoltageMv
    BY <1>2, PlainFacts, Widths
  <2> QED
    BY <1>7, <2>1, <2>2, UniformFaults DEF Injected
<1> QED
  BY <1>3, <1>4, <1>5, <1>6, <1>7 DEF Scenarios

(* A critical fault among those evaluate_hard_faults finds. *)
LEMMA InjectedCritical ==
  ASSUME NEW s \in Scenarios, NEW r, Injected[s] \subseteq EvaluateHardFaults(r),
         s \in {"overvoltage", "overtemp"}
  PROVE  Critical(r)
<1> DEFINE H == EvaluateHardFaults(r)
<1>1. H \in SUBSET FaultBits
  BY DEF EvaluateHardFaults
<1> HIDE DEF H
<1>2. PICK b \in H : Severity[b] = ASIL_D
  BY DEF H, Injected, Severity
<1>3. ASIL_D <= GetSeverity(H) /\ GetSeverity(H) \in Asil
  BY <1>1, <1>2, GetSeverityBound
<1> QED
  BY <1>3 DEF Critical, H, Asil, ASIL_QM, ASIL_D

LEMMA InjectedSeverity ==
  ASSUME NEW s \in Scenarios, Injected[s] # {}, GetSeverity(Injected[s]) = ASIL_D
  PROVE  s \in {"overvoltage", "overtemp"}
<1>1. Injected[s] \in SUBSET FaultBits
  BY DEF Scenarios, Injected, FaultBits
<1>2. PICK b \in Injected[s] : Severity[b] = ASIL_D
  BY <1>1, GetSeverityBound DEF ASIL_QM, ASIL_D
<1> QED
  BY <1>2 DEF Scenarios, Injected, Severity, ASIL_D

(* Without the watchdog's hold the faults are those of the reading. *)
LEMMA NoHold ==
  ASSUME NEW f, f.watchdog_fault_until_ms = 0, NEW r, NEW n
  PROVE  TotalFaults(f, r, n) = EvaluateHardFaults(r)
BY DEF TotalFaults, WatchdogActive

-----------------------------------------------------------------------------
(***************************************************************************)
(* The inductive invariant.  The reading is the seed until the first       *)
(* sample and what the model yields ever after; until the drift wraps      *)
(* elapsed time is exact.                                                  *)
(***************************************************************************)
DTyped ==
  /\ fm \in FaultManagerT /\ Consistent(fm) /\ fm.watchdog_fault_until_ms = 0
  /\ tick \in Ticks
  /\ scenario = ParseScenario(asked)
  /\ elapsed \in 0 .. ElapsedMod - 1
  /\ samples \in 0 .. WrapSample
  /\ samples < WrapSample => elapsed = samples * StepMs
  /\ samples = 0 => reading = SeedReading /\ elapsed = 0 /\ fm.state \in Quiet
  /\ samples > 0 => reading = ModelReading(scenario, elapsed)

(* The state follows the readings: a fault found stays until the wrap. *)
Follows ==
  /\ judged /\ EvaluateHardFaults(reading) # {} => fm.state \in {"FAULT", "SHUTDOWN"}
  /\ fm.state = "FAULT" /\ samples < WrapSample => EvaluateHardFaults(reading) # {}
  /\ (judged \/ fm.state = "SHUTDOWN") /\ 0 < samples /\ samples < WrapSample
     => Injected[scenario] \subseteq fm.active_faults \/ DriftMv(elapsed) > NominalMv
  /\ judged /\ 0 < samples /\ scenario \in {"overvoltage", "overtemp"} => fm.state = "SHUTDOWN"

(* Without an injected fault, NORMAL leaves a margin for the next sample. *)
Depletes ==
  asked = "nominal" =>
    /\ fm.active_faults \subseteq {"UNDERVOLTAGE"}
    /\ fm.state = "NORMAL" =>
         /\ Plain(elapsed) > UndervoltageMv
         /\ judged => Plain(elapsed) > UndervoltageMv + WarningMarginMv

DInv == DTyped /\ Follows /\ Depletes

LEMMA Facts ==
  /\ WrapSample \in Nat /\ WrapSample > 0
  /\ \A a : ParseScenario(a) \in Scenarios
  /\ ParseScenario("nominal") = "nominal"
  /\ 0 .. ElapsedMod - 1 \subseteq Nat
<1>1. WrapSample \in Nat /\ WrapSample > 0
  <2> DEFINE x == DriftMod * MsPerMv
  <2>1. x \in Nat /\ StepMs <= x
    BY Widths, PackAssumption
  <2>2. StepMs \div StepMs = 1
    BY Widths
  <2> HIDE DEF x
  <2>3. x \div StepMs \in Nat /\ StepMs \div StepMs <= x \div StepMs
    BY <2>1, Widths, DivMonotone
  <2> QED
    BY <2>2, <2>3 DEF WrapSample, x
<1> QED
  BY <1>1, Widths DEF ParseScenario, Scenarios

LEMMA InitDInv == DInit => DInv
<1> SUFFICES ASSUME DInit PROVE DInv
  OBVIOUS
<1>1. 0 \in Ticks /\ 0 \in 0 .. ElapsedMod - 1 /\ 0 * StepMs = 0
  BY TickAssumption, Widths DEF Ticks
<1>2. fm.watchdog_fault_until_ms = 0 /\ fm.active_faults = {} /\ fm.state = "NORMAL"
  BY DEF DInit, FaultManagerInit
<1>3. DTyped
  BY <1>1, <1>2, Facts, InitialManager DEF DInit, DTyped, StartScenario, Quiet
<1>4. Follows
  BY <1>2, SeedFine DEF DInit, Follows
<1>5. Depletes
  <2>1. Plain(elapsed) = NominalMv
    BY SeedFine DEF DInit
  <2> QED
    BY <1>2, <2>1, Widths, PackAssumption DEF Depletes
<1> QED
  BY <1>3, <1>4, <1>5 DEF DInv

(* The nominal pack is uniform, before and after the first sample. *)
LEMMA NominalReading ==
  ASSUME DTyped, asked = "nominal"
  PROVE  Uniform(reading, Plain(elapsed)) /\ Plain(elapsed) \in 0 .. NominalMv
<1>1. elapsed \in Nat /\ scenario = "nominal" /\ samples \in Nat
  BY Facts DEF DTyped
<1>2. CASE samples = 0
  BY <1>1, <1>2, SeedFine, PlainFacts DEF DTyped
<1>3. CASE samples > 0
  BY <1>1, <1>3, NominalUniform, PlainFacts DEF DTyped
<1> QED
  BY <1>1, <1>2, <1>3

(* fault_manager_evaluate, where no watchdog report was ever made. *)
LEMMA JudgeDoes ==
  ASSUME NEW f \in FaultManagerT, Consistent(f), f.watchdog_fault_until_ms = 0,
         NEW r, NEW n \in Ticks, NEW g, g = FaultManagerEvaluate(f, r, n)
  PROVE  /\ g \in FaultManagerT /\ Consistent(g) /\ g.watchdog_fault_until_ms = 0
         /\ f.state = "SHUTDOWN" => g = f
         /\ Critical(r) => g.state = "SHUTDOWN"
         /\ f.state # "SHUTDOWN" => g.active_faults = EvaluateHardFaults(r)
         /\ EvaluateHardFaults(r) # {} => g.state \in {"FAULT", "SHUTDOWN"}
         /\ EvaluateHardFaults(r) = {} /\ f.state \in Quiet => g.state \in Quiet
         /\ EvaluateHardFaults(r) = {} /\ g.state = "FAULT" => f.state = "FAULT"
         /\ EvaluateHardFaults(r) = {} /\ f.state # "SHUTDOWN" => g.state # "SHUTDOWN"
         /\ g.state = "NORMAL" => EvaluateHardFaults(r) = {} /\ ~Warning(r)
<1>1. TotalFaults(f, r, n) = EvaluateHardFaults(r)
  BY NoHold
<1>2. /\ g \in FaultManagerT /\ Consistent(g)
      /\ f.state = "SHUTDOWN" => g = f
      /\ Critical(r) => g.state = "SHUTDOWN"
  BY EvaluateDoes
<1>3. CASE f.state = "SHUTDOWN"
  BY <1>2, <1>3 DEF Quiet
<1>4. CASE f.state # "SHUTDOWN" /\ EvaluateHardFaults(r) # {}
  <2>1. /\ g.active_faults = EvaluateHardFaults(r) /\ g.watchdog_fault_until_ms = 0
        /\ g.state \in {"FAULT", "SHUTDOWN"}
    BY <1>1, <1>4, EvaluateFaulty
  <2> QED
    BY <1>2, <1>4, <2>1
<1>5. CASE f.state # "SHUTDOWN" /\ EvaluateHardFaults(r) = {}
  <2>1. /\ g.active_faults = {} /\ g.watchdog_fault_until_ms = 0
        /\ g.state \in Quiet => g.state = Cleared(r)
        /\ \/ f.state \in Quiet /\ g.state \in Quiet
           \/ f.state = "FAULT" /\ g.state \in Quiet \cup {"FAULT"}
    BY <1>1, <1>5, EvaluateClean
  <2>2. g.state = "NORMAL" => ~Warning(r)
    BY <2>1 DEF Cleared, Quiet
  <2> QED
    BY <1>2, <1>5, <2>1, <2>2 DEF Quiet
<1> QED
  BY <1>3, <1>4, <1>5

LEMMA SampleDInv ==
  ASSUME DInv, Sample
  PROVE  DInv'
<1>1. /\ DTyped /\ Follows /\ Depletes /\ judged
      /\ UNCHANGED <<fm, asked, scenario>> /\ ~judged'
      /\ elapsed' = (elapsed + StepMs) % ElapsedMod
      /\ reading' = ModelReading(scenario, elapsed')
      /\ tick' = TickAdd(tick, StepMs)
      /\ samples' = IF samples < WrapSample THEN samples + 1 ELSE samples
  BY DEF DInv, Sample
<1>2. /\ elapsed \in 0 .. ElapsedMod - 1 /\ elapsed \in Nat /\ samples \in Nat
      /\ scenario \in Scenarios /\ scenario = ParseScenario(asked)
      /\ WrapSample \in Nat /\ WrapSample > 0
  BY <1>1, Facts DEF DTyped
<1>3. /\ elapsed' \in 0 .. ElapsedMod - 1 /\ elapsed' \in Nat
      /\ DriftMv(elapsed') <= DriftMv(elapsed) + WarningMarginMv
  BY <1>1, <1>2, DriftStep, Facts
<1>4. samples' \in 0 .. WrapSample /\ samples' > 0
  BY <1>1, <1>2 DEF DTyped
(* Before the wrap: the next sample is one step of true time away. *)
<1>5. ASSUME samples' < WrapSample
      PROVE  /\ samples < WrapSample /\ samples' = samples + 1
             /\ elapsed' = samples' * StepMs
             /\ DriftMv(elapsed) <= DriftMv(elapsed')
  <2>1. samples < WrapSample /\ samples' = samples + 1
    BY <1>1, <1>2, <1>5 DEF DTyped
  <2>2. elapsed = samples * StepMs
    BY <1>1, <2>1 DEF DTyped
  <2>3. /\ (samples * StepMs + StepMs) % ElapsedMod = (samples + 1) * StepMs
        /\ DriftMv(samples * StepMs) <= DriftMv((samples + 1) * StepMs)
    BY <1>2, <1>5, <2>1, DriftGrows
  <2> QED
    BY <1>1, <2>1, <2>2, <2>3
<1>6. DTyped'
  <2>1. tick' \in Ticks
    BY <1>1, TickRange, TickAssumption, Widths DEF DTyped, Ticks
  <2> QED
    BY <1>1, <1>2, <1>3, <1>4, <1>5, <2>1 DEF DTyped
<1>7. Follows'
  <2>1. ASSUME fm.state = "FAULT", samples' < WrapSample
        PROVE  EvaluateHardFaults(reading') # {}
    <3>1. samples > 0 /\ EvaluateHardFaults(reading) # {}
      BY <1>1, <1>2, <1>5, <2>1 DEF DTyped, Follows, Quiet
    <3>2. CASE scenario # "nominal"
      BY <1>1, <1>2, <1>3, <3>2, ScenarioShows
    <3>3. CASE scenario = "nominal"
      <4>1. reading = ModelReading("nominal", elapsed)
        BY <1>1, <3>1, <3>3 DEF DTyped
      <4>2. Uniform(reading, Plain(elapsed)) /\ Plain(elapsed) \in 0 .. NominalMv
        BY <1>2, <4>1, NominalUniform, PlainFacts
      <4>3. Plain(elapsed) <= UndervoltageMv
        BY <3>1, <4>2, UniformFaults
      <4>4. NominalMv - DriftMv(elapsed) <= UndervoltageMv
        BY <1>2, <4>3, PlainFacts, DriftType, Widths
      <4>5. NominalMv - DriftMv(elapsed') <= UndervoltageMv
        BY <1>2, <1>3, <1>5, <2>1, <4>4, DriftType, Widths
      <4> QED
        BY <1>1, <1>2, <1>3, <4>5, ScenarioShows
    <3> QED
      BY <3>2, <3>3
  <2>2. ASSUME fm.state = "SHUTDOWN", samples' < WrapSample
        PROVE  Injected[scenario] \subseteq fm.active_faults \/ DriftMv(elapsed') > NominalMv
    <3>1. samples > 0 /\ samples < WrapSample
      BY <1>1, <1>2, <1>5, <2>2 DEF DTyped, Quiet
    <3>2. Injected[scenario] \subseteq fm.active_faults \/ DriftMv(elapsed) > NominalMv
      BY <1>1, <2>2, <3>1 DEF Follows
    <3> QED
      BY <1>2, <1>3, <1>5, <2>2, <3>2, DriftType, Widths
  <2> QED
    BY <1>1, <2>1, <2>2 DEF Follows
<1>8. Depletes'
  <2>1. ASSUME asked = "nominal", fm.state = "NORMAL"
        PROVE  Plain(elapsed') > UndervoltageMv
    <3>1. Plain(elapsed) > UndervoltageMv + WarningMarginMv
      BY <1>1, <2>1 DEF Depletes
    <3>2. DriftMv(elapsed) <= NominalMv /\ Plain(elapsed) = NominalMv - DriftMv(elapsed)
      BY <1>2, <3>1, PlainFacts, DriftType, Widths
    <3>3. NominalMv - DriftMv(elapsed') > UndervoltageMv
      BY <1>2, <1>3, <3>1, <3>2, DriftType, Widths
    <3> QED
      BY <1>3, <3>3, PlainFacts, DriftType, Widths
  <2> QED
    BY <1>1, <2>1 DEF Depletes
<1> QED
  BY <1>6, <1>7, <1>8 DEF DInv

LEMMA JudgeDInv ==
  ASSUME DInv, Judge
  PROVE  DInv'
<1>1. /\ DTyped /\ Follows /\ Depletes /\ judged'
      /\ fm' = FaultManagerEvaluate(fm, reading, tick)
      /\ UNCHANGED <<reading, tick, asked, scenario, elapsed, samples>>
  BY DEF DInv, Judge
<1>2. /\ elapsed \in Nat /\ samples \in Nat /\ WrapSample \in Nat
      /\ scenario \in Scenarios /\ scenario = ParseScenario(asked)
      /\ asked = "nominal" => scenario = "nominal"
  BY <1>1, Facts DEF DTyped
<1>3. /\ fm' \in FaultManagerT /\ Consistent(fm') /\ fm'.watchdog_fault_until_ms = 0
      /\ fm.state = "SHUTDOWN" => fm' = fm
      /\ Critical(reading) => fm'.state = "SHUTDOWN"
      /\ fm.state # "SHUTDOWN" => fm'.active_faults = EvaluateHardFaults(reading)
      /\ EvaluateHardFaults(reading) # {} => fm'.state \in {"FAULT", "SHUTDOWN"}
      /\ EvaluateHardFaults(reading) = {} /\ fm.state \in Quiet => fm'.state \in Quiet
      /\ EvaluateHardFaults(reading) = {} /\ fm'.state = "FAULT" => fm.state = "FAULT"
      /\ EvaluateHardFaults(reading) = {} /\ fm.state # "SHUTDOWN" => fm'.state # "SHUTDOWN"
      /\ fm'.state = "NORMAL" => EvaluateHardFaults(reading) = {} /\ ~Warning(reading)
  BY <1>1, JudgeDoes DEF DTyped
<1>4. DTyped'
  <2>1. samples = 0 => fm'.state \in Quiet
    BY <1>1, <1>3, SeedFine DEF DTyped
  <2> QED
    BY <1>1, <1>3, <2>1 DEF DTyped
<1>5. Follows'
  <2>1. ASSUME fm'.state = "FAULT", samples < WrapSample PROVE EvaluateHardFaults(reading) # {}
    BY <1>1, <1>3, <2>1 DEF Follows
  <2>2. ASSUME 0 < samples, samples < WrapSample
        PROVE  Injected[scenario] \subseteq fm'.active_faults \/ DriftMv(elapsed) > NominalMv
    <3>1. CASE fm.state = "SHUTDOWN"
      BY <1>1, <1>3, <2>2, <3>1 DEF Follows
    <3>2. CASE fm.state # "SHUTDOWN"
      <4>1. reading = ModelReading(scenario, elapsed)
        BY <1>1, <2>2 DEF DTyped
      <4> QED
        BY <1>2, <1>3, <3>2, <4>1, ScenarioShows
    <3> QED
      BY <3>1, <3>2
  <2>3. ASSUME 0 < samples, scenario \in {"overvoltage", "overtemp"} PROVE fm'.state = "SHUTDOWN"
    <3>1. reading = ModelReading(scenario, elapsed)
      BY <1>1, <2>3 DEF DTyped
    <3>2. Injected[scenario] \subseteq EvaluateHardFaults(reading)
      BY <1>2, <2>3, <3>1, ScenarioShows
    <3>3. Critical(reading)
      BY <1>2, <2>3, <3>2, InjectedCritical
    <3> QED
      BY <1>3, <3>3
  <2> QED
    BY <1>1, <1>3, <2>1, <2>2, <2>3 DEF Follows
<1>6. Depletes'
  <2> SUFFICES ASSUME asked = "nominal"
               PROVE  /\ fm'.active_faults \subseteq {"UNDERVOLTAGE"}
                      /\ fm'.state = "NORMAL" => Plain(elapsed) > UndervoltageMv + WarningMarginMv
    BY <1>1, <1>2, PlainFacts, Widths DEF Depletes
  <2>1. Uniform(reading, Plain(elapsed)) /\ Plain(elapsed) \in 0 .. NominalMv
    BY <1>1, NominalReading
  <2>2. EvaluateHardFaults(reading) = IF Plain(elapsed) <= UndervoltageMv THEN {"UNDERVOLTAGE"} ELSE {}
    BY <2>1, UniformFaults
  <2>3. fm'.active_faults \subseteq {"UNDERVOLTAGE"}
    BY <1>1, <1>3, <2>2 DEF Depletes
  <2>4. ASSUME fm'.state = "NORMAL" PROVE Plain(elapsed) > UndervoltageMv + WarningMarginMv
    <3>1. EvaluateHardFaults(reading) = {} /\ ~Warning(reading)
      BY <1>3, <2>4
    <3>2. ~(Plain(elapsed) <= UndervoltageMv)
      BY <2>2, <3>1
    <3>3. 0 \in Cells /\ reading.cell_mv[0] = Plain(elapsed)
      BY <2>1, PackAssumption DEF Uniform
    <3>4. ~(UndervoltageMv < Plain(elapsed) /\ Plain(elapsed) <= UndervoltageMv + WarningMarginMv)
      BY <3>1, <3>3 DEF Warning
    <3> QED
      BY <2>1, <3>2, <3>4, Widths
  <2> QED
    BY <2>3, <2>4
<1> QED
  BY <1>4, <1>5, <1>6 DEF DInv

LEMMA NextDInv ==
  ASSUME DInv, [DNext]_dvars
  PROVE  DInv'
<1>1. CASE Fuse
  BY <1>1 DEF Fuse, DInv, DTyped, Follows, Depletes
<1>2. CASE UNCHANGED dvars
  BY <1>2 DEF dvars, DInv, DTyped, Follows, Depletes
<1> QED
  BY <1>1, <1>2, SampleDInv, JudgeDInv DEF DNext

LEMMA SpecDInv == DSpec => []DInv
BY InitDInv, NextDInv, PTL DEF DSpec

-----------------------------------------------------------------------------
(***************************************************************************)
(* The scenario argv[1] names is what cell_model_step injects from the     *)
(* first sample on and what the fault manager then holds: its fault is     *)
(* active until the drift wraps, an ASIL D one has latched SHUTDOWN, in    *)
(* every order of the three tasks.                                         *)
(***************************************************************************)
THEOREM ScenarioTakesEffect == DSpec => []ScenarioActs
<1>1. DInv => ScenarioActs
  <2> SUFFICES ASSUME DInv, judged, 0 < samples, samples < WrapSample
               PROVE  LET wanted == Injected[ParseScenario(asked)] IN
                      /\ wanted \subseteq fm.active_faults \/ DriftMv(elapsed) > NominalMv
                      /\ wanted # {} /\ GetSeverity(wanted) = ASIL_D => fm.state = "SHUTDOWN"
    BY DEF ScenarioActs
  <2>1. scenario = ParseScenario(asked) /\ scenario \in Scenarios
    BY Facts DEF DInv, DTyped
  <2>2. Injected[scenario] \subseteq fm.active_faults \/ DriftMv(elapsed) > NominalMv
    BY DEF DInv, Follows
  <2>3. Injected[scenario] # {} /\ GetSeverity(Injected[scenario]) = ASIL_D
        => fm.state = "SHUTDOWN"
    BY <2>1, InjectedSeverity DEF DInv, Follows
  <2> QED
    BY <2>1, <2>2, <2>3
<1> QED
  BY <1>1, SpecDInv, PTL

(***************************************************************************)
(* However far the drift runs past the cell voltage, the cast back to 16   *)
(* bits in cell_model_step never shows the fault manager anything but      *)
(* undervoltage.                                                           *)
(***************************************************************************)
THEOREM DepletionOnly == DSpec => []OnlyDepletes
<1>1. DInv => OnlyDepletes
  BY DEF DInv, Depletes, OnlyDepletes
<1> QED
  BY <1>1, SpecDInv, PTL

(***************************************************************************)
(* From the judged sample at which true time has drained the cells to the  *)
(* undervoltage limit, fault_manager_evaluate holds FAULT or SHUTDOWN:     *)
(* g_elapsed_ms and drift_mv lose nothing of that time before the wrap.    *)
(***************************************************************************)
THEOREM DepletionNoticed == DSpec => []DepletionCaught
<1>1. DInv => DepletionCaught
  <2> DEFINE drained == (samples * StepMs) \div MsPerMv
  <2> SUFFICES ASSUME DInv, judged, samples < WrapSample, NominalMv - drained <= UndervoltageMv
               PROVE  fm.state \in {"FAULT", "SHUTDOWN"}
    BY DEF DepletionCaught
  <2>1. /\ DTyped /\ samples \in Nat /\ scenario \in Scenarios
        /\ elapsed \in Nat /\ elapsed = samples * StepMs
    BY Facts DEF DInv, DTyped
  <2>2. DriftMv(elapsed) = drained
    BY <2>1, DriftExact
  <2>3. samples > 0
    <3> SUFFICES ASSUME samples = 0 PROVE FALSE
      BY <2>1
    <3>1. 0 * StepMs = 0 /\ 0 \div MsPerMv = 0
      BY Widths
    <3>2. drained = 0
      BY <3>1
    <3> HIDE DEF drained
    <3> QED
      BY <3>2, Widths, PackAssumption
  <2>4. EvaluateHardFaults(reading) # {}
    <3>1. reading = ModelReading(scenario, elapsed)
      BY <2>1, <2>3 DEF DTyped
    <3> QED
      BY <2>1, <2>2, <3>1, ScenarioShows
  <2> QED
    BY <2>4 DEF DInv, Follows
<1> QED
  BY <1>1, SpecDInv, PTL

(***************************************************************************)
(* A step of the discharging pack never takes the state machine from       *)
(* NORMAL to FAULT: NORMAL was left with more than a sample's drain in     *)
(* hand, also where g_elapsed_ms or drift_mv wraps.                        *)
(***************************************************************************)
THEOREM WarningComesFirst == DSpec => WarnsFirst
<1>1. ASSUME DInv, [DNext]_dvars
      PROVE  [asked = "nominal" /\ fm.state = "NORMAL" => fm'.state # "FAULT"]_dvars
  <2> SUFFICES ASSUME DNext, asked = "nominal", fm.state = "NORMAL" PROVE fm'.state # "FAULT"
    BY <1>1
  <2>1. CASE Sample \/ Fuse
    BY <2>1 DEF Sample, Fuse
  <2>2. CASE Judge
    <3>1. Uniform(reading, Plain(elapsed)) /\ Plain(elapsed) \in 0 .. NominalMv
      BY <1>1, NominalReading DEF DInv
    <3>2. Plain(elapsed) > UndervoltageMv
      BY <1>1 DEF DInv, Depletes
    <3>3. EvaluateHardFaults(reading) = {}
      BY <3>1, <3>2, UniformFaults, Widths
    <3>4. fm'.state \in Quiet
      BY <1>1, <2>2, <3>3, JudgeDoes DEF DInv, DTyped, Judge, Quiet
    <3> QED
      BY <3>4 DEF Quiet
  <2> QED
    BY <2>1, <2>2 DEF DNext
<1> QED
  BY <1>1, SpecDInv, PTL DEF DSpec, WarnsFirst

(***************************************************************************)
(* No step takes back a FAULT before the drift wraps: the reading that     *)
(* caused it only gets worse, so the debounce that clears it never starts. *)
(***************************************************************************)
THEOREM FaultStays == DSpec => FaultKeptUntilWrap
<1>1. ASSUME DInv, [DNext]_dvars
      PROVE  [fm.state = "FAULT" /\ samples < WrapSample
              => fm'.state \notin {"NORMAL", "WARNING"}]_dvars
  <2> SUFFICES ASSUME DNext, fm.state = "FAULT", samples < WrapSample
               PROVE  fm'.state \notin {"NORMAL", "WARNING"}
    BY <1>1
  <2>1. CASE Sample \/ Fuse
    BY <2>1 DEF Sample, Fuse
  <2>2. CASE Judge
    <3>1. EvaluateHardFaults(reading) # {}
      BY <1>1 DEF DInv, Follows
    <3>2. fm'.state \in {"FAULT", "SHUTDOWN"}
      BY <1>1, <2>2, <3>1, JudgeDoes DEF DInv, DTyped, Judge
    <3> QED
      BY <3>2
  <2> QED
    BY <2>1, <2>2 DEF DNext
<1> QED
  BY <1>1, SpecDInv, PTL DEF DSpec, FaultKeptUntilWrap

-----------------------------------------------------------------------------
(* The estimate and what accounts for it, in range: evidence starts at the   *)
(* voltage of the nominal pack and only falls.                               *)
Backed ==
  /\ soc \in 0 .. Full /\ evidence \in 0 .. Full
  /\ evidence <= OcvLookup(NominalMv) /\ evidence <= soc

(* task_soc averages the seed until the first sample, the cells after it. *)
LEMMA AverageRead ==
  ASSUME DTyped
  PROVE  /\ AvgCellMv(ModelReading(scenario, elapsed)) \in Nat
         /\ \/ AvgCellMv(reading) = NominalMv
            \/ AvgCellMv(reading) = AvgCellMv(ModelReading(scenario, elapsed))
<1>1. AvgCellMv(ModelReading(scenario, elapsed)) \in Nat
  BY Facts, AverageAssumption DEF DTyped
<1>2. AvgCellMv(SeedReading) = AvgCellMv([cell_mv |-> [i \in Cells |-> NominalMv]])
  <2> DEFINE S == [cell_mv |-> [i \in Cells |-> NominalMv]]
  <2>1. SeedReading.cell_mv = S.cell_mv
    BY DEF SeedReading
  <2> HIDE DEF S
  <2>2. PackMv(SeedReading) = PackMv(S)
    BY <2>1 DEF PackMv
  <2>3. AvgCellMv(SeedReading) = AvgCellMv(S)
    BY <2>2 DEF AvgCellMv
  <2> QED
    BY <2>3 DEF S
<1>3. AvgCellMv(SeedReading) = NominalMv
  BY <1>2, AverageAssumption
<1>4. samples \in Nat
  BY Facts DEF DTyped
<1> QED
  BY <1>1, <1>3, <1>4 DEF DTyped

LEMMA FuseBacked ==
  ASSUME DTyped, Backed, Fuse
  PROVE  Backed'
<1> DEFINE z == OcvLookup(AvgCellMv(ModelReading(scenario, elapsed)))
           low == IF z < evidence THEN z ELSE evidence
           mv == AvgCellMv(reading)
<1>1. /\ soc' \in SocUpdate(soc, mv) /\ evidence' = Clamp(low - MaxMove)
  BY DEF Fuse
<1>2. mv \in Nat /\ z \in Nat /\ z <= Full /\ (mv = NominalMv \/ OcvLookup(mv) = z)
  BY AverageRead, LookupType, Widths
<1>3. OcvLookup(mv) \in Nat /\ OcvLookup(NominalMv) \in Nat
  BY <1>2, LookupType, Widths
<1> HIDE DEF z, mv
<1>4. /\ low \in Int /\ low <= soc /\ low <= OcvLookup(mv)
      /\ low <= evidence /\ low <= OcvLookup(NominalMv)
  BY <1>2, <1>3 DEF Backed, Full
<1> HIDE DEF low
<1>5. soc' \in 0 .. Full /\ Clamp(low - MaxMove) <= soc'
  <2>1. soc \in 0 .. Full
    BY DEF Backed
  <2>2. /\ soc' \in 0 .. Full
        /\ \E p \in soc - MaxMove .. soc + MaxMove :
             \/ Clamp(p) <= soc' /\ soc' <= OcvLookup(mv)
             \/ OcvLookup(mv) <= soc' /\ soc' <= Clamp(p)
    BY <1>1, <1>2, <2>1, UpdateBetween
  <2>3. PICK p \in soc - MaxMove .. soc + MaxMove : Clamp(p) <= soc' \/ OcvLookup(mv) <= soc'
    BY <2>2
  <2>4. p \in Int /\ low - MaxMove <= p /\ low - MaxMove <= OcvLookup(mv)
    BY <1>3, <1>4, <2>1, FilterAssumption DEF Full
  <2>5. Clamp(low - MaxMove) <= Clamp(p) /\ Clamp(low - MaxMove) <= OcvLookup(mv)
    BY <1>3, <1>4, <2>4, FilterAssumption DEF Clamp, Full
  <2> QED
    BY <1>3, <1>4, <2>2, <2>3, <2>4, <2>5, FilterAssumption DEF Clamp, Full
<1>6. evidence' \in 0 .. Full /\ evidence' <= evidence
  BY <1>1, <1>4, FilterAssumption DEF Backed, Clamp, Full
<1> QED
  BY <1>1, <1>3, <1>5, <1>6 DEF Backed, Full

(***************************************************************************)
(* soc_estimator_update never puts the estimate below what the cells and   *)
(* the counted charge account for, whatever the gain, also when the soc    *)
(* task runs before the first sample: then it averages the nominal pack    *)
(* app_context_init left, not a zeroed context.                            *)
(***************************************************************************)
THEOREM EstimateBacked == DSpec => []SocBacked
<1>1. DInit => Backed
  <2>1. OcvLookup(NominalMv) \in Nat /\ OcvLookup(NominalMv) <= Full /\ Full = 200
    BY LookupType, Widths DEF Full
  <2> QED
    BY <2>1 DEF DInit, Backed
<1>2. ASSUME DInv, Backed, [DNext]_dvars PROVE Backed'
  <2>1. CASE Fuse
    BY <1>2, <2>1, FuseBacked DEF DInv
  <2>2. CASE Sample \/ Judge \/ UNCHANGED dvars
    BY <1>2, <2>2 DEF Sample, Judge, dvars, Backed
  <2> QED
    BY <1>2, <2>1, <2>2 DEF DNext
<1>3. Backed => SocBacked
  BY DEF Backed, SocBacked, Full
<1> QED
  BY <1>1, <1>2, <1>3, SpecDInv, PTL DEF DSpec
===============================================================================
