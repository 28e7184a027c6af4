----------------------------- MODULE ScoreQuality -----------------------------
(* How a measured value becomes a quality: the normalization of one paired     *)
(* observation against its anchor, and the score of a candidate whose evidence *)
(* is complete. Values are integers, qualities exact fractions; decibels are   *)
(* counted in steps that double the amplitude. Rounding and overflow of the    *)
(* floating-point arithmetic are left out.                                     *)
EXTENDS Integers, Sequences, FiniteSets

CONSTANT None

\* A fraction n/d with n >= 0 and d > 0.
Fraction(n, d) == [n |-> n, d |-> d]
One == Fraction(1, 1)
AtMost(p, q) == p.n * q.d <= q.n * p.d
Zero(p) == p.n = 0

\* The frozen quality target replaces the source value as anchor.
Anchor(m, baseline) == IF m.target = None THEN baseline ELSE m.target
Offset(m) == IF m.scale = None THEN 0 ELSE m.scale
Ratios == {"ratio", "saturating_ratio"}
Absolute(x) == IF x < 0 THEN -x ELSE x

\* What parse_metrics demands of a metric with a baseline.
LegalMetric(m) ==
  /\ m.normalization = "degradation" => m.scale # None
  /\ m.normalization = "saturating_ratio" => m.direction = "minimize" /\ m.scale # None
  /\ (m.normalization = "target") <=> (m.direction = "target")
  /\ m.normalization = "target" => m.scale # None
  /\ m.scale # None => m.scale > 0 /\ m.normalization # "db20"
  /\ m.target # None /\ m.normalization \in Ratios => m.target >= 0
  /\ m.target # None /\ m.normalization = "ratio" => m.target + Offset(m) > 0

\* The directional loss against the anchor.
Loss(m, value, anchor) ==
  IF m.direction = "maximize" THEN anchor - value ELSE value - anchor
Degradation(m, value, anchor) ==
  IF Loss(m, value, anchor) <= 0 THEN One
  ELSE Fraction(m.scale, m.scale + Loss(m, value, anchor))
Doublings[n \in Nat] == IF n = 0 THEN 1 ELSE 2 * Doublings[n - 1]
Decibels(m, value, anchor) ==
  LET lost == Loss(m, value, anchor) IN
  IF lost <= 0 THEN Fraction(Doublings[-lost], 1) ELSE Fraction(1, Doublings[lost])
Ratio(m, value, anchor) ==
  LET top    == Offset(m) + IF m.direction = "maximize" THEN value ELSE anchor
      bottom == Offset(m) + IF m.direction = "maximize" THEN anchor ELSE value
  IN IF bottom <= 0 THEN None ELSE Fraction(top, bottom)
SaturatingRatio(m, value, anchor) ==
  Fraction(2 * (anchor + m.scale), anchor + value + 2 * m.scale)

\* None is the exception: no finite quality can be established.
relative_quality(m, value, baseline) ==
  LET anchor == Anchor(m, baseline) IN
  IF m.normalization \in Ratios /\ (value < 0 \/ baseline < 0 \/ anchor < 0) THEN None
  ELSE CASE m.normalization = "degradation"      -> Degradation(m, value, anchor)
         [] m.normalization = "target"           -> Fraction(m.scale, m.scale + Absolute(value - anchor))
         [] m.normalization = "db20"             -> Decibels(m, value, anchor)
         [] m.normalization = "saturating_ratio" -> SaturatingRatio(m, value, anchor)
         [] m.normalization = "ratio"            -> Ratio(m, value, anchor)
\* A metric's quality is the worst of its pairs, credited up to 1.
Credited(q) == IF AtMost(One, q) THEN One ELSE q

\* The weighted geometric mean, as far as it is told apart: unknown without a
\* positive weight, zero as soon as one weighted quality is, else full or partly.
WeightedGeometric(weighted) ==
  LET active == {w \in weighted: w.weight > 0} IN
  IF active = {} THEN None
  ELSE IF \E w \in active: Zero(w.quality) THEN "zero"
  ELSE IF \A w \in active: AtMost(One, w.quality) THEN "full"
  ELSE "partial"

\* value is at least as good for metric m as other.
Better(m, value, other, baseline) ==
  CASE m.direction = "maximize" -> value >= other
    [] m.direction = "minimize" -> value <= other
    [] m.direction = "target" ->
         Absolute(value - Anchor(m, baseline)) <= Absolute(other - Anchor(m, baseline))

\* Quality follows the metric's direction: a better observation never gets the
\* lower quality, one at the anchor gets 1, a worse one never more than 1, and
\* only ratios of negative values or with nothing in the denominator have none.
QualityOrdered(m, value, other, baseline) ==
  LET q(v) == relative_quality(m, v, baseline)
      anchor == Anchor(m, baseline)
  IN LegalMetric(m) =>
       /\ q(anchor) # None => AtMost(q(anchor), One) /\ AtMost(One, q(anchor))
       /\ q(value) # None /\ q(other) # None /\ Better(m, value, other, baseline)
            => AtMost(q(other), q(value))
       /\ q(value) # None /\ Better(m, anchor, value, baseline) => AtMost(q(value), One)
       /\ q(value) = None =>
            /\ m.normalization \in Ratios
            /\ \/ value < 0 \/ baseline < 0
               \/ m.normalization = "ratio" /\ Offset(m) = 0
=============================================================================
