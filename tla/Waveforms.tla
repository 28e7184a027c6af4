------------------------------- MODULE Waveforms -------------------------------
(* What is measured on sampled traces: events, cycles and areas of a transient *)
(* run, the settling of a step, a sampled converter's transfer, and the sweeps *)
(* over a DC axis or over frequency, whose axis and level are logarithms. A    *)
(* trace is linear between its samples. Times and levels are integers: a unit  *)
(* of a level is Scale units of what is computed, so that a crossing between   *)
(* two samples Scale apart falls on an integer. A quotient is its two terms.   *)
EXTENDS Integers, Sequences, FiniteSets, SequencesExt, FiniteSetsExt, Functions

CONSTANTS None, Scale

Invalid == [kind |-> "error", num |-> 0, den |-> 1]
Rejected == [Invalid EXCEPT !.kind = "rejected"]
Value(n, d) == [kind |-> "value", num |-> n, den |-> d]

\* ---- Traces and windows.
Grid(time, least, step) ==
  Len(time) >= least /\ \A i \in 1..(Len(time) - 1): 0 < time[i + 1] - time[i] /\ time[i + 1] - time[i] <= step
Affine(samples, spec) ==
  [i \in DOMAIN samples.time |-> spec.offset + MapThenSumSet(LAMBDA s: spec.terms[s] * samples[s][i], DOMAIN spec.terms)]
interpolate(time, values, x) ==
  LET i == Min({k \in DOMAIN time: time[k] >= x}) IN
  IF i = 1 \/ time[i] = x THEN Scale * values[i]
  ELSE Scale * values[i - 1] + (Scale * (values[i] - values[i - 1]) * (x - time[i - 1])) \div (time[i] - time[i - 1])
Within(time, start, stop) == time[1] <= start /\ start < stop /\ stop <= Last(time)
\* The samples between the ends, and the ends interpolated.
window(time, values, start, stop) ==
  LET at == <<start>> \o SelectSeq(time, LAMBDA t: start < t /\ t < stop) \o <<stop>> IN
  [i \in DOMAIN at |-> [t |-> at[i], v |-> interpolate(time, values, at[i])]]
Levels(points) == {p.v: p \in ToSet(points)}
Segments(points) == [i \in 1..(Len(points) - 1) |-> [from |-> points[i], to |-> points[i + 1]]]
Magnitude(n) == IF n < 0 THEN -n ELSE n
Total(s) == FoldLeft(LAMBDA n, x: n + x, 0, s)

\* ---- Events: a rise reaches the threshold from below, a fall from above.
Meets(s, direction, threshold) ==
  CASE direction = "rise" -> s.from.v < threshold /\ threshold <= s.to.v
    [] direction = "fall" -> s.from.v > threshold /\ threshold >= s.to.v
    [] direction = "below" -> s.from.v >= threshold /\ threshold > s.to.v
When(s, level) == s.from.t + ((s.to.t - s.from.t) * (level - s.from.v)) \div (s.to.v - s.from.v)
Hits(points, direction, threshold) ==
  LET met == SelectSeq(Segments(points), LAMBDA s: Meets(s, direction, threshold)) IN
  [i \in DOMAIN met |-> When(met[i], threshold)]
crossings(w, event, start, stop) ==
  Hits(window(w.time, w.traces[event.trace], start, stop), event.direction, Scale * event.threshold)
\* A cycle is from a rise to the next, with one fall in between.
complete_cycles(w, trace, threshold, start, stop, minimum) ==
  LET event == [trace |-> trace, threshold |-> threshold, direction |-> "rise"]
      rises == crossings(w, event, start, stop)
      falls == crossings(w, [event EXCEPT !.direction = "fall"], start, stop)
      inside(i) == SelectSeq(falls, LAMBDA f: rises[i] < f /\ f < rises[i + 1])
  IN IF Len(rises) - 1 < minimum \/ \E i \in 1..(Len(rises) - 1): Len(inside(i)) # 1 THEN << >>
     ELSE [i \in 1..(Len(rises) - 1) |-> <<rises[i], inside(i)[1], rises[i + 1]>>]

\* ---- Areas, doubled: a segment that changes sign is split at its zero.
absolute_segment_area(s) ==
  LET area(from, to, v) == (to - from) * Magnitude(v) IN
  IF s.from.v * s.to.v < 0 THEN area(s.from.t, When(s, 0), s.from.v) + area(When(s, 0), s.to.t, s.to.v)
  ELSE (s.to.t - s.from.t) * (Magnitude(s.from.v) + Magnitude(s.to.v))
segment_area(s) == (s.to.t - s.from.t) * (s.from.v + s.to.v)
Area(points) ==
  LET s == Segments(points) IN Total([i \in DOMAIN s |-> segment_area(s[i])])
AbsArea(points) ==
  LET s == Segments(points) IN Total([i \in DOMAIN s |-> absolute_segment_area(s[i])])
mean(points) == Value(Area(points), 2 * (Last(points).t - points[1].t))

\* ---- Two clocks, aligned once at the beginning by the nearest edge.
Nearest(edges, t) ==
  Min({i \in DOMAIN edges: \A k \in DOMAIN edges: Magnitude(edges[i] - t) <= Magnitude(edges[k] - t)})
From(edges, t) == SubSeq(edges, Nearest(edges, t), Len(edges))
Phases(edges, references) ==
  LET late == edges[1] >= references[1]
      e == IF late THEN edges ELSE From(edges, references[1])
      r == IF late THEN From(references, edges[1]) ELSE references
  IN [i \in 1..Min({Len(e), Len(r)}) |-> e[i] - r[i]]

\* ---- One measure. What cannot be asked is an error of the whole measurement;
\* a response that did not happen rejects this measure only.
MaxOf(S, most) == IF most THEN Max(S) ELSE Min(S)
Cyclic(w, spec) ==
  LET cycles == complete_cycles(w, spec.trace, spec.threshold, spec.start, spec.stop, spec.min) IN
  IF cycles = << >> THEN Rejected
  ELSE CASE spec.operation = "frequency" -> Value(1, MaxOf({c[3] - c[1]: c \in ToSet(cycles)}, ~spec.most))
         [] spec.operation = "duty_cycle" ->
              LET c == CHOOSE x \in ToSet(cycles): \A y \in ToSet(cycles):
                         LET more == (x[2] - x[1]) * (y[3] - y[1]) - (y[2] - y[1]) * (x[3] - x[1])
                         IN IF spec.most THEN more >= 0 ELSE more <= 0
              IN Value(c[2] - c[1], c[3] - c[1])
         [] spec.operation = "extrema" ->
              Value(MaxOf({MaxOf(Levels(window(w.time, w.traces[spec.trace], c[1], c[3])), ~spec.most): c \in ToSet(cycles)}, spec.most), 1)
Measure(w, spec) ==
  LET points == window(w.time, w.traces[spec.trace], spec.start, spec.stop)
      event(direction) == crossings(w, [trace |-> spec.trace, threshold |-> spec.threshold, direction |-> direction], spec.start, spec.stop)
      rises == event("rise")  falls == event("fall")
  IN IF ~Within(w.time, spec.start, spec.stop) THEN Invalid
     ELSE CASE spec.operation = "max" -> Value(Max(Levels(points)), 1)
          [] spec.operation = "mean" -> mean(points)
          [] spec.operation = "abs_integral" -> Value(AbsArea(points), 2)
          [] spec.operation = "count" -> Value(Len(rises), 1)
          [] spec.operation = "delay" ->
               IF spec.pair[1] > Len(rises) \/ spec.pair[2] > Len(falls) THEN Rejected
               ELSE Value(falls[spec.pair[2]] - rises[spec.pair[1]], 1)
          [] spec.operation = "phase" ->
               IF Min({Len(rises), Len(falls)}) < 2 \/ Len(Phases(rises, falls)) < 2 THEN Rejected
               ELSE Value(Max(Range(Phases(rises, falls))) - Min(Range(Phases(rises, falls))), 1)
          [] OTHER -> Cyclic(w, spec)
Collected(measured, sampled) ==
  LET of(kind) == {m \in DOMAIN measured: measured[m].kind = kind} IN
  IF ~sampled \/ of("error") # {} \/ DOMAIN measured = {}
  THEN [kind |-> "error", results |-> << >>, rejections |-> {}]
  ELSE [kind |-> IF of("rejected") = {} THEN "value" ELSE "rejected",
        results |-> [m \in of("value") |-> measured[m]], rejections |-> of("rejected")]
measure_waveform(samples, settings) ==
  LET w == [time |-> samples.time, traces |-> [t \in DOMAIN settings.traces |-> Affine(samples, settings.traces[t])]] IN
  Collected([m \in DOMAIN settings.measures |-> Measure(w, settings.measures[m])],
            Grid(samples.time, 3, settings.max_step))

\* ---- The settling of a step: the last entry into a band around the mean of
\* the reference window, from the trigger to the window's end.
Out(p, final, tolerance) == Magnitude(p.v * final.den - final.num) > tolerance * final.den
Entry(s, final, tolerance) ==
  LET boundary == final.num + (IF s.from.v * final.den > final.num THEN tolerance ELSE -tolerance) * final.den
      slope == (s.to.v - s.from.v) * final.den
  IN <<s.from.t * slope + (s.to.t - s.from.t) * (boundary - s.from.v * final.den), slope>>
Triggers(w, spec) ==
  crossings(w, [trace |-> spec.trigger, threshold |-> spec.threshold, direction |-> "rise"], w.time[1], Last(w.time))
Final(w, spec) == mean(window(w.time, w.traces[spec.trace], spec.start, spec.stop))
LastEntry(w, spec, edge, final) ==
  LET Settle(last, s) == IF Out(s.to, final, spec.tolerance) THEN <<s.to.t, 1>>
                         ELSE IF Out(s.from, final, spec.tolerance) THEN Entry(s, final, spec.tolerance) ELSE last
  IN FoldLeft(Settle, <<edge, 1>>, Segments(window(w.time, w.traces[spec.trace], edge, spec.stop)))
transient_measurements(w, spec) ==
  LET Settled(edges) ==
        IF spec.edge > Len(edges) \/ edges[spec.edge] >= spec.start THEN Invalid
        ELSE LET since(edge, last) == Value(last[1] - edge * last[2], last[2])
             IN since(edges[spec.edge], LastEntry(w, spec, edges[spec.edge], Final(w, spec)))
  IN IF ~Grid(w.time, 3, spec.max_step) \/ ~Within(w.time, spec.start, spec.stop) \/ w.time[1] = spec.start
     THEN Invalid ELSE Settled(Triggers(w, spec))

\* ---- A converter's transfer: one sample for each window, its level and bits.
Signed(plain, width, encoding) ==
  IF encoding = "twos_complement" /\ plain >= 2^(width - 1) THEN plain - 2^width ELSE plain
Code(bits, encoding) ==
  Signed(MapThenSumSet(LAMBDA i: IF bits[i] = "high" THEN 2^(i - 1) ELSE 0, DOMAIN bits), Len(bits), encoding)
Codes(samples, encoding) == [i \in DOMAIN samples |-> Code(samples[i].bits, encoding)]
Changes(code) == SelectSeq([i \in 1..(Len(code) - 1) |-> i], LAMBDA i: code[i + 1] # code[i])
Transfer(samples, code, steps, expected, spec) ==
  LET sum == [i \in DOMAIN steps |-> samples[steps[i]].level + samples[steps[i] + 1].level]
      edges == <<2 * spec.low>> \o sum \o <<2 * spec.high>>
      n == Len(expected)
      lsb == 2 * (spec.high - spec.low)
  IN IF /\ n >= 2 /\ Len(samples) >= n
        /\ \A i \in DOMAIN samples:
             /\ samples[i].settled /\ "unstable" \notin Range(samples[i].bits)
             /\ samples[i].level \in spec.low..spec.high /\ (i > 1 => samples[i].level > samples[i - 1].level)
        /\ code[1] = expected[1] /\ Last(code) = Last(expected)
        /\ \A i \in 1..(Len(code) - 1): code[i + 1] - code[i] \in {0, 1}
        /\ Len(steps) = n - 1
        /\ \A i \in 1..(Len(edges) - 1): edges[i] < edges[i + 1]
     THEN [thresholds |-> sum, \* doubled; what follows is in lsb / n
           dnl |-> [i \in 1..n |-> n * (edges[i + 1] - edges[i]) - lsb],
           inl |-> [i \in 1..(n - 1) |-> n * (sum[i] - 2 * spec.low) - i * lsb]]
     ELSE None
adc_transfer(samples, expected, spec) ==
  LET code == Codes(samples, spec.encoding) IN Transfer(samples, code, Changes(code), expected, spec)

\* ---- Sweeps. A level that is None is a gain of zero, without a logarithm.
point(axis, values, x) == IF axis[1] <= x /\ x <= Last(axis) THEN interpolate(axis, values, x) ELSE None
measure_sweep(axis, values, spec) ==
  LET reference == point(axis, values, spec.reference)
      levels == Levels(window(axis, values, spec.start, spec.stop))
  IN IF ~Grid(axis, 2, spec.max_step) THEN Invalid
     ELSE IF spec.operation = "at" THEN IF reference = None THEN Invalid ELSE Value(reference, Scale)
     ELSE IF ~Within(axis, spec.start, spec.stop) THEN Invalid
     ELSE CASE spec.operation = "span" -> Value(Max(levels) - Min(levels), Scale)
       [] spec.operation = "ppm_per_axis" ->
            IF reference = None \/ spec.reference \notin spec.start..spec.stop \/ reference <= 0 THEN Invalid
            ELSE Value(Max(levels) - Min(levels), reference * (spec.stop - spec.start))
Around(axis, x) ==
  IF x \in Range(axis) THEN {i \in DOMAIN axis: axis[i] = x}
  ELSE {Max({i \in DOMAIN axis: axis[i] < x}), Min({i \in DOMAIN axis: axis[i] > x})}
Known(axis, levels, x) == axis[1] <= x /\ x <= Last(axis) /\ \A i \in Around(axis, x): levels[i] # None
measure_transfer(axis, levels, spec) ==
  LET reference == interpolate(axis, levels, spec.reference)
      points == window(axis, levels, spec.start, spec.stop)
      peak == Max(Levels(points))
      threshold == reference + Scale * spec.relative
      falls == Hits(points, "below", threshold)
      referred == Known(axis, levels, spec.reference)
  IN IF ~Grid(axis, 2, spec.max_step) THEN Invalid
     ELSE IF spec.operation = "gain_db" THEN IF referred THEN Value(reference, Scale) ELSE Invalid
     ELSE IF \/ spec.start >= spec.stop \/ ~Known(axis, levels, spec.start) \/ ~Known(axis, levels, spec.stop)
             \/ \E i \in DOMAIN axis: spec.start < axis[i] /\ axis[i] < spec.stop /\ levels[i] = None
          THEN Invalid
     ELSE IF spec.operation = "peak_gain_db" THEN Value(peak, Scale)
     ELSE IF spec.operation = "peak_frequency_hz" THEN Value(SelectSeq(points, LAMBDA p: p.v = peak)[1].t, 1)
     ELSE IF ~referred THEN Invalid
     ELSE CASE spec.operation = "peaking_db" -> Value(peak - reference, Scale)
       [] spec.operation = "bandwidth_hz" -> IF falls = << >> THEN Invalid ELSE Value(falls[1], 1)

-----------------------------------------------------------------------------
\* What a window tells is what its two parts tell, wherever it is cut: no event
\* is counted twice or lost at a sample on the threshold, nor any area; and the
\* falls of a trace are the rises of its mirror image.
WindowsAdd(w, trace, mirror, threshold, start, middle, stop) ==
  LET rises(a, b) == crossings(w, [trace |-> trace, threshold |-> threshold, direction |-> "rise"], a, b)
      points(a, b) == window(w.time, w.traces[trace], a, b)
  IN /\ rises(start, stop) = rises(start, middle) \o rises(middle, stop)
     /\ Area(points(start, stop)) = Area(points(start, middle)) + Area(points(middle, stop))
     /\ AbsArea(points(start, stop)) = AbsArea(points(start, middle)) + AbsArea(points(middle, stop))
     /\ AbsArea(points(start, stop)) >= Magnitude(Area(points(start, stop)))
     /\ rises(start, stop) = crossings(w, [trace |-> mirror, threshold |-> -threshold, direction |-> "fall"], start, stop)
\* The trace is above the threshold from a cycle's rise to its fall and below
\* until the next rise, and the cycles leave no gap.
CyclesSound(w, trace, threshold, start, stop, minimum) ==
  LET c == complete_cycles(w, trace, threshold, start, stop, minimum)
      level(x) == interpolate(w.time, w.traces[trace], x) - Scale * threshold
  IN /\ \A i \in 1..(Len(c) - 1): c[i][3] = c[i + 1][1]
     /\ \A i \in DOMAIN c: \A x \in c[i][1]..c[i][3]: IF x <= c[i][2] THEN level(x) >= 0 ELSE level(x) <= 0
\* Which of two clocks is called the reference does not matter.
PhasesMirror(edges, references) ==
  edges # << >> /\ references # << >> =>
    LET there == Phases(edges, references)  back == Phases(references, edges) IN
    Len(there) = Len(back) /\ \A i \in DOMAIN there: there[i] = -back[i]
\* A response that did not happen rejects its measure and leaves the others as
\* they are alone; nothing else is reported of a measurement in error.
SameAlone(all, alone) ==
  /\ all.kind # "error" => \A m \in DOMAIN alone:
       /\ m \in DOMAIN all.results <=> m \notin all.rejections
       /\ m \in DOMAIN all.results => all.results[m] = alone[m].results[m]
       /\ m \in all.rejections => alone[m].kind = "rejected"
  /\ all.kind = "error" => all.results = << >> /\ \E m \in DOMAIN alone: alone[m].kind = "error"
MeasuredAlone(samples, settings) ==
  SameAlone(measure_waveform(samples, settings),
            [m \in DOMAIN settings.measures |->
               measure_waveform(samples, [settings EXCEPT !.measures = [x \in {m} |-> @[x]]])])
\* After the reported time the response stays in the band, and before it, it
\* was outside.
StaysAfter(w, spec, m, edge, final) ==
  LET out(x) == Out([v |-> interpolate(w.time, w.traces[spec.trace], x)], final, spec.tolerance)
      after(x) == (x - edge) * Magnitude(m.den) > m.num * (IF m.den < 0 THEN -1 ELSE 1)
  IN m.kind = "value" =>
       /\ m.num * m.den >= 0
       /\ \A x \in edge..spec.stop: after(x) => ~out(x)
       /\ m.num # 0 => \E x \in edge..spec.stop: out(x) /\ ~after(x) /\ (x = spec.stop \/ after(x + 2))
SettledAfter(w, spec) ==
  StaysAfter(w, spec, transient_measurements(w, spec), Triggers(w, spec)[spec.edge], Final(w, spec))
\* An accepted transfer passes every code once and in order, its thresholds lie
\* within full scale between the samples around them, and the errors of its
\* steps add up to the errors of its thresholds.
Adds(a, samples, code, expected, spec) ==
  LET below(i) == {2 * samples[k].level: k \in {x \in DOMAIN samples: code[x] < expected[i + 1]}}
      above(i) == {2 * samples[k].level: k \in {x \in DOMAIN samples: code[x] > expected[i]}}
  IN a # None =>
       /\ Range(code) = Range(expected)
       /\ \A i \in DOMAIN a.thresholds: Max(below(i)) < a.thresholds[i] /\ a.thresholds[i] < Min(above(i))
       /\ \A i \in DOMAIN a.inl: a.inl[i] = Total(SubSeq(a.dnl, 1, i))
       /\ Total(a.dnl) = 0
TransferAdds(samples, expected, spec) ==
  Adds(adc_transfer(samples, expected, spec), samples, Codes(samples, spec.encoding), expected, spec)
\* A bandwidth is where the gain leaves the band around its reference, nothing
\* in the window is above the peak.
GainSound(axis, levels, spec, of) ==
  LET bandwidth == of["bandwidth_hz"]  peak == of["peak_gain_db"]  at == of["peak_frequency_hz"]
      level(x) == interpolate(axis, levels, x)
  IN /\ peak.kind = "value" =>
          /\ level(at.num) = peak.num
          /\ \A x \in spec.start..spec.stop: level(x) <= peak.num
     /\ bandwidth.kind = "value" =>
          /\ level(bandwidth.num) = level(spec.reference) + Scale * spec.relative
          /\ spec.reference = spec.start =>
               \A x \in spec.start..bandwidth.num: level(x) >= level(bandwidth.num)
TransferSound(axis, levels, spec) ==
  GainSound(axis, levels, spec, [o \in {"bandwidth_hz", "peak_gain_db", "peak_frequency_hz"} |->
                                   measure_transfer(axis, levels, [spec EXCEPT !.operation = o])])
=============================================================================
