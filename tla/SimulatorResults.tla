---------------------------- MODULE SimulatorResults ----------------------------
(* What is concluded from a simulator's run: the log of ngspice, the listing of *)
(* HSPICE, and the samples of Spectre with its calibration. A response that was *)
(* prescribed and did not happen fails a candidate; everything else that is not *)
(* a value is an error, which says nothing of the candidate.                    *)
EXTENDS Integers, Sequences, FiniteSets, SequencesExt, FiniteSetsExt, Functions

CONSTANT None

Verdict(status, values) == [status |-> status, values |-> values]
Broken == Verdict("error", << >>)
Of(log, kind) == {log[i].name: i \in {k \in DOMAIN log: log[k].kind = kind}}
Printed(log, name) == {i \in DOMAIN log: log[i].kind = "value" /\ log[i].name = name}
Value(log, name) == log[CHOOSE i \in Printed(log, name): TRUE].value
\* One line gives its value, and that is one.
Given(log, name) == Cardinality(Printed(log, name)) = 1 /\ Value(log, name) # None
Read(log, requested) == Verdict("passed", [n \in requested |-> Value(log, n)])

\* ---- ngspice. An event that did not occur is written as an error of the
\* measure and as its failure; both are needed, of a measure asked for.
FailedEvents(log, requested) == Of(log, "event") \cap Of(log, "failed") \cap requested
Ngspice(run, requested) ==
  LET failed == FailedEvents(run.log, requested)
      rejected == {n \in failed: Printed(run.log, n) = {} /\ run.rows > 0}
  IN IF \/ run.code # 0 \/ run.crashed
        \/ "error" \in {run.log[i].kind: i \in DOMAIN run.log} \/ Of(run.log, "event") \ failed # {}
        \/ failed \ rejected # {}
        \/ \E n \in requested \ rejected: ~Given(run.log, n)
     THEN Broken
     ELSE IF rejected # {} THEN Verdict("failed", << >>) ELSE Read(run.log, requested)
\* A resistor as a voltage proportional to its current, through a source that
\* senses it. The names that are made up must be new; a parameter or a
\* continuation is refused.
Made(card) == <<<<"v", card.name>>, <<"h", card.name>>, <<"node", card.name>>>>
branch_resistors(lines) ==
  LET names == UNION {ToSet(lines[i].words): i \in DOMAIN lines}
      refused(i) == lines[i].kind = "r" /\
        (\/ ~lines[i].constant \/ (i < Len(lines) /\ lines[i + 1].kind = "+")
         \/ Range(Made(lines[i])) \cap names # {})
      sense(card) == <<[card EXCEPT !.kind = "h", !.words = <<Made(card)[2], card.words[2], Made(card)[3], Made(card)[1]>>],
                       [card EXCEPT !.kind = "v", !.words = <<Made(card)[1], Made(card)[3], card.words[3]>>]>>
  IN IF \E i \in DOMAIN lines: refused(i) THEN None
     ELSE FlattenSeq([i \in DOMAIN lines |-> IF lines[i].kind = "r" THEN sense(lines[i]) ELSE <<lines[i]>>])

\* ---- HSPICE.
hspice_measures(run, requested) ==
  IF \/ run.code # 0 \/ ~run.concluded \/ "error" \in {run.log[i].kind: i \in DOMAIN run.log} \/ requested = {}
     \/ \E n \in requested: n \in Of(run.log, "failed") \/ ~Given(run.log, n)
  THEN Broken ELSE Read(run.log, requested)

\* ---- Spectre. Its samples are lines between two marks; a line that is not a
\* number is passed over, and noticed by the length of its series.
psf_ascii(lines) ==
  LET marks == {i \in DOMAIN lines: lines[i].kind = "VALUE"}
      after == SelectSeq([i \in DOMAIN lines |-> IF \E k \in marks: k < i THEN lines[i] ELSE [lines[i] EXCEPT !.kind = "header"]],
                         LAMBDA l: l.kind = "sample")
      of(n) == SelectSeq(after, LAMBDA l: l.name = n)
  IN IF lines = << >> \/ Last(lines).kind # "END" \/ Cardinality(marks) # 1
        \/ \E i \in DOMAIN after: after[i].value = None THEN None
     ELSE [n \in Of(after, "sample") |-> [i \in DOMAIN of(n) |-> of(n)[i].value]]
\* Every measurement reads series as long as its axis (here: their sum).
Measured(series, measures) ==
  [m \in DOMAIN measures |->
     LET s == measures[m] IN
     IF s \notin DOMAIN series \/ Len(series[s]) # Len(series["time"]) THEN "error"
     ELSE IF 0 \in ToSet(series[s]) THEN "rejected" ELSE ToString(FoldLeft(+, 0, series[s]))]
\* _simulate: requested names a measure and its unit, specs what is measured.
Simulate(run, requested, units, measured) ==
  LET rejected == {m \in DOMAIN measured: measured[m] = "rejected"}
      known == \A n \in DOMAIN requested: n \in DOMAIN measured /\ units[n] = requested[n]
  IN IF run.code # 0 \/ ~run.complete \/ "error" \in Range(measured) \/ DOMAIN requested = {} \/ ~known THEN Broken
     ELSE IF rejected \cap DOMAIN requested # {} THEN Verdict("failed", << >>)
     ELSE Verdict("passed", [n \in DOMAIN requested |-> measured[n]])
Spectre(run, requested, units, measures) ==
  LET series == psf_ascii(run.lines) IN
  IF series = None \/ "time" \notin DOMAIN series THEN Broken
  ELSE Simulate(run, requested, units, Measured(series, measures))

\* _calibrate: of the candidates within the bounds, the nearest to the target.
Eligible(result, bounds) == \A m \in DOMAIN bounds: bounds[m][1] <= result.values[m] /\ result.values[m] <= bounds[m][2]
Distance(result, target) == LET d == result.values[target.measurement] - target.value IN IF d < 0 THEN -d ELSE d
Calibrate(candidates, results, bounds, target) ==
  LET ids == [i \in DOMAIN candidates |-> candidates[i].id]
      of(id) == results[id]
      eligible == {id \in Range(ids): Eligible(of(id), bounds)}
      nearest == {id \in eligible: \A other \in eligible: Distance(of(id), target) <= Distance(of(other), target)}
  IN IF \/ candidates = << >> \/ ~IsInjective(ids)
        \/ \E i, k \in DOMAIN candidates: DOMAIN candidates[i].parameters # DOMAIN candidates[k].parameters
        \/ \E i \in DOMAIN ids: of(ids[i]).status # "passed"
        \/ eligible = {} THEN Broken
     ELSE Verdict("passed", [selection |-> Min(nearest), values |-> of(Min(nearest)).values])

\* The commands of its two faster products.
Option(name, value) == IF value = None THEN << >> ELSE <<<<name, value>>>>
ApsCommand(s) ==
  <<<<"spectre", None>>, <<"aps", s.preset>>, <<"mt", s.threads>>>> \o Option("postlayout", s.postlayout)
XCommand(s) ==
  <<<<"spectre", None>>, <<"preset", s.preset>>, <<"mt", s.threads>>>>
    \o Option("postlpreset", s.postlayout) \o (IF s.override = {} THEN << >> ELSE <<<<"preset_override", s.override>>>>)

-----------------------------------------------------------------------------
\* A candidate fails, or passes, only by what the whole log says of every
\* measure: a log that was cut is never the log of a failed one, nor does the
\* order of its lines matter, and a failure that nobody asked about is not
\* taken for the candidate's.
LogConclusive(run, requested) ==
  LET v == Ngspice(run, requested)
      other == [run EXCEPT !.log = Reverse(@)]
      once(n) == Cardinality(Printed(run.log, n)) = 1 /\ n \notin Of(run.log, "event")
      event(n) == n \in Of(run.log, "event") /\ Printed(run.log, n) = {}
  IN /\ Ngspice(other, requested) = v
     /\ v.status = "passed" => \A n \in requested: once(n)
     /\ v.status = "failed" => (\A n \in requested: once(n) \/ event(n)) /\ (\E n \in requested: event(n)) /\ run.rows > 0
     /\ v.status # "error" => "error" \notin {run.log[i].kind: i \in DOMAIN run.log} /\ Of(run.log, "event") \subseteq requested
     /\ v.status = "passed" => \A k \in 0..Len(run.log):
          Ngspice([run EXCEPT !.log = SubSeq(@, 1, k)], requested).status # "failed"
     /\ hspice_measures(run, requested).status = "passed" =>
          /\ \A n \in requested: Cardinality(Printed(run.log, n)) = 1
          /\ ~\E n \in requested: n \in Of(run.log, "failed")
\* The rewritten circuit has no resistor, and each of its elements and nodes is
\* one of the original's or made up for one resistor alone. (A continuation
\* that a comment separates from its card is taken for the sensor's.)
BranchesApart(lines) ==
  LET out == branch_resistors(lines)
      words(cards) == UNION {ToSet(cards[i].words): i \in DOMAIN cards}
      drawn == {lines[i].name: i \in {k \in DOMAIN lines: lines[k].kind = "r"}}
  IN out # None /\ (\A i, k \in DOMAIN lines: i # k /\ lines[i].kind = "r" => lines[i].words[1] # lines[k].words[1]) =>
       /\ \A i \in DOMAIN out: out[i].kind # "r"
       /\ Cardinality(words(out)) = Cardinality(words(lines)) + 2 * Cardinality(drawn)
       /\ \A i \in 1..(Len(lines) - 1): lines[i].kind = "r" => lines[i + 1].kind # "+"
\* A result that was cut short or has a sample that is no number (without one
\* of its axis) is never measured, and a response nobody asked for does not
\* fail the candidate.
SamplesWhole(run, requested, units, measures) ==
  LET v == Spectre(run, requested, units, measures)
      cut(k) == [run EXCEPT !.lines = SubSeq(@, 1, k)]
      begin == Max({i \in DOMAIN run.lines: run.lines[i].kind = "VALUE"} \cup {0})
      nan(n) == \E i \in begin..Len(run.lines): i > 0 /\ run.lines[i].name = n /\ run.lines[i].kind = "other"
  IN v.status # "error" =>
       /\ \A k \in 0..(Len(run.lines) - 1): Spectre(cut(k), requested, units, measures) = Broken
       /\ \A n \in DOMAIN requested: n \in DOMAIN measures /\ units[n] = requested[n]
       /\ \A m \in DOMAIN measures: nan(measures[m]) => nan("time")
       /\ v.status = "passed" => DOMAIN v.values = DOMAIN requested
       /\ v.status = "failed" => \E n \in DOMAIN requested: \E i \in DOMAIN run.lines:
            run.lines[i].kind = "sample" /\ run.lines[i].name = measures[n] /\ run.lines[i].value = 0
\* The setting that is selected does not depend on the candidates' order, is
\* within the bounds and the nearest to the target; no candidate that failed is
\* passed over.
CalibrationNearest(candidates, results, bounds, target) ==
  LET c == Calibrate(candidates, results, bounds, target) IN
  /\ Calibrate(Reverse(candidates), results, bounds, target) = c
  /\ c.status = "passed" =>
       /\ c.values.values = results[c.values.selection].values /\ Eligible(c.values, bounds)
       /\ \A i \in DOMAIN candidates: LET r == results[candidates[i].id] IN
            r.status = "passed" /\ (Eligible(r, bounds) => Distance(c.values, target) <= Distance(r, target))
\* Two ways to run a product are never the same command.
CommandsDiffer(s, t) ==
  /\ s # t => XCommand(s) # XCommand(t)
  /\ ApsCommand(s) = ApsCommand(t) => \A o \in {"threads", "preset", "postlayout"}: s[o] = t[o]
=============================================================================
