----------------------------- MODULE NativeReports -----------------------------
(* How the reports of the native checkers become verdicts on a layout. A run   *)
(* of a tool is what it wrote before it stopped, in the order it wrote it, and *)
(* the way it ended. A line is a file, a key and a value.                      *)
EXTENDS Integers, Sequences, FiniteSets, SequencesExt, FiniteSetsExt

CONSTANT None

Line(file, key, value) == [file |-> file, key |-> key, value |-> value]
Values(run, file, key) ==
  LET found == SelectSeq(run.lines, LAMBDA l: l.file = file /\ l.key = key) IN
  [i \in DOMAIN found |-> found[i].value]
Has(run, file, key) == \E i \in DOMAIN run.lines: run.lines[i].file = file /\ run.lines[i].key = key
Files(run) == {run.lines[i].file: i \in DOMAIN run.lines}
\* A count the report has to give exactly once, and not as zero.
PositiveOnce(values) == Len(values) = 1 /\ values[1] > 0

\* NativeTool: a failed exit or a missing file is a reason of its own.
reason(run, exports) ==
  IF run.code # 0 THEN "exit" ELSE IF exports \subseteq Files(run) THEN "none" ELSE "missing"
Completed(run, exports) == run.code = 0 /\ reason(run, exports) = "none"

\* An extracted netlist that is bound to the ports, rejected or not understood.
Extracted(run) == [bound |-> "passed", rejected |-> "failed", invalid |-> "error"][run.netlist]

\* ---- PVS and Quantus.
PvsDrc(run) ==
  LET count == Values(run, "log", "results") IN
  IF ~Has(run, "log", "finished") \/ Len(count) # 1 \/ ~PositiveOnce(Values(run, "log", "rules")) THEN "error"
  ELSE IF count[1] > 0 THEN "failed" ELSE "passed"
lvs_passed(run, top) ==
  /\ Values(run, "report", "result") = <<"MATCH">>
  /\ Has(run, "report", "end") /\ Has(run, "report", "clean")
  /\ <<top, top>> \in ToSet(Values(run, "report", "cell"))
  /\ \E n \in ToSet(Values(run, "report", "matched")): n > 0
  /\ 0 \in ToSet(Values(run, "report", "blackboxed"))
Pvs(check, run, top) ==
  IF ~Completed(run, IF check = "rc" THEN {"log", "report", "qrc"} ELSE {"log"}) THEN "error"
  ELSE IF check = "drc" THEN PvsDrc(run)
  ELSE IF ~lvs_passed(run, top) THEN
         IF Values(run, "report", "result") = <<"MISMATCH">> /\ Has(run, "report", "end") THEN "failed" ELSE "error"
  ELSE IF check = "lvs" THEN "passed"
  ELSE IF ~Has(run, "qrc", "terminated") THEN "error"
  ELSE Extracted(run)

\* ---- Calibre, alone and before Quantus or StarRC.
drc_summary(run, top) ==
  LET counts == Values(run, "summary", "results") IN
  IF ~PositiveOnce(Values(run, "summary", "rules")) \/ Len(counts) # 1
     \/ Values(run, "summary", "cell") # <<top>> \/ ~Has(run, "summary", "calibre")
  THEN "error" ELSE IF counts[1] # <<0, 0>> THEN "failed" ELSE "passed"
lvs_summary(run, top) ==
  LET rows == ToSet(Values(run, "lvs", "row")) IN
  IF \/ \E k \in {"cells", "ruled", "overall", "elapsed"}: ~Has(run, "lvs", k)
     \/ "NO" \notin ToSet(Values(run, "lvs", "ignore ports")) \/ "YES" \notin ToSet(Values(run, "lvs", "port names"))
     \/ \A r \in rows: r[2] # top \/ r[3] # top
     \/ Has(run, "lvs", "box")
  THEN "error" ELSE IF \A r \in rows: r[1] = "CORRECT" THEN "passed" ELSE "failed"
\* Exit 4 is a rejection of the layout only with one of two diagnostics.
Calibre(check, run, top) ==
  LET exports == IF check = "drc" THEN {"summary"} ELSE IF check = "lvs" THEN {"lvs"} ELSE {"lvs", "pdb", "fmt"}
      verdict == IF check = "drc" THEN drc_summary(run, top) ELSE lvs_summary(run, top)
  IN IF run.killed \/ Has(run, "log", "crash") THEN "error"
     ELSE IF run.code = 4 /\ Has(run, "log", "rejected input") THEN "failed"
     ELSE IF ~Completed(run, exports) THEN "error"
     ELSE IF check # "rc" \/ verdict # "passed" THEN verdict
     ELSE IF \E f \in {"pdb", "fmt"}: Values(run, f, "errors") # <<0>> THEN "error"
     ELSE Extracted(run)

\* wait_process_tree: the launcher waits for the command and its orphans, and
\* once the log says the work is done, no longer than its grace.
Grace == 2
Reaped(s, e) ==
  IF s.alive = {} THEN s
  ELSE CASE e.what = "end" /\ e.pid \in s.alive ->
              [s EXCEPT !.alive = @ \ {e.pid}, !.status = IF @ = 0 THEN e.code ELSE @,
                        !.command = IF e.pid = 1 THEN e.code ELSE @]
         [] e.what = "log" -> [s EXCEPT !.seen = IF @ = None THEN s.now ELSE @]
         [] e.what = "tick" ->
              IF s.seen = None \/ s.now + 1 - s.seen < Grace THEN [s EXCEPT !.now = @ + 1]
              ELSE [s EXCEPT !.status = 124, !.interrupted = TRUE, !.alive = {}, !.now = @ + 1,
                             !.command = IF 1 \in s.alive THEN 137 ELSE @]
         [] OTHER -> s
Launched(pids) == [alive |-> pids, status |-> 0, command |-> None, seen |-> None, interrupted |-> FALSE, now |-> 0]
wait_process_tree(pids, happens) ==
  LET s == FoldLeft(Reaped, Launched(pids), happens) IN
  IF s.alive # {} THEN None
  ELSE [returncode |-> s.status, command |-> s.command, seen |-> s.seen # None, exceeded |-> s.interrupted]
\* CalibreQuantus: the lifecycle has to be reported, and to be of this run.
Lifecycle(run) ==
  LET e == run.exit IN
  CASE e = None -> run.code # 0
    [] OTHER -> /\ e.returncode = run.code
                /\ e.command # None
                /\ run.code = 0 => e.command = 0
                /\ e.exceeded => e.seen /\ run.code = 124
CalibreQuantus(run, top) ==
  LET verdict == lvs_summary(run, top) IN
  IF ~Lifecycle(run) THEN "error"
  ELSE IF run.exit # None /\ run.exit.exceeded THEN "error"
  ELSE IF ~Completed(run, {"lvs", "qrc"}) THEN "error"
  ELSE IF verdict # "passed" THEN verdict
  ELSE IF ~Has(run, "qrc", "terminated") THEN "error"
  ELSE Extracted(run)
\* StarRC writes one summary for each of its workers.
StarClean(run) ==
  /\ Has(run, "star", "errors") /\ \A n \in ToSet(Values(run, "star", "errors")): n = 0
  /\ Has(run, "star", "done")
CalibreStarRC(run, top) ==
  LET verdict == lvs_summary(run, top) IN
  IF ~Completed(run, {"lvs", "star"}) THEN "error"
  ELSE IF verdict # "passed" THEN verdict
  ELSE IF ~StarClean(run) THEN "error"
  ELSE Extracted(run)

\* ---- Assura.
AssuraRan(run, top, marks) ==
  /\ PositiveOnce(Values(run, "sum", "rules")) /\ PositiveOnce(Values(run, "sum", "cells"))
  /\ \A k \in marks: Len(Values(run, "log", k)) = 1
  /\ top \in ToSet(Values(run, "log", "cell")) /\ top \in ToSet(Values(run, "log", "structure"))
  /\ Has(run, "sum", "end")
AssuraDrc(run, top) ==
  LET counts == Values(run, "log", "errors") IN
  IF ~AssuraRan(run, top, {"terminated"}) \/ Len(counts) # 1 THEN "error"
  ELSE IF counts[1] # <<0, 0>> THEN "failed" ELSE "passed"
AssuraLvs(run, top) ==
  LET row == SelectSeq(Values(run, "cells", "row"), LAMBDA r: r[1] = top /\ r[2] = top)
      matched == Values(run, "comparison", "text") = <<"match">>
      ends == Last(SelectSeq(run.lines, LAMBDA l: l.file = "cells"))
  IN IF ~AssuraRan(run, top, {"terminated", "lvs terminated"}) \/ "comparison" \notin Files(run) \/ Len(row) # 1 THEN "error"
     ELSE IF matched /\ (row[1][3] # "matched" \/ ends.key # "match") THEN "error"
     ELSE IF matched THEN "passed" ELSE "failed"
Assura(check, run, top) ==
  IF ~Completed(run, IF check = "rc" THEN {"log", "qrc"} ELSE {"log"}) THEN "error"
  ELSE IF check = "drc" THEN AssuraDrc(run, top)
  ELSE IF check = "lvs" \/ AssuraLvs(run, top) # "passed" THEN AssuraLvs(run, top)
  ELSE IF ~Has(run, "qrc", "terminated") THEN "error"
  ELSE Extracted(run)

\* ---- IC Validator. The rules that did not run are the ones that were allowed not to.
icv_drc_summary(run, top, allowed) ==
  LET count == Values(run, "results", "violations") IN
  IF Values(run, "results", "cell") # <<top>> \/ ~Has(run, "results", "done")
     \/ ~PositiveOnce(Values(run, "results", "rules")) \/ Len(count) # 1
     \/ ToSet(Values(run, "results", "not executed")) # allowed
  THEN "error" ELSE IF count[1] > 0 THEN "failed" ELSE "passed"
icv_lvs_summary(run, top, checks) ==
  LET verdict == Values(run, "errors", "final") IN
  IF Len(verdict) # 1 \/ <<top, top>> \notin ToSet(Values(run, "errors", "equivalence"))
     \/ \E c \in DOMAIN checks: Values(run, "errors", c) # <<checks[c]>>
  THEN "error" ELSE IF verdict = <<"PASS">> THEN "passed" ELSE "failed"
\* The first card that is wrong decides; a netlist without devices is rejected.
StarRejects(card) ==
  CASE card.kind \in {"r", "c"} -> IF card.value > 0 THEN "no" ELSE "invalid"
    [] card.kind = "m" -> IF card.value = None \/ card.value <= 0 THEN "rejected" ELSE "no"
    [] card.kind = "comment" -> "no"
    [] OTHER -> "invalid"
starrc_netlist(cards, tops, top) ==
  LET wrong == SelectSeq([i \in DOMAIN cards |-> StarRejects(cards[i])], LAMBDA w: w # "no") IN
  IF tops # <<top>> THEN "rejected" ELSE IF wrong # << >> THEN wrong[1]
  ELSE IF {"r", "c", "m"} \subseteq {cards[i].kind: i \in DOMAIN cards} THEN "bound" ELSE "rejected"
Icv(check, run, top, allowed, checks) ==
  LET verdict == icv_lvs_summary(run, top, checks) IN
  IF ~Completed(run, IF check = "drc" THEN {"results"} ELSE {"errors"}) THEN "error"
  ELSE IF check = "drc" THEN icv_drc_summary(run, top, allowed)
  ELSE IF check = "lvs" \/ verdict # "passed" THEN verdict
  ELSE IF ~StarClean(run) THEN "error"
  ELSE Extracted([run EXCEPT !.netlist = starrc_netlist(run.cards, run.tops, top)])

\* ---- The bounding boxes of a layout, by Virtuoso or Custom Compiler.
Bounds(shapes, layers) ==
  LET s == {b \in shapes: b.layer \in layers} IN
  IF s = {} THEN None
  ELSE [x1 |-> Min({b.x1: b \in s}), y1 |-> Min({b.y1: b \in s}), x2 |-> Max({b.x2: b \in s}), y2 |-> Max({b.y2: b \in s})]
Exceeds(box, spec) == box.x2 - box.x1 > spec.width \/ box.y2 - box.y1 > spec.height
geometry_result(run, constraints) ==
  LET shapes == ToSet(Values(run, "geometry", "shape"))
      outline(c) == Bounds(shapes, c.layers)
      result(status, areas) == [status |-> status, areas |-> areas]
  IN IF ~Has(run, "geometry", "complete") \/ \E b \in shapes: b.x2 < b.x1 \/ b.y2 < b.y1 THEN result("error", << >>)
     ELSE IF \/ shapes = {}
             \/ \E c \in constraints.hard: outline(c) = None \/ Exceeds(outline(c), c)
             \/ \E c \in constraints.quality: outline(c) = None
          THEN result("failed", << >>)
     ELSE result("passed", [i \in {c.id: c \in constraints.quality} |->
            LET b == outline(CHOOSE c \in constraints.quality: c.id = i) IN (b.x2 - b.x1) * (b.y2 - b.y1)])
Status(status) == [status |-> status, areas |-> << >>]
\* The import of a layout, then its shapes. A diagnostic of Custom Compiler's
\* import is a verdict only when the import ended as it does on one.
Virtuoso(run, constraints) ==
  IF Has(run, "stream", "rejected input") THEN Status("failed")
  ELSE IF ~Completed(run, {"geometry"}) THEN Status("error")
  ELSE IF Values(run, "stream", "errors") # <<0>> THEN Status("failed")
  ELSE geometry_result(run, constraints)
CustomCompiler(run, constraints) ==
  IF run.killed \/ Has(run, "stream", "crash") THEN Status("error")
  ELSE IF run.code \in {0, 1} /\ Has(run, "stream", "rejected input") THEN Status("failed")
  ELSE IF ~Completed(run, {"geometry"}) THEN Status("error")
  ELSE IF ToSet(Values(run, "stream", "errors")) # {0} THEN Status("failed")
  ELSE geometry_result(run, constraints)

\* ---- What the tools write of a layout that is clean, has a violation, is
\* compared with a black box or under another top, is checked by no rule or
\* cannot be read.
Only(condition, lines) == IF condition THEN lines ELSE << >>
L3(file, pairs) == [i \in DOMAIN pairs |-> Line(file, pairs[i][1], pairs[i][2])]
Wrong(truth) == IF truth = "dirty" THEN 1 ELSE 0
Ran(truth) == IF truth = "idle" THEN 0 ELSE 2
CellOf(truth, top) == IF truth = "other" THEN "cell" ELSE top
PvsWrites(check, truth, top) ==
  IF check = "drc" THEN L3("log", <<<<"rules", Ran(truth)>>, <<"results", Wrong(truth)>>, <<"finished", 0>>>>)
  ELSE <<Line("log", "started", 0)>>
       \o L3("report", <<<<"cell", <<CellOf(truth, top), top>>>>, <<"clean", 0>>, <<"matched", Ran(truth) - Wrong(truth)>>,
                       <<"blackboxed", IF truth = "boxed" THEN 1 ELSE 0>>,
                       <<"result", IF truth = "dirty" THEN "MISMATCH" ELSE "MATCH">>, <<"end", 0>>>>)
       \o Only(check = "rc" /\ truth # "dirty", <<Line("qrc", "started", 0), Line("qrc", "terminated", 0)>>)
CalibreCompares(truth, top) ==
  L3("lvs", <<<<"overall", 0>>, <<"cells", 0>>>>)
  \o Only(truth # "idle", L3("lvs", <<<<"row", <<"CORRECT", CellOf(truth, top), CellOf(truth, top)>>>>,
                                     <<"row", <<IF truth = "dirty" THEN "INCORRECT" ELSE "CORRECT", "cell", "cell">>>>>>))
  \o L3("lvs", <<<<"ruled", 0>>, <<"ignore ports", "NO">>, <<"port names", "YES">>>>)
  \o Only(truth = "boxed", <<Line("lvs", "box", "cell")>>) \o <<Line("lvs", "elapsed", 0)>>
CalibreWrites(check, truth, top) ==
  IF check = "drc" THEN L3("summary", <<<<"calibre", 0>>, <<"cell", CellOf(truth, top)>>, <<"rules", Ran(truth)>>,
                                        <<"results", <<0, Wrong(truth)>>>>>>)
  ELSE CalibreCompares(truth, top) \o Only(check = "rc", <<Line("pdb", "errors", 0), Line("fmt", "errors", 0)>>)
StarWrites == <<Line("star", "errors", 0), Line("star", "done", 0)>>
AssuraWrites(check, truth, top) ==
  LET c == CellOf(truth, top) IN
  L3("log", <<<<"cell", c>>, <<"structure", c>>>>)
  \o L3("sum", <<<<"rules", Ran(truth)>>, <<"cells", 1>>, <<"end", 0>>>>)
  \o (IF check = "drc" THEN L3("log", <<<<"errors", <<0, Wrong(truth)>>>>, <<"terminated", 0>>>>)
      ELSE L3("cells", <<<<"row", <<c, top, IF truth = "dirty" THEN "differs" ELSE "matched">>>>,
                         <<IF truth = "dirty" THEN "differ" ELSE "match", 0>>>>)
           \o L3("comparison", <<<<"text", IF truth = "dirty" THEN "differ" ELSE "match">>>>)
           \o L3("log", <<<<"lvs terminated", 0>>, <<"terminated", 0>>>>)
           \o Only(check = "rc" /\ truth # "dirty", <<Line("qrc", "started", 0), Line("qrc", "terminated", 0)>>))
IcvWrites(check, truth, top) ==
  IF check = "drc"
  THEN L3("results", <<<<"cell", CellOf(truth, top)>>, <<"rules", 1>>, <<"not executed", "optional">>>>)
       \o Only(truth = "idle", <<Line("results", "not executed", "density")>>)
       \o L3("results", <<<<"violations", Wrong(truth)>>, <<"done", 0>>>>)
  ELSE L3("errors", <<<<"equivalence", <<CellOf(truth, top), top>>>>, <<"devices", Ran(truth)>>,
                      <<"final", IF truth = "dirty" THEN "FAIL" ELSE "PASS">>>>)
       \o Only(check = "rc", StarWrites)
GeometryWrites(truth) ==
  L3("stream", <<<<"errors", IF truth = "idle" THEN 1 ELSE 0>>>>)
  \o L3("geometry", [i \in 1..3 |-> <<"shape", [layer |-> IF truth = "other" THEN "text" ELSE "m1", x1 |-> i, y1 |-> 0,
                                               x2 |-> IF truth = "dirty" THEN i + 2 ELSE i + 1, y2 |-> 1]>>])
  \o <<Line("geometry", "complete", 0)>>
Writes(tool, check, truth, top) ==
  IF truth = "broken" THEN <<Line(IF tool = "calibre" THEN "log" ELSE "stream", "rejected input", 0)>>
  ELSE CASE tool = "pvs" -> PvsWrites(check, truth, top)
         [] tool = "calibre" -> CalibreWrites(check, truth, top)
         [] tool = "quantus" -> CalibreCompares(truth, top) \o <<Line("qrc", "started", 0), Line("qrc", "terminated", 0)>>
         [] tool = "starrc" -> CalibreCompares(truth, top) \o StarWrites
         [] tool = "assura" -> AssuraWrites(check, truth, top)
         [] tool = "icv" -> IcvWrites(check, truth, top)
         [] OTHER -> GeometryWrites(truth)
Judged(tool, check, run, top, constraints) ==
  CASE tool = "pvs" -> Pvs(check, run, top)
    [] tool = "calibre" -> Calibre(check, run, top)
    [] tool = "quantus" -> CalibreQuantus(run, top)
    [] tool = "starrc" -> CalibreStarRC(run, top)
    [] tool = "assura" -> Assura(check, run, top)
    [] tool = "icv" -> Icv(check, run, top, {"optional"}, [devices |-> 2])
    [] tool = "virtuoso" -> Virtuoso(run, constraints).status
    [] OTHER -> CustomCompiler(run, constraints).status

\* Whatever moment a tool stops at and however it ends, a layout passes only
\* when it is clean, fails only when it is not, and a tool that was not asked
\* the question, or did not get to answer it, says neither. A tool that is not
\* disturbed answers.
Conclusive(tool, check, truth, run, top, constraints) ==
  LET status == Judged(tool, check, run, top, constraints)
      bound == IF check # "rc" THEN "passed" ELSE IF tool = "icv"
               THEN Extracted([run EXCEPT !.netlist = starrc_netlist(run.cards, run.tops, top)]) ELSE Extracted(run)
      whole == run.lines = Writes(tool, check, truth, top)
      undisturbed == whole /\ run.code = 0 /\ ~run.killed /\ (tool = "quantus" => run.exit # None)
  IN /\ status = "passed" => truth = "clean" /\ bound = "passed" /\ whole /\ run.code = 0
     /\ status = "failed" => truth \in {"dirty", "broken"} \/ (truth = "clean" /\ bound = "failed")
                             \/ (tool \in {"virtuoso", "customcompiler"} /\ truth \in {"idle", "other"})
     /\ undisturbed /\ truth = "clean" => status = bound
     /\ undisturbed /\ truth = "dirty" /\ (check # "rc" \/ tool \notin {"pvs", "assura"}) => status = "failed"
\* The launcher leaves no process behind, forgets no failure, and its report of
\* an orphan that would not end is never a verdict on the layout.
Waited(pids, happens, run, top) ==
  LET report == wait_process_tree(pids, happens)
      answered == [run EXCEPT !.code = report.returncode, !.exit = report] IN
  report # None =>
    /\ Lifecycle(answered)
    /\ report.returncode = 0 => \A p \in pids: \E i \in DOMAIN happens: happens[i].what = "end" /\ happens[i].pid = p /\ happens[i].code = 0
    /\ CalibreQuantus(answered, top) # "error" => ~report.exceeded /\ report.command = 0
=============================================================================
