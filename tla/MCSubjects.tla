------------------------------- MODULE MCSubjects -------------------------------
(* The pure functions beside the session, each checked on the values of        *)
(* `subject' that its focus names. A subject that is a history, a report, a    *)
(* stream or a trace grows by one piece at a time.                             *)
EXTENDS ComponentMachines, Integers, Sequences, FiniteSets, TLC

VARIABLES focus, subject

Upto(S, n) == UNION {[1..k -> S]: k \in 0..n}
LastOf(s) == s[Len(s)]

\* ---- The meaning of a reply.
W == INSTANCE WireSemantics
Usage(i, o) == [input |-> i, output |-> o, cached |-> None]
MessagesUsages == {None, Usage(1, None), [Usage(1, 2) EXCEPT !.cached = 3], Usage(W!Invalid, 1)}
MessagesEvents ==
  LET e(type, reason, usage) == [type |-> type, reason |-> reason, usage |-> usage] IN
  {e(t, None, None): t \in {"ping", "error", "message_stop", "other"}}
  \cup {e("message_start", r, u): r \in {None, "end_turn"}, u \in MessagesUsages}
  \cup {e("message_delta", r, u): r \in {None, "max_tokens"}, u \in {None, Usage(None, 4)}}
ResponsesEvents ==
  LET e(type, status, failed, reason, usage) ==
        [type |-> type, status |-> status, failed |-> failed, reason |-> reason, usage |-> usage]
  IN {e("other", "none", FALSE, "none", None), e("error", "none", TRUE, "none", None),
      e("completed", "completed", FALSE, "none", Usage(1, 1)),
      e("completed", "completed", FALSE, "none", Usage(W!Invalid, 1)),
      e("completed", "incomplete", FALSE, "max_tokens", None),
      e("failed", "failed", TRUE, "none", None),
      e("incomplete", "incomplete", FALSE, "max_tokens", Usage(1, 1)),
      e("incomplete", "incomplete", FALSE, "other", None)}
WireSubjects ==
  {[api |-> "messages", media |-> "stream", stream |-> s, cut |-> FALSE]: s \in Upto(MessagesEvents, 4)}
  \cup {[api |-> "responses", media |-> "stream", stream |-> s, cut |-> c]:
          s \in Upto(ResponsesEvents, 3), c \in BOOLEAN}

\* ---- The quality of a measurement.
Q == INSTANCE ScoreQuality
QualitySubjects ==
  [m: {m \in [normalization: {"degradation", "target", "db20", "saturating_ratio", "ratio"},
              direction: {"minimize", "maximize", "target"},
              scale: {None, 1, 2}, target: {None, -1, 0, 2}]: Q!LegalMetric(m)},
   value: -1..3, other: -1..3, baseline: -1..2]

\* ---- What a participant's CLI leaves behind: its errors and its usage.
H == INSTANCE HarnessFailures
\* No failure and no count is taken for an absent one: the proofs assume it.
Categories == H!Vocabulary \cup {"budget", "configuration", "crash", "unknown"}
ASSUME FailuresPresent ==
  None \notin Categories \cup [category: Categories, retryable: BOOLEAN, stop: BOOLEAN]
ASSUME CountsPresent == None \notin Int
CliEvent(type, code) ==
  [type |-> type, is_error |-> FALSE, code |-> code, message |-> "none", tool |-> "none",
   text |-> "none", subtype |-> "none", failed |-> FALSE,
   attribution |-> [source |-> "none", code |-> None, reason |-> "other", denied |-> FALSE, retryable |-> FALSE]]
CliEvents ==
  [codex |->
     {CliEvent(t, None): t \in {"turn.started", "turn.completed"}}
     \cup {CliEvent("turn.failed", "overloaded"), CliEvent("error", "network"), CliEvent("error", "quota")}
     \cup {[CliEvent("error", None) EXCEPT !.message = m]: m \in {"reconnecting", "unauthorized"}}
     \cup {[CliEvent(t, None) EXCEPT !.tool = "t"]: t \in {"tool.completed", "tool.failed", "tool.denied"}},
   claude |->
     {[CliEvent("assistant", c) EXCEPT !.text = x]: c \in {None, "rate_limit", "overloaded", "other"}, x \in {"a", "b"}}
     \cup {[CliEvent("result", None) EXCEPT !.subtype = "success", !.is_error = b, !.text = "a"]: b \in BOOLEAN}
     \cup {CliEvent("error", "overloaded")},
   zcode |->
     {[CliEvent("turn.failed", f) EXCEPT !.attribution =
         [source |-> s, code |-> c, reason |-> r, denied |-> TRUE, retryable |-> y]]:
        f \in {"other", "rate_limit"}, s \in {"provider", "network"}, c \in {None, "quota", "rate_limit"},
        r \in {"auth_failed", "rate_limited", "timeout"}, y \in BOOLEAN}
     \cup {[CliEvent("result", None) EXCEPT !.failed = b]: b \in BOOLEAN},
   dsh |-> {CliEvent("turn_end", c): c \in {None, "quota", "network", "other"}} \cup {CliEvent("error", "rate_limit")},
   kimi |-> {CliEvent(t, c): t \in {"error", "line"}, c \in {"quota", "rate_limit", "network", "overloaded", "other"}}
            \cup {CliEvent("line", "unset")}]
StreamLength == [codex |-> 4, claude |-> 3, zcode |-> 2, dsh |-> 3, kimi |-> 3]
HarnessSubjects == {[harness |-> h, events |-> << >>, exit |-> x]: h \in DOMAIN CliEvents, x \in {0, 1, -9}}
Hears ==
  /\ focus = "harness" /\ Len(subject.events) < StreamLength[subject.harness]
  /\ \E e \in CliEvents[subject.harness]: subject' = [subject EXCEPT !.events = Append(@, e)]

U == INSTANCE UsageAccounting
Price == [rates |-> [uncached |-> 2, cached |-> 1, output |-> 3], models |-> {"m"}, threshold |-> 2,
          long |-> [uncached |-> 4, cached |-> 1, output |-> 6], reported |-> TRUE, currency |-> "EUR"]
Flat == [Price EXCEPT !.reported = FALSE, !.threshold = None]
CallRecords ==
  {U!request_record(<<"first", i>>, None, "request", [input |-> n, uncached |-> None, cached |-> 0, output |-> 1], c):
     i \in {"a", "b"}, n \in {None, 3}, c \in {None, 5}}
SpentSubjects ==
  [calls: Upto({"s", "t"} \X {1, 2}, 3), again: {<<1, 1, 1>>, <<1, 2, 1>>}, broken: {{}, {1}, {2}, {1, 3}}, open: {{}, {"s"}}]
RecordSubjects == [reported: [U!Fields -> {None, -1, 1, 3}], cost: {None, 1}, pricing: {None, Price}]
AttemptsSubjects == [one: Upto(CallRecords, 2), two: Upto(CallRecords, 1), pricing: {None, Price, Flat}]

\* ---- A finished run, as it was frozen and with something of it exchanged.
F == INSTANCE FrozenRun
Same(S) == [x \in S |-> x]
Frozen(capable, infers) ==
  [conditions |-> [task |-> "t", image |-> "i"], capabilities |-> capable, limits |-> "l",
   agent |-> [kind |-> "online", budget |-> [wall |-> 2, calls |-> 3],
              inference |-> IF infers THEN [profile |-> "p", model |-> "m"] ELSE None],
   hours |-> 1, description |-> "d", inputs |-> [evaluation |-> "plan", netlist |-> "net"], files |-> "files",
   plans |-> [plan |-> {"candidate", "task", "netlist"}, plan2 |-> {"candidate"}],
   implementation |-> [scoring |-> "s", runner |-> "r"], backends |-> "b", witnessed |-> TRUE,
   archive |-> Same({"plan", "d", "net"})]
Opened(c, v) == [task |-> "t", backends |-> "b", engine |-> [scoring |-> "s"], candidate |-> c, verdict |-> v]
Submitted(sequence) == [i \in DOMAIN sequence |-> [accepted |-> sequence[i] # "g3", candidate |-> sequence[i], receipt |-> sequence[i]]]
Honest(f) ==
  LET opinion == <<[sequence |-> 1, task |-> "t", elapsed |-> 0, content |-> "o"]>>
      feedback == "feedback" \in f.capabilities
      offline == f.agent.inference = None
  IN [journal |-> [digest |-> "j", feedback |-> IF feedback THEN opinion ELSE << >>,
                   submissions |-> Submitted(<<"g1", "g3", "g2", "g3">>)],
      archive |-> Same({"g1", "g2", "g3", "plan", "plan2", "d", "net", "c1", "o"}),
      opened |-> [c1 |-> Opened("g1", "passed"), c2 |-> Opened("g2", "failed"), g1 |-> Opened("g1", "none")],
      report |-> [phase |-> "finished", conditions |-> f.conditions, kind |-> IF offline THEN "offline" ELSE "online",
                  budget |-> [wall |-> 1, calls |-> 3], implementation |-> [runner |-> "r"], files |-> "files",
                  inference |-> IF offline THEN None ELSE [profile |-> "p", kind |-> "online", model |-> "m"],
                  inputs |-> f.inputs, events |-> "j", candidate |-> "g2", evaluation |-> "e", outcome |-> "pass", score |-> 5,
                  process |-> IF "process" \in f.capabilities
                     THEN <<[sequence |-> 1, candidate |-> "g1", report |-> "c1", copy |-> "c1", verdict |-> "passed"],
                            [sequence |-> 2, candidate |-> "g2", report |-> None, copy |-> None, verdict |-> "error"]>> ELSE None,
                  feedback |-> IF feedback THEN opinion ELSE None],
      evaluation |-> [digest |-> "e", engine |-> [scoring |-> "s"], task |-> "t", backends |-> "b", witnessed |-> TRUE,
                      plan |-> "plan", inputs |-> [candidate |-> "g2", task |-> "d", netlist |-> "net"], score |-> 5]]
Exchanges(r) ==
  {[r EXCEPT !.report.candidate = "g1"], [r EXCEPT !.evaluation.inputs["candidate"] = "g1"],
   [r EXCEPT !.journal.submissions = SubSeq(@, 1, 2)],
   [r EXCEPT !.evaluation.plan = "plan2"], [r EXCEPT !.evaluation.inputs["netlist"] = "d"],
   [r EXCEPT !.archive["plan"] = "plan2"], [r EXCEPT !.archive["g2"] = "g1"], [r EXCEPT !.archive["g1"] = "g2"],
   [r EXCEPT !.archive["net"] = "d"], [r EXCEPT !.archive["c1"] = "g1"], [r EXCEPT !.evaluation.engine["scoring"] = "s2"],
   [r EXCEPT !.evaluation.score = 6], [r EXCEPT !.report.score = 6], [r EXCEPT !.report.budget.wall = 2],
   [r EXCEPT !.report.inference = None], [r EXCEPT !.report.kind = "offline"], [r EXCEPT !.report.feedback = None],
   [r EXCEPT !.journal.digest = "j2"], [r EXCEPT !.report.evaluation = None]}
  \cup {[r EXCEPT !.journal.submissions[i].accepted = TRUE]: i \in {4} \cap DOMAIN r.journal.submissions}
  \cup IF r.report.process = None THEN {}
       ELSE {[r EXCEPT !.report.process[1].verdict = "failed"], [r EXCEPT !.report.process[1].candidate = "g2"],
             [r EXCEPT !.report.process[1].copy = "c2"], [r EXCEPT !.report.process[1].report = "c2"]}
FrozenSubjects ==
  LET f(c, i) == Frozen(c, i) IN
  {[run |-> Honest(f(c, i)), frozen |-> f(c, i), edits |-> 0]: c \in {{}, {"process"}, {"process", "feedback"}}, i \in BOOLEAN}
Exchange ==
  /\ focus = "frozen" /\ subject.edits < 2
  /\ \/ \E r \in Exchanges(subject.run): subject' = [subject EXCEPT !.run = r, !.edits = @ + 1]
     \/ subject' = [subject EXCEPT !.frozen.archive["plan"] = "plan2", !.edits = @ + 1]
ServiceResults ==
  {[outcome |-> "pass", score |-> s, limits |-> "l", tool |-> "i", candidate |-> c]: s \in {5, 6}, c \in {"g1", "g2"}}
RunHolds ==
  /\ \A s \in ServiceResults: F!RunBound(subject.run, s, subject.frozen)
  /\ subject.edits = 0 => F!verify_frozen_run(subject.run, subject.frozen)

\* ---- An export of its evidence, and packages of exports, damaged on their way.
MCSize(d) == IF "bytes" \in DOMAIN d /\ d.bytes = "big" THEN 3 ELSE 1
MCFiles(d) == d.files
K == INSTANCE ResultPackage WITH Size <- MCSize, Files <- MCFiles, ManifestSize <- 1, MaxBytes <- 6, MaxFiles <- 5
Reference(job, name, sha, path) == [job |-> job, name |-> name, sha |-> sha, path |-> path, retained |-> TRUE]
References ==
  {Reference(<<"a">>, <<"b", "-", "c">>, "s1", "p1"), Reference(<<"a", "-", "b">>, <<"c">>, "s2", "p2"),
   Reference(<<"a", "-", "b">>, <<"c">>, "s1", "p1"), Reference(<<"a">>, <<"log">>, "s3", "p3"),
   Reference(<<"x">>, <<"log">>, "s1", "p1"), Reference(<<"x">>, <<"out">>, "s2", None)}
ExportSubjects ==
  [refs: Upto(References, 3), omitted: {{}, {"p3"}, {"p1", "p3"}},
   archive: {{"s1", "s2", "s3", "i"}, {"s1", "s3", "i"}, {"s2"}}, process: BOOLEAN, recomputed: {1, 2},
   tree: {<< >>, [n \in {<<"evaluation", "a", "-", "b", "-", "c">>} |-> "s2"]}]
Bytes(b) == [bytes |-> b, files |-> << >>]
Exports ==
  LET export(place, state, test, names, fs, d) ==
        [place |-> place, state |-> state, test_only |-> test,
         tree |-> [n \in names \cup {<<"result.json">>} |->
                     IF n = <<"result.json">> THEN [bytes |-> "result", files |-> fs] ELSE Bytes(d)]]
  IN {export(p, st, t, names, fs, d): p \in {<<"case">>, <<"participant">>}, st \in {"complete", "error", "running"},
        t \in BOOLEAN, names \in SUBSET {<<"final.gds">>, <<"native", "t">>, <<".private", "k">>},
        fs \in {<< >>, <<<<"native", "t">>>>, <<<<"native", "t">>, <<"native", "t">>, <<"final.gds">>>>, <<<<".private", "k">>>>},
        d \in {"one", "big"}}
ExportLists == Upto(Exports, 1) \cup [1..2 -> {e \in Exports: ~e.test_only /\ e.state = "complete"}]
Packages == {K!pack(<<e>>): e \in Exports} \ {None}
Damaged(p) ==
  UNION {{SubSeq(p, 1, i - 1) \o SubSeq(p, i + 1, Len(p)), Append(p, p[i]),
          [p EXCEPT ![i].name = <<"runs", "0", "other">>], [p EXCEPT ![i].name = <<"runs", "1", "result.json">>]}:
            i \in DOMAIN p}
  \cup {[p EXCEPT ![i].data = Bytes("other")]: i \in 1..(Len(p) - 1)}
  \cup {Append(p, [name |-> <<"runs", "0", "other">>, data |-> Bytes("one")])}
Damage ==
  /\ focus = "damage" /\ subject.edits < 2
  /\ \E p \in Damaged(subject.members): subject' = [subject EXCEPT !.members = p, !.edits = @ + 1]

\* ---- The native checkers' reports, stopped at every line.
B == INSTANCE NativeReports
Checks == [pvs |-> {"drc", "lvs", "rc"}, calibre |-> {"drc", "lvs", "rc"}, assura |-> {"drc", "lvs", "rc"},
           icv |-> {"drc", "lvs", "rc"}, quantus |-> {"rc"}, starrc |-> {"rc"}, virtuoso |-> {"artifact"},
           customcompiler |-> {"artifact"}]
SizeLimits == [hard |-> {[id |-> "size", layers |-> {"m1"}, width |-> 3, height |-> 1]},
               quality |-> {[id |-> "area", layers |-> {"m1"}]}]
Element(k, v) == [kind |-> k, value |-> v]
StarNetlists == {<<Element("m", 1), Element("r", 1), Element("c", 1)>>, <<Element("r", 1), Element("c", 1)>>,
                 <<Element("m", None), Element("r", 0), Element("c", 1)>>}
Truths(tool, check) ==
  {"clean", "dirty", "idle"}
  \cup (IF <<tool, check>> = <<"pvs", "drc">> THEN {} ELSE {"other"})
  \cup (IF check \in {"lvs", "rc"} /\ tool \notin {"icv", "assura"} THEN {"boxed"} ELSE {})
  \cup (IF tool \in {"calibre", "virtuoso", "customcompiler"} THEN {"broken"} ELSE {})
Unended == [lines |-> << >>, code |-> -9, killed |-> FALSE, netlist |-> "bound", exit |-> None, cards |-> << >>, tops |-> <<"top">>]
Extractions(tool, check) ==
  CASE check # "rc" -> {Unended}
    [] tool = "icv" -> {[Unended EXCEPT !.cards = c]: c \in StarNetlists}
    [] OTHER -> {[Unended EXCEPT !.netlist = n]: n \in {"bound", "rejected", "invalid"}}
ReportSubjects ==
  UNION {UNION {[tool: {t}, check: {c}, truth: Truths(t, c), run: Extractions(t, c)]: c \in Checks[t]}: t \in DOMAIN Checks}
ToolWrites ==
  LET s == subject
      all == B!Writes(s.tool, s.check, s.truth, "top")
      n == Len(s.run.lines)
      exits(c) == {None, [returncode |-> c, command |-> c, seen |-> TRUE, exceeded |-> c = 124]}
  IN /\ focus = "report" /\ s.run.code = -9
     /\ \/ n < Len(all) /\ subject' = [s EXCEPT !.run.lines = Append(@, all[n + 1])]
        \/ \E c \in {0, 1, 4, 124}, k \in BOOLEAN: \E e \in exits(c):
             subject' = [s EXCEPT !.run.code = c, !.run.killed = k, !.run.exit = e]
WaitSubjects ==
  {[happens |-> << >>, run |-> [Unended EXCEPT !.lines = B!Writes("quantus", "rc", t, "top"), !.code = 0]]: t \in {"clean", "dirty"}}
Happens ==
  /\ focus = "wait" /\ Len(subject.happens) < 4
  /\ \E e \in [what: {"end"}, pid: 1..3, code: {0, 1}] \cup [what: {"log", "tick"}]:
       subject' = [subject EXCEPT !.happens = Append(@, e)]

\* ---- The open checkers: rules and waivers, two comparisons, an extraction.
O == INSTANCE OpenChecks
Named(w, u) == [word |-> w, upper |-> u]
CellOf(subcells, area) == [calls |-> subcells, area |-> area]
GoodLayout == [size |-> 1, readable |-> TRUE, dbu |-> 1, cells |-> [top |-> CellOf({"sub"}, 0), sub |-> CellOf({}, 1)]]
BadLayouts == {[GoodLayout EXCEPT !.size = 9]}
              \cup {[GoodLayout EXCEPT !.cells["sub"] = c]: c \in {CellOf({"ghost"}, 1), CellOf({}, 0), CellOf({"top"}, 1)}}
Marker(c, v) == [category |-> c, cell |-> "top", values |-> v]
RuleMarkers == {Marker(c, v): c \in {"width", "space"}, v \in {<<"m">>, <<"m", "n">>}} \cup {Marker("width", <<"n">>)}
Waiver(c, ms) == [category |-> c, cell |-> "top", markers |-> ms]
Waivers == {<< >>, <<Waiver("width", <<"m">>)>>, <<Waiver("width", <<"m", "n">>), Waiver("space", <<"m">>)>>,
            <<Waiver("width", <<"m">>), Waiver("width", <<"m">>)>>, <<Waiver("width", << >>)>>}
Deck(code, complete, top, categories) ==
  [code |-> code, complete |-> complete, required |-> {"width"},
   report |-> [top |-> top, categories |-> categories, items |-> << >>]]
GoodDeck == Deck(0, TRUE, "top", {"width", "space"})
Decks == {GoodDeck, Deck(1, TRUE, "top", {"width"}), Deck(0, FALSE, "top", {"width"}), Deck(0, TRUE, "sub", {"width"}),
          Deck(0, TRUE, "top", {"space"})}
DrcSubjects ==
  [layout: {GoodLayout}, waivers: Waivers, decks: Upto(Decks, 2) \ {<< >>}, items: {0}]
  \cup [layout: BadLayouts, waivers: Waivers, decks: {<<GoodDeck>>}, items: {0}]
Reports ==
  LET whole == \A i \in DOMAIN subject.decks: [subject.decks[i] EXCEPT !.report.items = << >>] = GoodDeck IN
  /\ focus = "drc" /\ subject.layout = GoodLayout /\ subject.items < IF whole THEN 3 ELSE 1
  /\ \E d \in DOMAIN subject.decks, m \in RuleMarkers:
       subject' = [subject EXCEPT !.decks[d].report.items = Append(@, m), !.items = @ + 1]
LvsSubjects ==
  [ignore: BOOLEAN, layout: [compared: BOOLEAN, cells: {<< >>}, labels: {<< >>}],
   source: {[SUB |-> [devices |-> d, pins |-> <<Named("A", TRUE), Named("B", TRUE)>>]]: d \in {0, 1}}
           \cup {[CELL |-> [devices |-> 1, pins |-> << >>]]}]
ComparedCells ==
  [name: {Named(n, FALSE): n \in {"TOP", "CELL"}}, of: {Named(o, TRUE): o \in {"SUB", "CELL"}}, alike: BOOLEAN, devices: {0, 2}]
PortLabels == {None, Named("A", FALSE), Named("A", TRUE), Named("B", TRUE)} \X {None, Named("A", TRUE), Named("B", TRUE)}
Compares ==
  LET l == subject.layout IN
  /\ focus = "lvs"
  /\ \/ /\ Len(l.cells) < 2 /\ l.labels = << >>
        /\ \E c \in ComparedCells:
             /\ \A i \in DOMAIN l.cells: l.cells[i].name # c.name /\ l.cells[i].of # c.of
             /\ subject' = [subject EXCEPT !.layout.cells = Append(@, c)]
     \/ /\ Len(l.labels) < 2 /\ Len(l.cells) = 1 /\ l.compared
        /\ \E p \in PortLabels:
             /\ \A i \in DOMAIN l.labels: l.labels[i][2] # p[2]
             /\ subject' = [subject EXCEPT !.layout.labels = Append(@, p)]
CellRecord(class, name, nets, devices, bad, pins) ==
  [class |-> class, name |-> name, nets |-> nets, devices |-> devices, bad |-> bad, pins |-> pins, malformed |-> FALSE]
PinPair(a, b) == <<<<Named(a, TRUE)>>, <<Named(b, FALSE)>>>>
CellRecords ==
  {CellRecord(TRUE, None, None, None, FALSE, p): p \in {PinPair("A", "A"), PinPair("A", "B"), <<<<Named("A", TRUE)>>, <<Named("A", TRUE)>>>>}}
  \cup {CellRecord(FALSE, <<n, "sub">>, nets, d, FALSE, p):
          n \in {"top", "cell"}, nets \in {<<1, 1>>, <<1, 2>>}, d \in {<<1, 1>>, <<0, 0>>},
          p \in {None, PinPair("A", "A"), PinPair("A", "B")}}
  \cup {CellRecord(FALSE, <<n, "sub">>, <<1, 1>>, <<1, 1>>, TRUE, p): n \in {"top", "cell"}, p \in {None, PinPair("A", "A")}}
  \cup {[CellRecord(FALSE, <<"cell", "sub">>, None, None, FALSE, None) EXCEPT !.malformed = TRUE]}
Compared ==
  /\ focus = "netgen" /\ Len(subject) < 3
  /\ \E r \in CellRecords: subject' = Append(subject, r)
MagicRuns(records) ==
  LET good == [code |-> 0, diagnosed |-> FALSE, complete |-> TRUE, count |-> 0, devices |-> 1,
               netgen |-> [code |-> 0, complete |-> TRUE, records |-> records]]
  IN {good, [good EXCEPT !.code = 2], [good EXCEPT !.diagnosed = TRUE], [good EXCEPT !.complete = FALSE],
      [good EXCEPT !.count = -1], [good EXCEPT !.count = 1], [good EXCEPT !.devices = 0],
      [good EXCEPT !.netgen.code = 2], [good EXCEPT !.netgen.complete = FALSE]}
SpiceDevice(kind, name, model, nodes) == [kind |-> kind, name |-> name, model |-> model, nodes |-> nodes]
Nmos(i) == SpiceDevice("x", i, "nmos", <<"a", "vss">>)
Circuits ==
  [ports: {<<"a", "vss">>}, nets: {{"a", "vss"}, {"a", "vss", "plane"}},
   devices: {<<Nmos("1")>>, <<Nmos("1"), Nmos("2")>>, << >>, <<SpiceDevice("x", "1", "odd", <<"a">>)>>}]
Process == [plane |-> "plane", devices |-> [nmos |-> 2]]
KpexSubjects ==
  LET database(l, t, c) == [layout |-> l, top |-> t, circuit |-> c] IN
  {[database |-> database(l, t, c), binding |-> O!Binding(d, database(d, "top", c), "top"),
    native |-> [compared |-> same, ports |-> ports, cards |-> << >>]]:
     c \in Circuits, l \in {"g1", "g2"}, t \in {"top", "sub"}, d \in {"g1", "g2"}, same \in BOOLEAN,
     ports \in {<<"a", "vss">>, <<"vss", "a">>, <<"a", "plane">>, <<"a", "vss", "plane">>, <<"a", "b">>}}
KpexCards == {Nmos("1"), Nmos("2"), SpiceDevice("c", "3", None, <<"a", "plane">>), SpiceDevice("l", "3", None, <<"a", "plane">>),
              SpiceDevice("x", "1", "nmos", <<"a">>)}
Extracts ==
  /\ focus = "kpex" /\ Len(subject.native.cards) < 3 /\ subject.native.compared
  /\ subject.database = subject.binding.database
  /\ \E c \in KpexCards: subject' = [subject EXCEPT !.native.cards = Append(@, c)]

\* ---- A layout's stream, and its shapes on a small grid.
L == INSTANCE LayoutGeometry
GdsRecord(kind, value) == [kind |-> kind, value |-> value, fits |-> TRUE, cut |-> FALSE]
GdsRecords ==
  {GdsRecord(k, 1): k \in {"units", "text", "layer", "type", "xy", "string", "endel", "attribute", "value", "endlib"}}
  \cup {GdsRecord("name", 1), GdsRecord("call", 1), GdsRecord("call", 2),
        [GdsRecord("xy", 1) EXCEPT !.fits = FALSE], [GdsRecord("layer", 1) EXCEPT !.cut = TRUE]}
GdsText(kinds) == <<GdsRecord("units", 1), GdsRecord("name", 1)>> \o [i \in DOMAIN kinds |-> GdsRecord(kinds[i], 1)]
StreamSubjects ==
  [records: {<< >>, GdsText(<< >>), GdsText(<<"text", "layer", "type", "xy">>), GdsText(<<"text", "layer", "type", "xy", "string">>),
             GdsText(<<"text", "text", "layer", "type", "xy", "string">>)},
   tail: {"none", "zeros", "data"}, added: {0}]
ReadsOn ==
  /\ focus = "stream" /\ subject.added < 3
  /\ \E r \in GdsRecords: subject' = [subject EXCEPT !.records = Append(@, r), !.added = @ + 1]
Low == L!Box(0, 0, 4, 2)
High == L!Box(0, 2, 4, 4)
Rail(name, y, half, left) ==
  [name |-> name, layer |-> "metal", connectivity |-> "m", y |-> y, half |-> half, left |-> left, right |-> 0]
Frame(half, y, left) ==
  [id |-> "frame", type |-> "cell_frame", layers |-> {"metal"}, height |-> 4, grid |-> 2,
   rails |-> {Rail("a", 1, half, 0), Rail("b", y, half, left)}]
Ports == [id |-> "ports", type |-> "named_metal_ports", names |-> {"a", "b"}, pin |-> "pin", drawing |-> "metal",
          connectivity |-> "m", half |-> 1]
Outline(w) == [id |-> "box", type |-> "bbox_max", layers |-> {"metal"}, width |-> w, height |-> 4]
Limits == {{Frame(1, 3, 1), Ports, Outline(4)}, {Frame(1, 3, 1)}, {Frame(1, 2, 0)}, {Frame(1, 3, 4)}, {Frame(2, 3, 1)},
           {Outline(4)}, {Outline(3), Ports}, {}}
Areas == {[id |-> "area", from |-> "box", layers |-> {}], [id |-> "area", from |-> None, layers |-> {"pin"}],
          [id |-> "area", from |-> "frame", layers |-> {}]}
GeometrySubjects ==
  {[constraints |-> [hard |-> h, quality |-> q],
    layout |-> [artifact |-> TRUE, compared |-> c[1], matched |-> c[2], labels |-> << >>, pins |-> pins,
                layers |-> [metal |-> m, pin |-> {}], nets |-> [m |-> [low |-> Low \cap m, high |-> High \cap m]]]]:
     h \in Limits, q \in SUBSET Areas, c \in {<<TRUE, TRUE>>, <<TRUE, FALSE>>, <<FALSE, FALSE>>},
     pins \in {[a |-> "low", b |-> "high"], [a |-> "low", b |-> None], [a |-> "low"], [a |-> "low", b |-> "low"]},
     m \in {Low \cup High, Low, Low \cup High \cup L!Box(4, 0, 5, 1), (Low \cup High) \ {<<0, 3>>}, {}, High \cup L!Box(0, 1, 4, 2)}}
Draws ==
  LET layout == subject.layout IN
  /\ focus = "geometry"
  /\ \/ /\ layout.layers.pin = {}
        /\ subject' = [subject EXCEPT !.layout.layers.pin = layout.layers.metal \ {<<3, 0>>}]
     \/ /\ Ports \in subject.constraints.hard /\ Len(layout.labels) < 3
        /\ layout.matched /\ subject.constraints.quality = {}
        /\ \E t \in {"a", "b"}, x \in {1, 3}, y \in {1, 3}:
             subject' = [subject EXCEPT !.layout.labels = Append(@, [text |-> t, at |-> <<x, y>>])]

\* ---- Simulators: their logs, the rewritten resistors, samples, calibrations.
R == INSTANCE SimulatorResults
LogLine(kind, name, value) == [kind |-> kind, name |-> name, value |-> value]
LogLines ==
  {LogLine(k, n, None): k \in {"event", "failed", "value"}, n \in {"x", "y"}}
  \cup {LogLine("value", n, 1): n \in {"x", "y"}} \cup {LogLine("error", None, None)}
LogSubjects ==
  {[requested |-> q, run |-> [code |-> 0, crashed |-> FALSE, concluded |-> TRUE, rows |-> r, log |-> << >>]]:
     q \in {{"x"}, {"x", "y"}}, r \in {0, 1}}
Logs ==
  /\ focus = "log"
  /\ Len(subject.run.log) < IF subject.requested = {"x", "y"} /\ subject.run.rows = 1 THEN 4 ELSE 3
  /\ \E l \in LogLines: subject' = [subject EXCEPT !.run.log = Append(@, l)]
Ends == <<<<"n", "a">>, <<"n", "b">>>>
SpiceCard(kind, name, nodes, constant) ==
  [kind |-> kind, name |-> name, constant |-> constant, words |-> <<<<kind, name>>>> \o nodes]
SpiceCards ==
  {SpiceCard("r", "1", Ends, b): b \in BOOLEAN} \cup {SpiceCard("r", "2", Ends, TRUE), SpiceCard("c", "1", Ends, TRUE),
   SpiceCard("v", "1", Ends, TRUE), SpiceCard("h", "2", Ends, TRUE), SpiceCard("+", "tc", << >>, TRUE),
   SpiceCard("c", "2", <<<<"node", "2">>, <<"n", "a">>>>, TRUE), SpiceCard("comment", "", << >>, TRUE)}
Wires ==
  /\ focus = "cards" /\ Len(subject) < 4
  /\ \E c \in SpiceCards: subject' = Append(subject, c)
Sample(n, v) ==
  IF v = "nan" THEN LogLine("other", n, None)
  ELSE LogLine("sample", n, IF v = "overflow" THEN None ELSE IF v = "0" THEN 0 ELSE 1)
Points ==
  {<<Sample("time", t), Sample("a", a), Sample("b", b)>>: t \in {"1", "nan"}, a \in {"0", "1", "nan"}, b \in {"0", "1", "overflow"}}
PsfSubjects ==
  {[requested |-> q, run |-> [code |-> 0, complete |-> TRUE, lines |-> << >>]]:
     q \in {[m |-> "V"], [m |-> "V", n |-> "V"], [m |-> "A"]}}
Samples ==
  LET lines == subject.run.lines IN
  /\ focus = "psf" /\ Len(lines) < IF subject.requested = [m |-> "A"] THEN 5 ELSE 8
  /\ lines # << >> => LastOf(lines).kind # "END"
  /\ \E more \in {<<LogLine("VALUE", None, None)>>, <<LogLine("END", None, None)>>} \cup Points:
       subject' = [subject EXCEPT !.run.lines = @ \o more]
Candidates(list) == [i \in DOMAIN list |-> [id |-> list[i][1], parameters |-> [p \in {list[i][2]} |-> list[i][1]]]]
CalibrationSubjects ==
  {[candidates |-> Candidates(c),
    results |-> [i \in 1..3 |-> [status |-> IF i = failed THEN "failed" ELSE "passed", values |-> [m |-> v[i]]]]]:
     c \in {<<<<1, "p">>, <<2, "p">>, <<3, "p">>>>, <<<<3, "p">>, <<1, "p">>>>, <<<<2, "p">>>>, << >>,
            <<<<1, "p">>, <<1, "p">>>>, <<<<1, "p">>, <<2, "q">>>>},
     v \in [1..3 -> 0..3], failed \in {1, 2, 4}}
Options == [threads: 1..2, preset: {None, "ax"}, postlayout: {None, "cx"}, override: {{}, {"reltol"}}]
CommandSubjects == [one: Options, other: Options]

\* ---- A trace of up to six samples, measured in every way; and a converter's.
V == INSTANCE Waveforms WITH Scale <- 12
Signals == [up |-> [terms |-> [a |-> 1], offset |-> 0], down |-> [terms |-> [a |-> -1], offset |-> 0]]
Measures ==
  LET m(op, x, end) == [operation |-> op, trace |-> "up", threshold |-> x, start |-> 0, stop |-> end, min |-> 1,
                         most |-> TRUE, pair |-> <<1, 1>>]
  IN [mean |-> m("mean", 0, 24), count |-> m("count", 1, 24), delay |-> m("delay", 1, 24), frequency |-> m("frequency", 0, 48),
      duty |-> m("duty_cycle", 1, 60), extrema |-> m("extrema", 1, 48), phase |-> m("phase", 1, 48)]
Short == [m \in {"mean", "delay"} |-> Measures[m]]
Sampled ==
  /\ focus = "wave" /\ Len(subject) < 6
  /\ Len(subject) = 5 => subject[1] < 1 /\ subject[5] < 1
  /\ \E v \in IF Len(subject) = 5 THEN {2} ELSE -1..2: subject' = Append(subject, v)
WaveHolds ==
  LET n == Len(subject)
      end == 12 * (n - 1)
      s == [time |-> [i \in 1..n |-> 12 * (i - 1)], a |-> subject]
      w == [time |-> s.time, traces |-> [t \in DOMAIN Signals |-> V!Affine(s, Signals[t])]]
      gain == [i \in 1..n |-> IF subject[i] = -1 THEN None ELSE subject[i]]
      edges(d, t) == V!crossings(w, [trace |-> "up", direction |-> d, threshold |-> t], 0, end)
      alone(m) == V!MeasuredAlone(s, [traces |-> Signals, max_step |-> 12, measures |-> m])
  IN n >= 3 =>
     /\ \A t \in {0, 1}, middle \in {6, 12, 18, 36, 44}, start \in {0, 6}:
          start < middle /\ middle < end => V!WindowsAdd(w, "up", "down", t, start, middle, end)
     /\ \A t \in {0, 1}, start \in {0, 18}: start < end => V!CyclesSound(w, "up", t, start, end, 1)
     /\ \A e \in {<<"rise", 0>>, <<"fall", 1>>}: V!PhasesMirror(edges(e[1], e[2]), edges("rise", 1))
     /\ \A m \in {Measures, Short}: alone(m)
     /\ \A tolerance \in {3, 12}, start \in {24, 30}:
          start < end => V!SettledAfter(w, [trace |-> "up", trigger |-> "up", threshold |-> 1, edge |-> 1, start |-> start,
                                            stop |-> end, tolerance |-> tolerance, max_step |-> 12])
     /\ \A start \in {0, 6}, reference \in {0, 12}:
          start < end => V!TransferSound(s.time, gain, [operation |-> "x", max_step |-> 12, start |-> start, stop |-> end,
                                                        reference |-> reference, relative |-> -1])
Bits(k) == [i \in 1..2 |-> IF (k \div 2^(i - 1)) % 2 = 1 THEN "high" ELSE "low"]
AdcSamples ==
  LET s(settled, bits) == [settled |-> settled, level |-> 1, bits |-> bits] IN
  {s(TRUE, Bits(k)): k \in 0..3} \cup {s(FALSE, Bits(1)), s(TRUE, <<"high", "unstable">>)}
AdcSubjects == [encoding: {"unsigned", "twos_complement"}, samples: {<< >>}]
Converts ==
  LET taken == subject.samples IN
  /\ focus = "adc" /\ Len(taken) < 4
  /\ \A i \in DOMAIN taken: taken[i].settled /\ taken[i].bits[2] # "unstable"
  /\ \E s \in AdcSamples, d \in {1, 2} \cup (IF Len(taken) = 1 THEN {0} ELSE {}):
       subject' = [subject EXCEPT !.samples = Append(@, [s EXCEPT !.level = d + IF taken = << >> THEN 0 ELSE LastOf(taken).level])]
AdcHolds ==
  V!TransferAdds(subject.samples, IF subject.encoding = "unsigned" THEN <<0, 1, 2>> ELSE <<-1, 0, 1>>,
                 [encoding |-> subject.encoding, low |-> 1, high |-> 7])

\* ---- An extracted netlist, line by line.
X == INSTANCE ExtractedNetlists WITH Wrapped <- {<<"nmos", None>>}
NetLine(kind, words) == [kind |-> kind, words |-> words]
PortA == <<"a", None>>
PortB == <<"b", None>>
Sized(l) == <<<<"l", l>>, <<"w", 1>>>>
NetCard(kind, n, more) == NetLine("card", <<<<kind, None>>>> \o [i \in 1..n |-> <<"net", None>>] \o more)
Parasitics == <<NetCard("c", 2, << >>), NetCard("r", 2, <<<<"number", 1>>>>)>>
NetLines ==
  {NetLine("blank", << >>), NetLine("comment", <<<<"*", None>>>>)}
  \cup {NetLine("+", w): w \in {<<PortB>>, Sized(1), Sized(0), <<<<"l", None>>>>}}
  \cup {NetLine("card", X!Header("top", p)): p \in {<<PortB, PortA>>, <<PortA>>}}
  \cup {NetCard("m", 4, <<<<"nmos", None>>>>), NetCard("x", 4, <<<<"nmos", None>>>> \o Sized(1))}
NetOdd ==
  {NetCard("r", 2, w): w \in {<<<<"number", -1>>>>, <<<<"number", 1>>, <<"segl", 1>>>>, <<<<"rpoly", None>>>> \o Sized(1)}}
  \cup {NetCard("q", 3, <<<<"npn", None>>, <<"area", 0>>>>), NetCard("x", 3, << >>)}
NetSubjects == {Parasitics, Parasitics \o <<NetLine("card", X!Header("top", <<PortA>>))>>}
Nets ==
  /\ focus = "netlist" /\ Len(subject) < 6
  /\ \E l \in NetLines \cup (IF Len(subject) = 5 THEN NetOdd ELSE {}): subject' = Append(subject, l)

\* ---- Published cases and the tasks they declare.
I == INSTANCE TaskDatasets WITH parse_evaluation <-
       [plan |-> [external |-> {<<"candidate">>, <<"input", "netlist">>, <<"input", "limits">>, <<"input", "constraints">>},
                  frozen |-> [netlist |-> "net"]],
        bare |-> [external |-> {<<"candidate">>, <<"input", "evaluation">>}, frozen |-> << >>]]
CaseFile(id, order) == [id |-> id, in_core |-> TRUE, order |-> order, eligible |-> TRUE, version |-> 1]
PathA == <<"sky", "ota", <<"a">>>>
PathB == <<"sky", "ota", <<"b">>>>
PathC == <<"ihp", "ota", <<"a">>>>
IdA == <<"sky", "a">>
IdB == <<"sky", "b">>
IdC == <<"ihp", "a">>
RowFor(d, p) ==
  [id |-> d.cases[p].id, path |-> p, in_core |-> d.cases[p].in_core, order |-> d.cases[p].order,
   version |-> d.cases[p].version, pdk |-> Head(p), pdkVersion |-> d.pdks[Head(p)]]
CaseFiles(a, b) ==
  [pdks |-> [sky |-> 1, ihp |-> 1],
   cases |-> PathA :> CaseFile(IdA, a) @@ PathB :> CaseFile(IdB, b)
             @@ PathC :> [CaseFile(IdC, None) EXCEPT !.in_core = FALSE, !.eligible = FALSE]]
IndexOf(d, paths) == [i \in DOMAIN paths |-> RowFor(d, paths[i])]
DatasetSubjects ==
  {[data |-> d, index |-> IndexOf(d, ps), edits |-> 0]:
     d \in {CaseFiles(a, b): a \in {None, 1, 2}, b \in {None, 1}},
     ps \in {<<PathA, PathB, PathC>>, <<PathC, PathB, PathA>>, <<PathB, PathA>>, <<PathA, PathA>>}}
RowEdits(index) ==
  UNION {{[index EXCEPT ![i].in_core = (@ # TRUE)], [index EXCEPT ![i].order = 3], [index EXCEPT ![i].order = None],
          [index EXCEPT ![i].version = 2], [index EXCEPT ![i].pdkVersion = 2], [index EXCEPT ![i].path = PathB],
          [index EXCEPT ![i].id = IdB]}: i \in DOMAIN index}
FileEdits(d) ==
  {[d EXCEPT !.cases[p].version = 2]: p \in DOMAIN d.cases}
  \cup {[d EXCEPT !.cases[p].order = 3]: p \in DOMAIN d.cases} \cup {[d EXCEPT !.pdks["sky"] = 2]}
  \cup {[d EXCEPT !.cases[p].in_core = c]: p \in DOMAIN d.cases, c \in {None, TRUE, FALSE}}
Publishes ==
  /\ focus = "dataset" /\ subject.edits < 2
  /\ \/ \E i \in RowEdits(subject.index): subject' = [subject EXCEPT !.index = i, !.edits = @ + 1]
     \/ \E d \in FileEdits(subject.data): subject' = [subject EXCEPT !.data = d, !.edits = @ + 1]
     \* and the index is written anew
     \/ \E d \in FileEdits(subject.data):
          subject' = [data |-> d, index |-> [i \in DOMAIN subject.index |-> RowFor(d, subject.index[i].path)],
                      edits |-> subject.edits + 1]
TaskDecl(f) ==
  LET entry(p, src, sha) == [path |-> p, source |-> src, sha |-> sha, derived |-> {}]
      given(b, r, e) == IF b THEN [x \in {r} |-> e] ELSE << >>
  IN [inputs |-> given(TRUE, "netlist", entry(<<"a">>, f.source, "net")) @@ given(TRUE, "description", entry(f.at, "d", "doc"))
                 @@ given(f.evaluation = "file", "evaluation", entry(<<"e">>, "e", "plan"))
                 @@ given(f.inline = FALSE, "constraints", entry(<<"c">>, "c", "spec")),
      private |-> given(f.limits # "none", "limits",
                        [entry(IF f.limits = "inside" THEN <<"a", "l">> ELSE <<"l">>, f.private, "lim")
                           EXCEPT !.derived = IF f.limits = "derived" THEN {"netlist"} ELSE {}]),
      evaluation |-> CASE f.evaluation = "inline" -> "plan" [] f.evaluation = "bare" -> "bare" [] OTHER -> None,
      constraints |-> IF f.inline THEN f.rule ELSE None, output |-> "out"]
TaskFiles == [n |-> "net", n2 |-> "net", n3 |-> "doc", d |-> "doc", e |-> "plan", c |-> "spec", l |-> "lim", l2 |-> "lim2"]
TaskFeatures ==
  [source |-> {"n", "n2", "n3"}, at |-> {<<"d">>, <<"a">>, <<"a", "d">>, <<"d", "a">>}, evaluation |-> {"none", "file", "inline", "bare"},
   inline |-> BOOLEAN, rule |-> {"spec", "spec2"}, limits |-> {"none", "plain", "derived", "inside"}, private |-> {"l", "l2"}]
TaskOf(s, a, e, i, l) ==
  [source |-> s, at |-> a, evaluation |-> e, inline |-> i, rule |-> "spec", limits |-> l, private |-> "l"]
TaskSubjects ==
  {[one |-> f, other |-> f, edits |-> 0]:
     f \in {TaskOf(s, <<"d">>, e, i, l): s \in {"n", "n3"}, e \in {"none", "file", "inline", "bare"}, i \in BOOLEAN,
            l \in {"none", "plain", "derived"}}}
  \cup {[one |-> f, other |-> f, edits |-> 2]:
     f \in {TaskOf("n", a, e, TRUE, l): a \in TaskFeatures.at, e \in {"none", "file"}, l \in TaskFeatures.limits}}
Redeclares ==
  /\ focus = "task" /\ subject.edits < 2
  /\ \E k \in DOMAIN TaskFeatures: \E v \in TaskFeatures[k]:
       subject' = [subject EXCEPT !.other[k] = v, !.edits = @ + 1]

\* ---- What a batch runs.
J == INSTANCE BatchPlans
NamedCases == {IdA, IdB, IdC, <<"a">>}
ChoiceSubjects ==
  [tasks: {<<IdA, IdB>>, <<IdC, IdB, IdA>>, <<<<"a">>, IdA, IdB>>}, names: Upto(NamedCases \cup {<<"b">>}, 3) \ {<< >>}]
ConfigSubjects ==
  Upto([stem: {"m", "n"}, efforts: {<<"low">>, <<"high", "low">>, <<"low", "low">>}, tasks: {<<"low">>, <<"t", "low">>}], 2) \ {<< >>}
ReuseSubjects ==
  [directories: SUBSET {<<"t", 0>>, <<"t", 1>>, <<"t", 2>>, <<"u", 3>>},
   records: Upto([task: {"t", "u"}, dir: {<<"t", 1>>, <<"t", 2>>, <<"t", 0>>, <<"u", 3>>, <<"t", 1, 1>>}], 2)]
LocalAndHub(d, ps) ==
  [here |-> [data |-> d, index |-> IndexOf(d, ps), commit |-> None, local |-> TRUE],
   hub |-> [data |-> CaseFiles(1, 2), index |-> IndexOf(CaseFiles(1, 2), ps), commit |-> 1, local |-> FALSE]]
Chosen(src, spec, tasks) == [source |-> src, spec |-> spec, tasks |-> tasks, offline |-> FALSE]
ChosenCases ==
  {Chosen("here", s, None): s \in {"core", "all"}} \cup {Chosen("here", s, <<IdA>>): s \in {"core", None}}
  \cup {Chosen("here", None, t): t \in {<<<<"b">>>>, <<<<"a">>>>, <<IdB, IdC>>}}
  \cup {Chosen("hub", "core", None), Chosen("hub", None, <<IdC>>)}
PrepareSubjects ==
  {[conditions |-> c, planned |-> s, current |-> s, edits |-> 0]:
     c \in Upto(ChosenCases, 2) \ {<< >>},
     s \in {LocalAndHub(CaseFiles(a, b), <<PathC, PathA, PathB>>): a \in {None, 2}, b \in {None, 1}}}
Changes ==
  /\ focus = "prepare" /\ subject.edits + Len(subject.conditions) < 3
  /\ \E d \in FileEdits(subject.current.here.data), i \in BOOLEAN:
       subject' = [subject EXCEPT !.current.here.data = d, !.edits = @ + 1,
                                  !.current.here.index = IF i THEN [n \in DOMAIN @ |-> RowFor(d, @[n].path)] ELSE @]

-----------------------------------------------------------------------------
SubjectInit ==
  \/ focus = "wire" /\ subject \in WireSubjects
  \/ focus = "quality" /\ subject \in QualitySubjects
  \/ focus = "harness" /\ subject \in HarnessSubjects
  \/ focus = "spent" /\ subject \in SpentSubjects
  \/ focus = "record" /\ subject \in RecordSubjects
  \/ focus = "attempts" /\ subject \in AttemptsSubjects
  \/ focus = "frozen" /\ subject \in FrozenSubjects
  \/ focus = "export" /\ subject \in ExportSubjects
  \/ focus = "pack" /\ subject \in ExportLists
  \/ focus = "damage" /\ subject \in {[package |-> p, members |-> p, edits |-> 0]: p \in Packages}
  \/ focus = "report" /\ subject \in ReportSubjects
  \/ focus = "wait" /\ subject \in WaitSubjects
  \/ focus = "drc" /\ subject \in DrcSubjects
  \/ focus = "lvs" /\ subject \in LvsSubjects
  \/ focus = "kpex" /\ subject \in KpexSubjects
  \/ focus = "stream" /\ subject \in StreamSubjects
  \/ focus = "geometry" /\ subject \in GeometrySubjects
  \/ focus = "log" /\ subject \in LogSubjects
  \/ focus = "psf" /\ subject \in PsfSubjects
  \/ focus = "calibration" /\ subject \in CalibrationSubjects
  \/ focus = "command" /\ subject \in CommandSubjects
  \/ focus = "adc" /\ subject \in AdcSubjects
  \/ focus = "netlist" /\ subject \in NetSubjects
  \/ focus = "dataset" /\ subject \in DatasetSubjects
  \/ focus = "task" /\ subject \in TaskSubjects
  \/ focus = "choice" /\ subject \in ChoiceSubjects
  \/ focus = "configs" /\ subject \in ConfigSubjects
  \/ focus = "reuse" /\ subject \in {s \in ReuseSubjects: \A r \in {s.records[i]: i \in DOMAIN s.records}: SubSeq(r.dir, 1, 2) \in s.directories}
  \/ focus = "prepare" /\ subject \in PrepareSubjects
  \/ focus \in {"netgen", "cards", "wave"} /\ subject = << >>
Foci == {"wire", "quality", "harness", "spent", "record", "attempts", "frozen", "export", "pack", "damage", "report", "wait",
         "drc", "lvs", "kpex", "stream", "geometry", "log", "psf", "calibration", "command", "adc", "netlist", "netgen",
         "cards", "wave", "dataset", "task", "choice", "configs", "reuse", "prepare"}
SubjectNext ==
  /\ UNCHANGED focus
  /\ \/ Hears \/ Exchange \/ Damage \/ ToolWrites \/ Happens \/ Reports \/ Compares \/ Compared \/ Extracts
     \/ ReadsOn \/ Draws \/ Logs \/ Wires \/ Samples \/ Sampled \/ Converts \/ Nets
     \/ Publishes \/ Redeclares \/ Changes

\* What an adapter reports of its CLI is what happened: no error is passed over
\* or retried without a reason, and each call's tokens are counted once.
AdaptersHold ==
  CASE focus = "harness" -> H!HarnessHonest(subject)
    [] focus = "spent" -> U!SpentOnce(subject.calls, subject.again, subject.broken, subject.open)
    [] focus = "record" -> U!RecordHonest(subject.reported, subject.cost, subject.pricing)
    [] focus = "attempts" -> U!AttemptsAddUp(subject.one, subject.two, subject.pricing)
    [] OTHER -> TRUE
\* A report that is accepted is the one of its run, and its evidence arrives
\* where it is sent.
EvidenceBound ==
  CASE focus = "frozen" -> RunHolds
    [] focus = "export" ->
         K!ExportFaithful(subject.tree, [score |-> 1, recomputed |-> subject.recomputed, plan |-> "plan", inputs |-> <<"i">>,
                                         omitted |-> subject.omitted, refs |-> subject.refs], subject.archive, subject.process)
    [] focus = "pack" -> K!Arrives(subject)
    [] focus = "damage" -> K!DamageNoticed(subject.package, subject.members)
    [] OTHER -> TRUE
\* A layout passes or fails a check only by what its tool concluded of it.
ChecksConclude ==
  CASE focus = "report" -> B!Conclusive(subject.tool, subject.check, subject.truth, subject.run, "top", SizeLimits)
    [] focus = "wait" -> B!Waited(1..3, subject.happens, subject.run, "top")
    [] focus = "drc" -> O!WaiversLocal(subject.layout, subject.decks, subject.waivers, "top", 3)
    [] focus = "lvs" -> O!ComparisonHonest(subject.layout, subject.source, Named("TOP", TRUE), Named("SUB", TRUE), subject.ignore)
    [] focus = "netgen" -> O!NetgenConclusive(subject, "top", "sub") /\ \A r \in MagicRuns(subject): O!MagicConclusive(r, "top", "sub")
    [] focus = "kpex" -> O!ExtractionBound("g1", subject.database, subject.binding, "top", <<"a", "vss">>, "vss", Process, subject.native)
    [] focus = "stream" -> L!StreamWhole(subject.records, subject.tail)
    [] focus = "geometry" -> L!GeometryHonest(subject.layout, subject.constraints)
    [] focus = "netlist" -> \A j \in {{}, {"as"}}: X!NetlistKept(subject, "top", <<PortA, PortB>>, j) /\ X!CardsWhole(subject)
    [] OTHER -> TRUE
\* A candidate is measured on whole samples only, and by what they say.
MeasurementsSound ==
  CASE focus = "log" -> R!LogConclusive(subject.run, subject.requested)
    [] focus = "cards" -> R!BranchesApart(subject)
    [] focus = "psf" -> R!SamplesWhole(subject.run, subject.requested, [m |-> "V", n |-> "V"], [m |-> "a", n |-> "b"])
    [] focus = "calibration" ->
         R!CalibrationNearest(subject.candidates, subject.results, [m |-> <<0, 2>>], [measurement |-> "m", value |-> 2])
    [] focus = "command" -> R!CommandsDiffer(subject.one, subject.other)
    [] focus = "wave" -> WaveHolds
    [] focus = "adc" -> AdcHolds
    [] OTHER -> TRUE
\* A batch runs the published cases it was planned with, each whole and in its
\* own place.
InputsBound ==
  CASE focus = "dataset" -> I!SelectionPublished(subject.data, subject.index)
    [] focus = "task" ->
         /\ I!LoadedWhole(TaskDecl(subject.other), TaskFiles)
         /\ I!ContractBinds(TaskDecl(subject.one), TaskFiles, TaskDecl(subject.other), TaskFiles)
    [] focus = "choice" -> J!CaseSelected(subject.tasks, subject.names)
    [] focus = "configs" -> J!ConditionsApart(subject, "now")
    [] focus = "reuse" -> J!ReuseLatest(subject.records, subject.directories, {"t", "u"}, 9)
    [] focus = "prepare" -> J!PreparedAsPlanned(subject.conditions, subject.planned, subject.current)
    [] OTHER -> TRUE
\* A torn connection is noticed whatever was said before.
TruncationNoticed == focus = "wire" => W!TruncationNoticed(subject)
QualityOrdered == focus = "quality" => Q!QualityOrdered(subject.m, subject.value, subject.other, subject.baseline)
=============================================================================
