------------------------------ MODULE OpenChecks ------------------------------
(* The verdicts of the open tools on a layout: KLayout's rule decks with their *)
(* waivers and its comparison, Magic's rules and extraction with Netgen's      *)
(* comparison, and KPEX, which extracts what a comparison has bound.           *)
EXTENDS Integers, Sequences, FiniteSets, SequencesExt, FiniteSetsExt, Bags, Functions

CONSTANT None

\* ---- The layout itself. A cell that is called and not defined is a ghost.
Called(cells, top) ==
  FoldLeft(LAMBDA S, i: S \cup UNION {cells[c].calls: c \in S \cap DOMAIN cells}, {top},
           [i \in 1..Cardinality(DOMAIN cells) |-> i])
artifact(layout, top, max) ==
  /\ layout.size <= max /\ layout.readable /\ layout.dbu > 0
  /\ top \in DOMAIN layout.cells /\ \A c \in DOMAIN layout.cells: top \notin layout.cells[c].calls
  /\ Called(layout.cells, top) \subseteq DOMAIN layout.cells
  /\ \E c \in Called(layout.cells, top): layout.cells[c].area > 0

\* ---- KLayout's rules. A waiver names a category, a cell and its markers.
Identities(waivers) ==
  FlattenSeq([i \in DOMAIN waivers |->
    [k \in DOMAIN waivers[i].markers |-> <<waivers[i].category, waivers[i].cell, waivers[i].markers[k]>>]])
validate_drc_waivers(waivers) ==
  (\A i \in DOMAIN waivers: waivers[i].markers # << >>) /\ IsInjective(Identities(waivers))
Signature(item) == <<item.category, item.cell>> \o item.values
\* Mutant: a waiver excuses its marker in every deck.
WaiveAgain(allowed, s, item) == IF Signature(item) \in allowed THEN s ELSE [s EXCEPT !.unwaived = @ + 1]
Waive(allowed, s, item) ==
  LET key == Signature(item) IN
  IF key \in allowed \ s.used THEN [s EXCEPT !.used = @ \cup {key}] ELSE [s EXCEPT !.unwaived = @ + 1]
drc(report, required, top, allowed, used) ==
  LET s == FoldLeft(LAMBDA a, i: Waive(allowed, a, i), [used |-> used, unwaived |-> 0], report.items) IN
  IF report.top # top \/ ~required \subseteq report.categories THEN [status |-> "error", used |-> used]
  ELSE [status |-> IF s.unwaived > 0 THEN "failed" ELSE "passed", used |-> s.used]
\* A deck is done when it ran to its last line and left a report.
run_deck(deck, top, allowed, used) ==
  IF deck.code # 0 \/ ~deck.complete THEN [status |-> "error", used |-> used]
  ELSE drc(deck.report, deck.required, top, allowed, used)
\* The decks share what was waived; an error of one outweighs what others found.
KLayoutDrc(layout, decks, waivers, top, max) ==
  LET allowed == ToSet(Identities(waivers))
      next(s, d) == LET r == run_deck(d, top, allowed, s.used) IN
                    [used |-> r.used, seen |-> s.seen \cup {r.status}]
      all == FoldLeft(next, [used |-> {}, seen |-> {}], decks)
  IN IF ~validate_drc_waivers(waivers) THEN "error"
     ELSE IF ~artifact(layout, top, max) THEN "failed"
     ELSE IF "error" \in all.seen THEN "error"
     ELSE IF "failed" \in all.seen THEN "failed"
     ELSE "passed"

\* ---- KLayout's comparison, of a layout that is an artifact. A name is a word
\* and its case, which SPICE ignores.
Upper(name) == IF name = None THEN None ELSE name.word
SamePorts(report, reference) ==
  /\ Len(report.ports) = Len(reference.pins)
  /\ \A i \in DOMAIN report.ports:
       /\ report.ports[i].layout # None /\ report.ports[i].reference # None
       /\ Upper(report.ports[i].layout) = Upper(report.ports[i].reference)
       /\ report.ports[i].match
KLayoutLvs(report, top, subcircuit, ignorePorts) ==
  LET wanted == Upper(subcircuit)
      target == SelectSeq(report.pairs, LAMBDA p: Upper(p.layout) = Upper(top) /\ Upper(p.reference) = wanted)
  IN IF ~report.complete \/ report.pairs = << >> THEN "error"
     ELSE IF wanted \notin DOMAIN report.references THEN "error"
     ELSE IF report.references[wanted].devices = 0 THEN "error"
     ELSE IF target = << >> \/ \E i \in DOMAIN report.pairs: ~report.pairs[i].match THEN "failed"
     ELSE IF target[1].devices = 0 THEN "failed"
     ELSE IF ~ignorePorts /\ ~SamePorts(report, report.references[wanted]) THEN "failed"
     ELSE "passed"
\* What KLayout reports of a layout's cells and labels and the source's.
KLayoutCompares(layout, source) ==
  [complete |-> layout.compared,
   pairs |-> [i \in DOMAIN layout.cells |->
     [layout |-> layout.cells[i].name, reference |-> layout.cells[i].of, match |-> layout.cells[i].alike,
      devices |-> layout.cells[i].devices]],
   references |-> source,
   ports |-> [i \in DOMAIN layout.labels |->
     [layout |-> layout.labels[i][1], reference |-> layout.labels[i][2], match |-> None \notin ToSet(layout.labels[i])]]]
\* What is handed to an extraction: the database, and what it was made from.
Binding(layout, database, top) == [candidate |-> layout, database |-> database, top |-> top]

\* ---- Netgen's comparison: one record for each pair of cells, in any order,
\* and one with only pins for classes of primitives. The first decides.
SamePins(pins) == Len(pins[1]) = Len(pins[2]) /\ \A i \in DOMAIN pins[1]: pins[1][i] # None /\ Upper(pins[1][i]) = Upper(pins[2][i])
Decides(r) ==
  IF r.malformed THEN "error"
  ELSE IF r.class THEN IF r.pins[1] = r.pins[2] THEN "none" ELSE "failed"
  ELSE IF r.bad \/ r.nets[1] # r.nets[2] \/ r.devices[1] # r.devices[2] THEN "failed"
  ELSE IF r.pins = None THEN "error"
  ELSE IF SamePins(r.pins) THEN "none" ELSE "failed"
netgen_verdict(records, top, subcircuit) ==
  LET tops == {i \in DOMAIN records: ~records[i].class /\ records[i].name = <<top, subcircuit>>}
      decided == {i \in DOMAIN records: Decides(records[i]) # "none"}
  IN IF Cardinality(tops) # 1 THEN "error"
     ELSE IF decided # {} THEN Decides(records[CHOOSE i \in decided: \A j \in decided: i <= j])
     ELSE IF \A i \in tops: \A k \in 1..2: records[i].devices[k] > 0 THEN "passed" ELSE "failed"
\* Magic reads the layout; what it says of an unknown layer or a lost node is an
\* error though it goes on.
MagicRan(run) == run.code = 0 /\ ~run.diagnosed /\ run.complete
Magic(check, run, top, subcircuit) ==
  IF ~MagicRan(run) THEN "error"
  ELSE IF check = "drc" THEN IF run.count < 0 THEN "error" ELSE IF run.count = 0 THEN "passed" ELSE "failed"
  ELSE IF run.devices = 0 THEN "failed"
  ELSE IF run.netgen.code # 0 \/ ~run.netgen.complete THEN "error"
  ELSE netgen_verdict(run.netgen.records, top, subcircuit)

\* ---- KPEX: the circuit of a bound database, its geometry extracted again and
\* compared with it, and the capacitance between its nets.
validate_binding(layout, database, binding, top) == binding = Binding(layout, database, top)
Tally(s) == [x \in ToSet(s) |-> Cardinality({i \in DOMAIN s: s[i] = x})]
Counts(cards) == Tally(SelectSeq([i \in DOMAIN cards |-> cards[i].model], LAMBDA m: m # None))
\* extract: the ideal plane under the circuit is the declared substrate port.
Renamed(process, substrate, node) == IF node = process.plane THEN substrate ELSE node
Extractable(circuit, ports, process) ==
  /\ ToSet(circuit.ports) = ports /\ process.plane \notin circuit.nets
  /\ circuit.devices # << >>
  /\ \A i \in DOMAIN circuit.devices: circuit.devices[i].model \in DOMAIN process.devices
extract(circuit, ports, substrate, process, native) ==
  LET actual == [i \in DOMAIN native.ports |-> Renamed(process, substrate, native.ports[i])]
      cards == [i \in DOMAIN native.cards |->
                 [native.cards[i] EXCEPT !.nodes = [k \in DOMAIN @ |-> Renamed(process, substrate, @[k])]]]
  IN IF Extractable(circuit, ToSet(ports), process) /\ native.compared
        /\ ToSet(actual) = ToSet(ports) /\ IsInjective(native.ports)
     THEN [ports |-> ports, cards |-> cards, counts |-> Counts(circuit.devices)] ELSE None
\* The netlist is accepted when its cards are those devices and R or C.
CardFits(card, process) ==
  IF card.model = None THEN card.kind \in {"r", "c"}
  ELSE card.model \in DOMAIN process.devices /\ Len(card.nodes) = process.devices[card.model]
Kpex(layout, database, binding, top, ports, substrate, process, native) ==
  LET out == extract(database.circuit, ports, substrate, process, native) IN
  IF /\ validate_binding(layout, database, binding, top) /\ out # None
     /\ \A i \in DOMAIN out.cards: CardFits(out.cards[i], process)
     /\ Counts(out.cards) = out.counts
     /\ IsInjective([i \in DOMAIN out.cards |-> out.cards[i].name])
  THEN [status |-> "passed", netlist |-> out] ELSE [status |-> "error", netlist |-> None]

-----------------------------------------------------------------------------
\* A waiver excuses the one marker it names and that one once, in whichever
\* deck it is found and however often the decks report it; the verdict does not
\* depend on the order of decks or markers; and a deck that did not get to the
\* end, or did not check what it must, is never made good by the others.
Found(decks) == FlattenSeq([d \in DOMAIN decks |-> [i \in DOMAIN decks[d].report.items |-> Signature(decks[d].report.items[i])]])
WaiversLocal(layout, decks, waivers, top, max) ==
  LET status == KLayoutDrc(layout, decks, waivers, top, max)
      checked == \A d \in DOMAIN decks: decks[d].code = 0 /\ decks[d].complete /\ decks[d].report.top = top
                                        /\ decks[d].required \subseteq decks[d].report.categories
      excused == Tally(Found(decks)) \sqsubseteq Tally(Identities(waivers))
      other == [d \in DOMAIN decks |-> [decks[d] EXCEPT !.report.items = Reverse(@)]]
  IN /\ status = "passed" => checked /\ excused
     /\ status = "failed" => ~artifact(layout, top, max) \/ (checked /\ ~excused)
     /\ KLayoutDrc(layout, Reverse(other), waivers, top, max) = status
\* A layout passes KLayout's comparison exactly when every cell is alike and
\* each port of the source is labelled, in whichever case, on its own conductor
\* and no other is; it fails only for a difference.
ComparisonHonest(layout, source, top, subcircuit, ignorePorts) ==
  LET status == KLayoutLvs(KLayoutCompares(layout, source), top, subcircuit, ignorePorts)
      is(c) == Upper(c.name) = Upper(top) /\ Upper(c.of) = Upper(subcircuit)
      labelled == {Upper(l[2]): l \in {m \in ToSet(layout.labels): Upper(m[1]) = Upper(m[2])}}
      ports == Len(layout.labels) = Cardinality(labelled)
               /\ labelled = {Upper(p): p \in ToSet(source[Upper(subcircuit)].pins)}
      alike == \A i \in DOMAIN layout.cells: layout.cells[i].alike
      same == alike /\ (\E i \in DOMAIN layout.cells: is(layout.cells[i]) /\ layout.cells[i].devices > 0) /\ (ignorePorts \/ ports)
      asked == Upper(subcircuit) \in DOMAIN source /\ source[Upper(subcircuit)].devices > 0
  IN IF layout.compared /\ layout.cells # << >> /\ asked THEN status = IF same THEN "passed" ELSE "failed"
     ELSE status = "error"
\* A comparison passes only with every pair of cells alike and the ports on the
\* conductors they name, and fails only for a difference: a pair that was not
\* compared, wherever it stands, is not hidden by the ones that were.
Different(r) == IF r.class THEN r.pins[1] # r.pins[2]
                ELSE r.bad \/ r.nets[1] # r.nets[2] \/ r.devices[1] # r.devices[2] \/ (r.pins # None /\ ~SamePins(r.pins))
NetgenConclusive(records, top, subcircuit) ==
  LET status == netgen_verdict(records, top, subcircuit)
      tops == {i \in DOMAIN records: ~records[i].class /\ records[i].name = <<top, subcircuit>>}
  IN /\ status = "passed" => \A i \in DOMAIN records: ~records[i].malformed /\ ~Different(records[i])
     /\ status = "passed" => \E i \in tops: records[i].devices[1] > 0 /\ records[i].pins # None
     /\ status = "failed" => \/ \E i \in DOMAIN records: ~records[i].malformed /\ Different(records[i])
                             \/ \E i \in tops: \E k \in 1..2: records[i].devices[k] = 0
     /\ (netgen_verdict(Reverse(records), top, subcircuit) = "passed") = (status = "passed")
\* A verdict of Magic is Netgen's, or that of its own extraction; a run that
\* failed, spoke of an error or stopped early gives none, whatever it left.
MagicConclusive(run, top, subcircuit) ==
  LET whole == run.code = 0 /\ ~run.diagnosed /\ run.complete
      lvs == Magic("lvs", run, top, subcircuit)
      violations == Magic("drc", run, top, subcircuit)
  IN /\ (lvs # "error" \/ violations # "error") => whole
     /\ lvs = "passed" => run.devices > 0 /\ run.netgen.code = 0 /\ run.netgen.complete
     /\ lvs = "passed" => NetgenConclusive(run.netgen.records, top, subcircuit)
     /\ lvs = "failed" /\ run.devices > 0 => run.netgen.code = 0 /\ run.netgen.complete
     /\ violations = "passed" => run.count = 0
     /\ violations = "failed" => run.count > 0
     /\ whole /\ run.devices > 0 /\ run.netgen.code = 0 /\ run.netgen.complete
          => lvs = netgen_verdict(run.netgen.records, top, subcircuit)
\* A netlist that is simulated is that of the layout and the top it was asked
\* for, has the layout's devices, each once, behind the declared ports in
\* their order, no node of the plane the declared substrate stands for, and no
\* two nets of the layout made one.
ExtractionBound(layout, database, binding, top, ports, substrate, process, native) ==
  LET k == Kpex(layout, database, binding, top, ports, substrate, process, native) IN
  k.status = "passed" =>
    /\ database.layout = layout /\ database.top = top
    /\ k.netlist.ports = ports /\ Counts(k.netlist.cards) = Counts(database.circuit.devices)
    /\ \A i \in DOMAIN k.netlist.cards: process.plane \notin ToSet(k.netlist.cards[i].nodes)
    /\ \A n, m \in database.circuit.nets: n # m => Renamed(process, substrate, n) # Renamed(process, substrate, m)
    /\ ToSet(k.netlist.ports) = ToSet(database.circuit.ports)
=============================================================================
