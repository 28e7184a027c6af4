---------------------------- MODULE LayoutGeometry ----------------------------
(* What is read of a submitted layout directly: the directory of its stream,   *)
(* and its shapes, held against the task's constraints on outlines, supply     *)
(* rails and ports. A region is the set of the grid's squares it covers.       *)
EXTENDS Integers, Sequences, FiniteSets, SequencesExt, FiniteSetsExt, Functions

CONSTANT None

\* ---- The stream. A TEXT has its records in one order, some of them optional,
\* and after its string the properties, an attribute and its value each time.
TextOrder == <<"text", "flags", "layer", "type", "presentation", "transform", "xy", "string", "endel">>
Rank(kind) == CHOOSE i \in DOMAIN TextOrder: TextOrder[i] = kind
validate_text_records(records) ==
  LET kinds == [i \in DOMAIN records |-> records[i].kind]
      plain == SelectSeq(kinds, LAMBDA k: k \in Range(TextOrder))
      n == Len(kinds)
      last == Len(plain) - 1
  IN /\ \A i \in DOMAIN records: records[i].fits
     /\ Range(TextOrder) \ {"flags", "presentation", "transform"} \subseteq ToSet(plain)
     /\ \A i \in 1..last: Rank(plain[i]) < Rank(plain[i + 1])
     /\ SubSeq(kinds, 1, last) = SubSeq(plain, 1, last)
     /\ (n - last - 1) % 2 = 0
     /\ \A i \in (last + 1)..(n - 1): kinds[i] = IF (i - last) % 2 = 1 THEN "attribute" ELSE "value"
Directory(s, r) ==
  CASE r.kind = "name" -> [s EXCEPT !.cells = @ \cup {r.value}]
    [] r.kind = "call" -> [s EXCEPT !.referenced = @ \cup {r.value}]
    [] r.kind = "units" -> [s EXCEPT !.dbu = r.value, !.ok = r.fits]
    [] r.kind = "layer" -> [s EXCEPT !.layer = r.value, !.ok = r.fits]
    [] r.kind = "type" /\ s.layer # None -> [s EXCEPT !.layers = @ \cup {<<s.layer, r.value>>}, !.ok = r.fits]
    [] r.kind = "endlib" -> [s EXCEPT !.ended = TRUE]
    [] OTHER -> s
ReadRecord(s, r) ==
  IF ~s.ok \/ s.ended THEN [s EXCEPT !.ok = FALSE]
  ELSE IF r.cut \/ (r.kind = "text" /\ s.text # None) THEN [s EXCEPT !.ok = FALSE]
  ELSE LET open == IF r.kind = "text" THEN << >> ELSE s.text
           text == IF open = None THEN None ELSE Append(open, r)
           closed == text # None /\ r.kind = "endel"
       IN IF closed /\ ~validate_text_records(text) THEN [s EXCEPT !.ok = FALSE]
          ELSE Directory([s EXCEPT !.text = IF closed THEN None ELSE text], r)
\* tail: what follows the library's end, which may only be padded.
stream_metadata(records, tail) ==
  LET s == FoldLeft(ReadRecord, [ok |-> TRUE, ended |-> FALSE, text |-> None, cells |-> {}, referenced |-> {},
                                 layers |-> {}, layer |-> None, dbu |-> 0], records)
  IN IF s.ok /\ s.text = None /\ s.ended /\ s.dbu > 0 /\ s.cells # {} /\ s.referenced \subseteq s.cells
        /\ tail # "data"
     THEN [cells |-> s.cells, tops |-> s.cells \ s.referenced, layers |-> s.layers] ELSE None

\* ---- The shapes.
Region(layout, layer) == IF layer \in DOMAIN layout.layers THEN layout.layers[layer] ELSE {}
Covered(layout, layers) == UNION {Region(layout, l): l \in layers}
Box(x1, y1, x2, y2) == {<<x, y>>: x \in x1..(x2 - 1), y \in y1..(y2 - 1)}
Bounds(squares) ==
  [x1 |-> Min({p[1]: p \in squares}), y1 |-> Min({p[2]: p \in squares}),
   x2 |-> Max({p[1]: p \in squares}) + 1, y2 |-> Max({p[2]: p \in squares}) + 1]
Width(b) == b.x2 - b.x1
Height(b) == b.y2 - b.y1
\* The conductor of a pin, by the comparison, in the layer it is looked for.
NetOf(layout, pin) == IF pin \in DOMAIN layout.pins THEN layout.pins[pin] ELSE None
Conductor(layout, layer, pin) == layout.nets[layer][NetOf(layout, pin)]
Traced(layout, layer, pin) == layer \in DOMAIN layout.nets /\ NetOf(layout, pin) # None

Strip(layout, spec, rail) ==
  LET b == Bounds(Covered(layout, spec.layers)) IN
  Box(b.x1 + rail.left, b.y1 + rail.y - rail.half, b.x2 - rail.right, b.y1 + rail.y + rail.half)
RailMet(layout, spec, rail) ==
  /\ Strip(layout, spec, rail) # {}
  /\ Strip(layout, spec, rail) \subseteq Conductor(layout, rail.connectivity, rail.name) \cap Region(layout, rail.layer)
Points(layout, name) == SelectSeq(layout.labels, LAMBDA l: l.text = name)
Square(point, half) == Box(point[1] - half, point[2] - half, point[1] + half, point[2] + half)
PortMet(layout, spec, name) ==
  LET access == Region(layout, spec.pin) \cap Region(layout, spec.drawing) \cap Conductor(layout, spec.connectivity, name)
      points == Points(layout, name)
  IN Len(points) = 1 /\ Square(points[1].at, spec.half) \subseteq access
\* A constraint that cannot be traced in the comparison is an error.
Raises(layout, spec) ==
  CASE spec.type = "cell_frame" -> \E r \in spec.rails: ~Traced(layout, r.connectivity, r.name)
    [] spec.type = "named_metal_ports" -> \E n \in spec.names: ~Traced(layout, spec.connectivity, n)
    [] OTHER -> FALSE
Met(layout, spec) ==
  LET covered == Covered(layout, IF spec.type = "named_metal_ports" THEN {} ELSE spec.layers)
      b == Bounds(covered)
  IN CASE spec.type = "bbox_max" -> covered # {} /\ Width(b) <= spec.width /\ Height(b) <= spec.height
       [] spec.type = "cell_frame" -> /\ covered # {} /\ Height(b) = spec.height /\ Width(b) % spec.grid = 0
                                      /\ \A r \in spec.rails: RailMet(layout, spec, r)
       [] spec.type = "named_metal_ports" -> \A n \in spec.names: PortMet(layout, spec, n)
AreaLayers(constraints, q) ==
  IF q.from = None THEN q.layers ELSE (CHOOSE s \in constraints.hard: s.id = q.from).layers
validate_constraints(constraints) ==
  LET all == constraints.hard \cup constraints.quality
      outlines == {s.id: s \in {h \in constraints.hard: h.type = "bbox_max"}}
  IN /\ all # {} /\ Cardinality({s.id: s \in all}) = Cardinality(constraints.hard) + Cardinality(constraints.quality)
     /\ \A q \in constraints.quality: IF q.from = None THEN q.layers # {} ELSE q.from \in outlines /\ q.layers = {}
inspect(layout, constraints) ==
  LET connectivity == \E s \in constraints.hard: s.type # "bbox_max"
      failed == [status |-> "failed", areas |-> << >>]
      own == {q \in constraints.quality: q.from = None}
      area(q) == LET b == Bounds(Covered(layout, AreaLayers(constraints, q))) IN Width(b) * Height(b)
  IN IF ~validate_constraints(constraints) \/ (connectivity /\ ~layout.compared) THEN [failed EXCEPT !.status = "error"]
     ELSE IF ~layout.artifact THEN failed
     ELSE IF layout.compared /\ ~layout.matched THEN [failed EXCEPT !.status = "error"]
     ELSE IF \E s \in constraints.hard: Raises(layout, s) THEN [failed EXCEPT !.status = "error"]
     ELSE IF (\E s \in constraints.hard: ~Met(layout, s)) \/ (\E q \in own: Covered(layout, q.layers) = {}) THEN failed
     ELSE [status |-> "passed", areas |-> [i \in {q.id: q \in constraints.quality} |->
                                                     area(CHOOSE q \in constraints.quality: q.id = i)]]

-----------------------------------------------------------------------------
\* A stream that arrived in part, or was followed by more, is never taken for
\* a whole one, and a layout whose directory is accepted defines what it calls.
StreamWhole(records, tail) ==
  stream_metadata(records, tail) # None =>
    /\ tail # "data"
    /\ \A n \in 0..(Len(records) - 1): stream_metadata(SubSeq(records, 1, n), "none") = None
    /\ \A i \in DOMAIN records: ~records[i].cut
    /\ {records[i].value: i \in {k \in DOMAIN records: records[k].kind = "call"}} \subseteq
         {records[i].value: i \in {k \in DOMAIN records: records[k].kind = "name"}}
    /\ Cardinality({i \in DOMAIN records: records[i].kind = "text"}) <= Cardinality({i \in DOMAIN records: records[i].kind = "endel"})
\* A port passes by the conductor under its label, not by the label: no two
\* ports of different nets, nor two rails, pass on shared metal; an area that
\* is measured is within the outline it comes from; and a missing comparison is
\* never a verdict on the layout.
Claims(layout, spec) ==
  CASE spec.type = "named_metal_ports" -> {<<NetOf(layout, n), Square(Points(layout, n)[1].at, spec.half)>>: n \in spec.names}
    [] spec.type = "cell_frame" -> {<<NetOf(layout, r.name), Strip(layout, spec, r)>>: r \in spec.rails}
    [] OTHER -> {}
GeometryHonest(layout, constraints) ==
  LET v == inspect(layout, constraints) IN
  /\ v.status = "passed" =>
       /\ layout.artifact /\ (layout.compared \/ \A s \in constraints.hard: s.type = "bbox_max")
       /\ \A s, t \in constraints.hard: \A a \in Claims(layout, s), b \in Claims(layout, t):
            a[1] # b[1] => a[2] \cap b[2] = {}
       /\ \A s \in constraints.hard: \A a \in Claims(layout, s): a[2] # {}
       /\ DOMAIN v.areas = {q.id: q \in constraints.quality}
       /\ \A q \in constraints.quality:
            /\ v.areas[q.id] > 0
            /\ \A s \in constraints.hard: s.id = q.from => v.areas[q.id] <= s.width * s.height
  /\ v.status = "failed" /\ layout.artifact /\ layout.compared => layout.matched
=============================================================================
