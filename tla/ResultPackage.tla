----------------------------- MODULE ResultPackage -----------------------------
(* A finished case leaves as a directory of exported evidence, several of      *)
(* those as one package, and a package is unpacked by whoever receives it.     *)
(* Names are tuples, data is known by its digest and has a size.               *)
EXTENDS Integers, Sequences, FiniteSets, SequencesExt, FiniteSetsExt, Functions

CONSTANTS None, Size(_), Files(_), ManifestSize, MaxBytes, MaxFiles

With(tree, name, data) == [n \in DOMAIN tree \cup {name} |-> IF n = name THEN data ELSE tree[n]]
Refused(s) == [s EXCEPT !.ok = FALSE]

\* put: an artifact is written once, and again only if it is the same.
put(s, name, data) ==
  IF ~s.ok THEN s
  ELSE IF name \in DOMAIN s.tree THEN IF s.tree[name] = data THEN s ELSE Refused(s)
  ELSE [s EXCEPT !.tree = With(@, name, data)]

\* ---- The evaluation of a candidate: its plan, its inputs, the files of its
\* jobs. A file is kept under the name of the first job that has its bytes;
\* those of a successful check, pruned or about to be, are marked instead.
Filename(ref) == ref.job \o <<"-">> \o ref.name
Artifact(s, archive, prefix, omitted, process, ref) ==
  LET mark == [s EXCEPT !.refs = Append(@, [ref EXCEPT !.path = None, !.retained = FALSE])]
      keep(n, t) == [t EXCEPT !.refs = Append(@, [ref EXCEPT !.path = n])]
      file == <<prefix>> \o Filename(ref)
  IN IF ~s.ok THEN s
     ELSE IF ref.path = None THEN [s EXCEPT !.refs = Append(@, ref)]
     ELSE IF ref.path \in omitted THEN mark
     ELSE IF ref.sha \notin archive THEN IF process THEN mark ELSE Refused(s)
     ELSE IF ref.sha \in DOMAIN s.kept THEN keep(s.kept[ref.sha], s)
     ELSE keep(file, [put(s, file, ref.sha) EXCEPT !.kept = With(@, ref.sha, file)])
evaluation_export(tree, evaluation, archive, prefix, process) ==
  LET omitted == IF process THEN evaluation.omitted ELSE {}
      start == [tree |-> tree, ok |-> evaluation.score = evaluation.recomputed, refs |-> << >>, kept |-> << >>]
      planned == put(start, <<prefix, "plan.json">>, evaluation.plan)
      input(s, sha) == IF sha \in archive THEN put(s, <<prefix, "inputs", sha>>, sha) ELSE Refused(s)
      jobs == FoldLeft(LAMBDA s, r: Artifact(s, archive, prefix, omitted, process, r),
                       FoldLeft(input, planned, evaluation.inputs), evaluation.refs)
  IN put(jobs, <<prefix, "report.json">>, <<"report", jobs.refs>>)

\* ---- The package. Only finished exports and what they declare are packed.
Private(name) == name = << >> \/ \E i \in DOMAIN name: name[i] \in {".private", "..", "participant", "archive"}
Declared(export) == Files(export.tree[<<"result.json">>])
DefaultFiles == <<<<"final.gds">>, <<"layout.png">>, <<"evaluation", "report.json">>, <<"evaluation", "plan.json">>>>
Names(export) ==
  LET all == <<<<"result.json">>>> \o Declared(export) \o DefaultFiles IN
  SelectSeq([i \in DOMAIN all |-> IF \E k \in 1..(i - 1): all[k] = all[i] THEN None ELSE all[i]], LAMBDA n: n # None)
Total(entries) == FoldLeft(LAMBDA a, e: a + Size(e.data), 0, entries)
PackFile(export, run, s, name) ==
  IF ~s.ok \/ Private(name) THEN Refused(s)
  ELSE IF name \notin DOMAIN export.tree
       THEN IF name \in ToSet(Declared(export)) THEN Refused(s) ELSE s
  ELSE IF Total(s.entries) + Size(export.tree[name]) > MaxBytes \/ Len(s.entries) >= MaxFiles THEN Refused(s)
  ELSE [s EXCEPT !.entries = Append(@, [name |-> <<"runs", ToString(run)>> \o name, data |-> export.tree[name]])]
PackRun(s, export) ==
  IF Private(export.place) THEN s
  ELSE IF export.state \notin {"complete", "error"} \/ export.test_only THEN Refused(s)
  ELSE [FoldLeft(LAMBDA t, n: PackFile(export, s.runs, t, n), s, Names(export)) EXCEPT !.runs = @ + 1]
\* A failed packing leaves nothing, and never replaces a package that exists.
pack(exports) ==
  LET s == FoldLeft(PackRun, [ok |-> TRUE, entries |-> << >>, runs |-> 0], exports) IN
  IF ~s.ok \/ s.runs = 0 THEN None
  ELSE Append(s.entries,
         [name |-> <<"manifest.json">>,
          data |-> [runs |-> s.runs,
                    files |-> [n \in {s.entries[i].name: i \in DOMAIN s.entries} |->
                                 (CHOOSE e \in ToSet(s.entries): e.name = n).data]]])
MemberSize(m) == IF m.name = <<"manifest.json">> THEN ManifestSize ELSE Size(m.data)
Manifests(members) == {members[i]: i \in {k \in DOMAIN members: members[k].name = <<"manifest.json">>}}
Unpacked(members) == FoldLeft(LAMBDA a, m: a + MemberSize(m), 0, members)

\* unpack: every member is validated before the destination is believed. What is
\* extracted is a tree; a refusal removes it.
Declares(tree) ==
  \A n \in DOMAIN tree: Len(n) = 3 /\ n[3] = "result.json" =>
    \A f \in ToSet(Files(tree[n])): ~Private(f) /\ SubSeq(n, 1, 2) \o f \in DOMAIN tree
unpack(members, max) ==
  LET names == {members[i].name: i \in DOMAIN members}
      described == Manifests(members)
      manifest == (CHOOSE m \in described: TRUE).data
      tree == [n \in names \ {<<"manifest.json">>} |-> (CHOOSE m \in ToSet(members): m.name = n).data]
      exports == {n \in DOMAIN tree: Len(n) = 3 /\ n[3] = "result.json"}
  IN IF /\ Cardinality(names) = Len(members) /\ Len(members) <= MaxFiles + 1
        /\ Unpacked(members) <= max /\ described # {}
        /\ \A n \in names: ~Private(n)
        /\ DOMAIN manifest.files = names \ {<<"manifest.json">>}
        /\ \A i \in DOMAIN members: LET m == members[i] IN
              m.name # <<"manifest.json">> => Len(m.name) >= 3 /\ m.name[1] = "runs" /\ m.data = manifest.files[m.name]
        /\ exports # {} /\ Cardinality(exports) = manifest.runs
        /\ Declares(tree)
     THEN tree ELSE None

-----------------------------------------------------------------------------
\* The report of an exported evaluation tells of every file it once named
\* either where its bytes are or that they were not kept; nothing already
\* exported is replaced, though two jobs' files may want the same name; and
\* exporting again, after an interruption say, changes nothing.
ExportFaithful(tree, evaluation, archive, process) ==
  LET s == evaluation_export(tree, evaluation, archive, "evaluation", process) IN
  s.ok =>
    /\ Restrict(s.tree, DOMAIN tree) = tree
    /\ \A i \in DOMAIN evaluation.refs:
         LET was == evaluation.refs[i]
             is == s.refs[i]
         IN was.path # None =>
              IF is.path # None THEN is.path \in DOMAIN s.tree /\ s.tree[is.path] = was.sha
              ELSE process /\ ~is.retained
    /\ evaluation_export(s.tree, evaluation, archive, "evaluation", process) = s

\* What was packed arrives: the exports at public places with each file they
\* declare, and nothing else. (The limit on bytes counts the manifest only when
\* it is unpacked, so a package within it when packed can be over it.)
Arrives(exports) ==
  LET package == pack(exports)
      public == SelectSeq(exports, LAMBDA e: ~Private(e.place))
      sent(i) == {n \in DOMAIN public[i].tree: n \in ToSet(Names(public[i]))}
  IN package # None =>
       LET tree == unpack(package, MaxBytes + ManifestSize) IN
       /\ tree # None
       /\ DOMAIN tree = UNION {{<<"runs", ToString(i - 1)>> \o n: n \in sent(i)}: i \in DOMAIN public}
       /\ \A i \in DOMAIN public: \A n \in sent(i): tree[<<"runs", ToString(i - 1)>> \o n] = public[i].tree[n]
\* And whatever happens to the package on its way, a file that lost, gained or
\* changed its bytes or its place is noticed.
DamageNoticed(package, damaged) ==
  /\ unpack(damaged, MaxBytes + ManifestSize) # None
  /\ Manifests(damaged) = Manifests(package)
  => ToSet(damaged) = ToSet(package)
=============================================================================
