---------------------------- MODULE ResultArchive ----------------------------
(***************************************************************************)
(* The archive of results: a terminal export is queued in an outbox,       *)
(* imported into content-addressed objects and one SQL transaction, and    *)
(* only then leaves the outbox (results/outbox.py, importing.py, store.py).*)
(* Importers are processes: runners, `retry', `import' and the previews.   *)
(* They may stop anywhere, and run beside a compaction of the export.      *)
(***************************************************************************)
EXTENDS Retention, Sequences

CONSTANTS
  Importers,
  Sources,        \* the exports: one result.json each, with the same attachments
  Cases,          \* those a runner committed and queues
  RunOf, EvaluationOf, IdentityOf,    \* what the result.json of each says
  Declared,       \* the attachments they declare
  Candidate,      \* final.gds, whose digest the evaluation recorded
  Previews        \* contents of the derived layout.png

ASSUME ArchiveAssumption ==
  /\ Cases \subseteq Sources
  /\ Candidate \in Declared /\ Declared \subseteq Files \ Nested
  /\ Previews \cap (Contents \cup Sources) = {}
  /\ {"result.json", "layout.png"} \cap Files = {}
  /\ \A s \in Sources : IdentityOf[s] # None

Runs == {RunOf[s] : s \in Sources}

Evaluation(s) == <<RunOf[s], EvaluationOf[s]>>

VARIABLES
  outbox,         \* sources with a job file in pending/
  objects,        \* contents in objects/
  runs,           \* the identity each run was first imported with
  history,        \* the evaluations, in order of imported_at
  rows,           \* run_artifacts: <<evaluation, name, content>>
  scheduled,      \* the experiment's schedule is registered
  importer,
  queued          \* ghost: sources a terminal case has put into the outbox

tables == <<runs, history, rows, scheduled>>
archiveVars == <<outbox, objects, tables, importer, queued>>
vars == <<retentionVars, archiveVars>>

Free == [stage |-> "free", source |-> None, job |-> FALSE, revise |-> FALSE,
         files |-> {}, todo |-> {}]

ArchiveInit ==
  /\ outbox = {} /\ objects = {}
  /\ runs = [r \in Runs |-> None]
  /\ history = <<>> /\ rows = {} /\ scheduled = FALSE
  /\ importer = [p \in Importers |-> Free]
  /\ queued = {}

Imported(e) == \E i \in DOMAIN history : history[i] = e

-----------------------------------------------------------------------------
\* enqueue, after the case's export is terminal; delivery follows.
Enqueue(p, s) ==
  /\ importer[p] = Free /\ s \in Cases
  /\ outbox' = outbox \cup {s}
  /\ queued' = queued \cup {s}
  /\ importer' = [importer EXCEPT ![p] = [Free EXCEPT !.stage = "deliver", !.source = s, !.job = TRUE]]
  /\ UNCHANGED <<objects, tables>>

\* `retry' lists the outbox and delivers what it found.
Retry(p, s) ==
  /\ importer[p] = Free /\ s \in outbox
  /\ importer' = [importer EXCEPT ![p] = [Free EXCEPT !.stage = "deliver", !.source = s, !.job = TRUE]]
  /\ UNCHANGED <<outbox, objects, tables, queued>>

\* Mutant: the job is taken out of the outbox when it is read.
DeliverTakes(p) ==
  /\ importer[p].stage = "deliver" /\ importer[p].source \in outbox
  /\ scheduled' = TRUE
  /\ outbox' = outbox \ {importer[p].source}
  /\ importer' = [importer EXCEPT ![p].stage = "prepare"]
  /\ UNCHANGED <<objects, runs, history, rows, queued>>

\* deliver reads the job, which another process may have finished by now, and
\* registers the schedule in a transaction of its own.
Deliver(p) ==
  /\ importer[p].stage = "deliver" /\ importer[p].source \in outbox
  /\ scheduled' = TRUE
  /\ importer' = [importer EXCEPT ![p].stage = "prepare"]
  /\ UNCHANGED <<outbox, objects, runs, history, rows, queued>>

\* `import' needs no job; --reevaluation is for an export of a new evaluation.
Import(p, s, revise) ==
  /\ importer[p] = Free
  /\ revise => s \notin Cases
  /\ importer' = [importer EXCEPT ![p] =
       [Free EXCEPT !.stage = "prepare", !.source = s, !.revise = revise]]
  /\ UNCHANGED <<outbox, objects, tables, queued>>

\* prepare_result reads the bytes it will store.  A missing attachment is left
\* out; an omitted or invalid one, or a candidate that is not the one that was
\* scored, refuses the import.
Prepare(p) ==
  LET found == {f \in Declared : Read(f) # "missing"} IN
  /\ importer[p].stage = "prepare"
  /\ \A f \in found : Read(f) \in Contents
  /\ Candidate \in found => Read(Candidate) = Original[Candidate]
  /\ LET files == {<<f, Read(f)>> : f \in found} \cup {<<"result.json", importer[p].source>>}
     IN importer' = [importer EXCEPT ![p].stage = "store", ![p].files = files,
                                     ![p].todo = {file[2] : file \in files} \ objects]
  /\ UNCHANGED <<outbox, objects, tables, queued>>

\* FileObjects.put writes each content atomically unless it is there; a process
\* that stops among them leaves objects nobody refers to.
Put(p) ==
  /\ importer[p].stage = "store" /\ importer[p].todo # {}
  /\ objects' = objects \cup importer[p].todo
  /\ importer' = [importer EXCEPT ![p].todo = {}]
  /\ UNCHANGED <<outbox, tables, queued>>

Row(e, name) == {r \in rows : r[1] = e /\ r[2] = name}

\* Mutant: any further evaluation of a run is taken.
AcceptableAlways(s, revise) == runs[RunOf[s]] \in {None, IdentityOf[s]}

\* A run keeps the identity of its first import, and a further evaluation has
\* to be asked for.
Acceptable(s, revise) ==
  /\ runs[RunOf[s]] \in {None, IdentityOf[s]}
  /\ Imported(Evaluation(s)) \/ revise \/ \A i \in DOMAIN history : history[i][1] # RunOf[s]

\* The attachments an evaluation has are the ones it is imported with again;
\* only result.json and the preview may differ, and then the old one stays.
Matching(e, files) ==
  \A file \in files \ {f \in files : f[1] = "result.json"} :
    \A r \in Row(e, file[1]) : r[3] = file[2]

\* The import transaction: all of it or, with a conflict, nothing.
Commit(p) ==
  LET s == importer[p].source
      e == Evaluation(s)
      new == {f \in importer[p].files : Row(e, f[1]) = {}}
  IN
  /\ importer[p].stage = "store" /\ importer[p].todo = {}
  /\ Acceptable(s, importer[p].revise)
  /\ Matching(e, importer[p].files)
  /\ runs' = [runs EXCEPT ![RunOf[s]] = IdentityOf[s]]
  /\ history' = IF Imported(e) THEN history ELSE Append(history, e)
  /\ rows' = rows \cup {<<e, f[1], f[2]>> : f \in new}
  /\ importer' = [importer EXCEPT ![p] =
       IF importer[p].job THEN [@ EXCEPT !.stage = "imported", !.files = {}] ELSE Free]
  /\ UNCHANGED <<outbox, objects, scheduled, queued>>

Unqueue(p) ==
  /\ importer[p].stage = "imported"
  /\ outbox' = outbox \ {importer[p].source}
  /\ importer' = [importer EXCEPT ![p] = Free]
  /\ UNCHANGED <<objects, tables, queued>>

\* An exception leaves the job in the outbox; a process that dies does, too.
Abandon(p) ==
  /\ importer[p] # Free
  /\ importer' = [importer EXCEPT ![p] = Free]
  /\ UNCHANGED <<outbox, objects, tables, queued>>

\* attach: a derived preview of an imported evaluation, replaced in place, its
\* object put before the transaction.
Attach(p, s, c) ==
  LET e == Evaluation(s) IN
  /\ importer[p] = Free /\ Imported(e)
  /\ objects' = objects \cup {c}
  /\ rows' = (rows \ Row(e, "layout.png")) \cup {<<e, "layout.png", c>>}
  /\ UNCHANGED <<outbox, runs, history, scheduled, importer, queued>>

ArchiveNext ==
  \E p \in Importers :
    \/ \E s \in Sources :
         \/ Enqueue(p, s) \/ Retry(p, s)
         \/ \E revise \in BOOLEAN : Import(p, s, revise)
         \/ \E c \in Previews : Attach(p, s, c)
    \/ Deliver(p) \/ Prepare(p) \/ Put(p) \/ Commit(p) \/ Unqueue(p)
    \/ Abandon(p)

\* A compaction of the export and imports of it run side by side.
ArchiveStep ==
  \/ RetentionNext /\ UNCHANGED archiveVars
  \/ ArchiveNext /\ UNCHANGED retentionVars

ArchiveSpec == RetentionInit /\ ArchiveInit /\ [][ArchiveStep]_vars

-----------------------------------------------------------------------------
\* What the tables name can be read: every row has its object, one row per
\* name, every evaluation its run, its result.json and, as nothing else was
\* missing when it was read, all it declares with the candidate it was given for.
Referenced ==
  /\ \A r \in rows : r[3] \in objects /\ Imported(r[1])
  /\ \A i \in DOMAIN history :
       /\ runs[history[i][1]] # None
       /\ \A name \in Declared \cup {"result.json"} : Cardinality(Row(history[i], name)) = 1
       /\ <<history[i], Candidate, Original[Candidate]>> \in rows

\* A terminal export that was queued is still in the outbox or in the archive.
NothingLost == \A s \in queued : s \in outbox \/ Imported(Evaluation(s))

\* results/outbox.py, store.py: whoever imports, retries, stops or compacts,
\* the archive holds whole results and the outbox the others.
ArchiveWhole == Referenced /\ NothingLost

\* An import never changes what was imported before: runs keep identities,
\* evaluations their attachments and their order, and the evaluation a run
\* shows is only superseded by an import that asked for a new revision.
Immutable ==
  /\ \A r \in Runs : runs[r] # None => runs'[r] = runs[r]
  /\ \A r \in rows : r[2] # "layout.png" => r \in rows'
  /\ SubSeq(history', 1, Len(history)) = history
  /\ history' # history =>
       LET new == history'[Len(history) + 1] IN
         (\E i \in DOMAIN history : history[i][1] = new[1]) =>
           \E p \in Importers : importer[p].stage = "store" /\ importer[p].revise

ResultsImmutable == [][Immutable]_vars
=============================================================================
