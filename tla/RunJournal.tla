------------------------------ MODULE RunJournal ------------------------------
(***************************************************************************)
(* The evidence of one run (evidence/journal.py): events.jsonl, the        *)
(* artifacts it refers to, and run.json, which a finished run binds to the *)
(* journal's bytes; and the solver's protocol on top of it                 *)
(* (execution/workspace/protocol.py), whose memory is rebuilt from the     *)
(* journal when a run is resumed.                                          *)
(*                                                                         *)
(* An event is a line appended and synced under the recorder's lock.  A    *)
(* process that dies, or a write that fails, may leave nothing, part of    *)
(* the line or all of it.  The control loop works on one request at a time *)
(* while gateway threads record events of their own.                       *)
(***************************************************************************)
EXTENDS Naturals, Sequences, FiniteSets

CONSTANTS
  Keys,        \* idempotency keys of submissions
  Contents,    \* what is archived: frozen candidates and opinions
  MaxEvents,   \* bound on the journal
  MaxOpinions, \* MAX_REPORTS of benchmark feedback
  MaxCrashes, MaxFaults,
  None

ASSUME JournalAssumption ==
  /\ None \notin Keys \cup Contents
  /\ MaxEvents \in Nat /\ MaxOpinions \in Nat /\ MaxCrashes \in Nat /\ MaxFaults \in Nat

VARIABLES
  lines,       \* the complete lines of events.jsonl
  tail,        \* the event whose line is incomplete, or None
  artifacts,   \* archived contents, torn tails among them
  report,      \* run.json: its phase, and the journal it is bound to
  recorder,    \* what the RunRecorder is doing, "none" without a process
  error,       \* recorder.error
  sequence,    \* recorder._sequence
  submissions, \* the protocol's receipts, by the sequence number of their event
  checks,      \* protocol.feedback_sequence
  results,     \* the numbers of the checks in protocol.process_feedback
  opinions,    \* how many opinions protocol.benchmark_feedback lists
  dispatching, \* the request between its first durable step and its event
  told,        \* receipts some client may have seen
  crashes, faults

disk == <<lines, tail, artifacts, report>>
protocol == <<submissions, checks, results, opinions>>
memory == <<recorder, error, sequence, protocol, dispatching>>
history == <<told, crashes, faults>>
vars == <<disk, memory, history>>

-----------------------------------------------------------------------------
Kinds == {"note", "submission", "check", "result", "opinion", "recovered", "finished"}

Events == [sequence : Nat, kind : Kinds, number : Nat,
           key : Keys \cup {None}, content : Contents \cup {None}]

\* A line that is no JSON: an event behind somebody else's incomplete one.
Garbage == [sequence |-> 0, kind |-> "garbage", number |-> 0, key |-> None, content |-> None]

Event(kind, number, key, content) ==
  [sequence |-> sequence + 1, kind |-> kind, number |-> number, key |-> key,
   content |-> content]

Receipt(e) == [number |-> e.number, key |-> e.key, content |-> e.content]

Accepted(receipt) == receipt.content # None

NoRequest == [action |-> "none", key |-> None, content |-> None]

\* Where a journal has events of one kind, and their numbers.
Positions(journal, kind) == {i \in DOMAIN journal : journal[i].kind = kind}

Numbers(journal, kind) == {journal[i].number : i \in Positions(journal, kind)}

\* The greatest of some numbers, 0 without any.
Greatest(S) ==
  IF \E n \in S : \A m \in S : m <= n THEN CHOOSE n \in S : \A m \in S : m <= n ELSE 0

\* recover_submissions: the rejected submissions are listed as well.
Receipts(journal) == [i \in Positions(journal, "submission") |-> Receipt(journal[i])]

\* Mutant: a check that has no result yet is forgotten.
RestoreByResults(journal) ==
  /\ submissions' = Receipts(journal)
  /\ checks' = Greatest(Numbers(journal, "result"))
  /\ results' = Numbers(journal, "result")
  /\ opinions' = Cardinality(Positions(journal, "opinion"))

\* Mutant: the rejected submissions are left out.
RestoreAccepted(journal) ==
  /\ submissions' = [i \in {j \in DOMAIN Receipts(journal) : Accepted(Receipts(journal)[j])} |->
                       Receipts(journal)[i]]
  /\ checks' = Greatest(Numbers(journal, "check"))
  /\ results' = Numbers(journal, "result")
  /\ opinions' = Cardinality(Positions(journal, "opinion"))

\* SessionProtocol.restore: a check counts from its request on.
Restore(journal) ==
  /\ submissions' = Receipts(journal)
  /\ checks' = Greatest(Numbers(journal, "check"))
  /\ results' = Numbers(journal, "result")
  /\ opinions' = Cardinality(Positions(journal, "opinion"))

\* protocol.candidate: some submission was accepted.
HasCandidate == \E i \in DOMAIN submissions : Accepted(submissions[i])

\* The next receipt joins the protocol's list.
Publish(e) ==
  submissions' = [i \in DOMAIN submissions \cup {e.sequence} |->
                    IF i = e.sequence THEN Receipt(e) ELSE submissions[i]]

Init ==
  /\ lines = <<>> /\ tail = None /\ artifacts = {}
  /\ report = [phase |-> "running", bound |-> None]
  /\ recorder = "open" /\ error = FALSE /\ sequence = 0
  /\ submissions = Receipts(<<>>) /\ checks = 0 /\ results = {} /\ opinions = 0
  /\ dispatching = NoRequest
  /\ told = {} /\ crashes = 0 /\ faults = 0

-----------------------------------------------------------------------------
Fault == faults < MaxFaults /\ faults' = faults + 1

\* RunRecorder._write lets an operation through.
Writable == recorder \notin {"none", "closed"} /\ ~error

\* A line is written: behind an incomplete one it completes garbage.
Line(e) == IF tail = None THEN e ELSE Garbage

Written(e) == lines' = Append(lines, Line(e)) /\ tail' = None

\* What remains of a write that was cut off or reported an error.
PartlyWritten(e) ==
  \/ UNCHANGED <<lines, tail>>
  \/ UNCHANGED lines /\ tail' = Line(e)
  \/ Written(e)

\* RunRecorder.event
Record(e) ==
  /\ Writable
  /\ Len(lines) < MaxEvents
  /\ Written(e)
  /\ sequence' = sequence + 1
  /\ UNCHANGED <<error, crashes, faults>>

-----------------------------------------------------------------------------
\* The control loop and the gateway's threads run.
Running == recorder = "open" /\ report.phase = "running"

Idle == Running /\ dispatching = NoRequest

\* A gateway request, a status of the session, an opinion refused at once.
NoteEvent == Event("note", 0, None, None)

Note ==
  /\ Running
  /\ Record(NoteEvent)
  /\ UNCHANGED <<artifacts, report, recorder, protocol, dispatching, told>>

\* Mutant: a content is archived only once its event is written.
FreezeLater(action, key, content) ==
  /\ Idle /\ ~error
  /\ action = "submit" /\ key # None =>
       \A i \in DOMAIN submissions : submissions[i].key # key
  /\ action = "opinion" => key = None /\ opinions < MaxOpinions
  /\ dispatching' = [action |-> action, key |-> key, content |-> content]
  /\ UNCHANGED <<disk, recorder, error, sequence, protocol, history>>

\* dispatch: a submission whose key is new, or an opinion below the limit, is
\* archived first.  A known key is answered from memory.
Freeze(action, key, content) ==
  /\ Idle /\ ~error
  /\ action = "submit" /\ key # None =>
       \A i \in DOMAIN submissions : submissions[i].key # key
  /\ action = "opinion" => key = None /\ opinions < MaxOpinions
  /\ artifacts' = artifacts \cup {content}
  /\ dispatching' = [action |-> action, key |-> key, content |-> content]
  /\ UNCHANGED <<lines, tail, report, recorder, error, sequence, protocol, history>>

\* dispatch, action submit: the event is the acceptance, then it is published.
SubmissionEvent ==
  Event("submission", Cardinality(DOMAIN submissions) + 1, dispatching.key, dispatching.content)

Submit ==
  /\ Running /\ dispatching.action = "submit"
  /\ Record(SubmissionEvent)
  /\ Publish(SubmissionEvent)
  /\ told' = told \cup {Receipt(SubmissionEvent)}
  /\ dispatching' = NoRequest
  /\ UNCHANGED <<artifacts, report, recorder, checks, results, opinions>>

\* A request that cannot be served, or a submission past its deadline.
RejectionEvent == Event("submission", 0, None, None)

Reject ==
  /\ Running /\ dispatching.action \in {"none", "submit"}
  /\ Record(RejectionEvent)
  /\ Publish(RejectionEvent)
  /\ dispatching' = NoRequest
  /\ UNCHANGED <<artifacts, report, recorder, checks, results, opinions, told>>

\* dispatch, action benchmark_feedback.
OpinionEvent == Event("opinion", opinions + 1, None, dispatching.content)

Opinion ==
  /\ Running /\ dispatching.action = "opinion"
  /\ Record(OpinionEvent)
  /\ opinions' = opinions + 1
  /\ dispatching' = NoRequest
  /\ UNCHANGED <<artifacts, report, recorder, submissions, checks, results, told>>

\* An opinion that missed the deadline while it was archived.
OpinionMissed ==
  /\ Running /\ dispatching.action = "opinion"
  /\ Record(NoteEvent)
  /\ dispatching' = NoRequest
  /\ UNCHANGED <<artifacts, report, recorder, protocol, told>>

\* check: its number is taken and recorded before any tool runs, ...
CheckEvent == Event("check", checks + 1, None, None)

CheckRequest ==
  /\ Idle
  /\ Record(CheckEvent)
  /\ checks' = checks + 1
  /\ dispatching' = [NoRequest EXCEPT !.action = "check"]
  /\ UNCHANGED <<artifacts, report, recorder, submissions, results, opinions, told>>

\* ... and its result, or its error, when it ends.
ResultEvent == Event("result", checks, None, None)

CheckResult ==
  /\ Running /\ dispatching.action = "check"
  /\ Record(ResultEvent)
  /\ results' = results \cup {checks}
  /\ dispatching' = NoRequest
  /\ UNCHANGED <<artifacts, report, recorder, submissions, checks, opinions, told>>

-----------------------------------------------------------------------------
\* What the next save of run.json would write: run_session saves what was
\* stopped, then that it evaluates a candidate, and finish what it all led to.
NextReports ==
  CASE recorder = "finishing" -> {[phase |-> "finished", bound |-> lines]}
    [] Idle -> {[report EXCEPT !.phase = "stopped"]}
    [] recorder = "open" /\ report.phase = "stopped" /\ HasCandidate
         -> {[report EXCEPT !.phase = "evaluating"]}
    [] OTHER -> {}

\* RunRecorder.save, from run_session.
Save ==
  /\ recorder = "open" /\ ~error
  /\ report' \in NextReports
  /\ UNCHANGED <<lines, tail, artifacts, memory, history>>

\* RunRecorder.finish, its event; the lock stays held.
FinishEvent == Event("finished", 0, None, None)

FinishRecords ==
  /\ recorder = "open"
  /\ report.phase = IF HasCandidate THEN "evaluating" ELSE "stopped"
  /\ Record(FinishEvent)
  /\ recorder' = "finishing"
  /\ UNCHANGED <<artifacts, report, protocol, dispatching, told>>

\* Mutant: the report is bound to the journal as it was before its last event.
FinishSavesEarlier ==
  /\ recorder = "finishing" /\ ~error
  /\ report' = [phase |-> "finished", bound |-> SubSeq(lines, 1, Len(lines) - 1)]
  /\ recorder' = "closed"
  /\ UNCHANGED <<lines, tail, artifacts, error, sequence, protocol, dispatching, history>>

\* RunRecorder.finish, its report: bound to the journal read back.
FinishSaves ==
  /\ recorder = "finishing" /\ ~error
  /\ report' \in NextReports
  /\ recorder' = "closed"
  /\ UNCHANGED <<lines, tail, artifacts, error, sequence, protocol, dispatching, history>>

-----------------------------------------------------------------------------
\* The events some thread may be writing.
Pending ==
  (IF Running THEN {NoteEvent} ELSE {})
  \cup (IF Idle THEN {CheckEvent} ELSE {})
  \cup (IF Running /\ dispatching.action \in {"none", "submit"} THEN {RejectionEvent} ELSE {})
  \cup (IF Running /\ dispatching.action = "submit" THEN {SubmissionEvent} ELSE {})
  \cup (IF Running /\ dispatching.action = "opinion" THEN {OpinionEvent} ELSE {})
  \cup (IF Running /\ dispatching.action = "check" THEN {ResultEvent} ELSE {})
  \cup (IF recorder = "open" /\ report.phase = (IF HasCandidate THEN "evaluating" ELSE "stopped")
          THEN {FinishEvent} ELSE {})
  \cup (IF recorder = "recovering" THEN {Event("recovered", 0, None, None)} ELSE {})

\* Mutant: a failed write is reported, and the recorder goes on.
WriteFailsSilently(e) ==
  /\ Writable /\ Len(lines) < MaxEvents
  /\ Fault
  /\ PartlyWritten(e)
  /\ UNCHANGED <<artifacts, report, memory, told, crashes>>

\* RunRecorder._write: a failed write is the last one.
WriteFails(e) ==
  /\ Writable /\ Len(lines) < MaxEvents
  /\ Fault
  /\ PartlyWritten(e)
  /\ error' = TRUE
  /\ UNCHANGED <<artifacts, report, recorder, sequence, protocol, dispatching, told, crashes>>

\* atomic_write fails, before or after it replaced the report.
SaveFails ==
  /\ Writable /\ NextReports # {}
  /\ Fault
  /\ report' \in {report} \cup NextReports
  /\ error' = TRUE
  /\ UNCHANGED <<lines, tail, artifacts, recorder, sequence, protocol, dispatching, told, crashes>>

\* The process dies, in the middle of a write or not.
Crash ==
  /\ recorder # "none" /\ crashes < MaxCrashes
  /\ crashes' = crashes + 1
  /\ \/ UNCHANGED <<lines, tail>>
     \/ /\ Writable /\ Len(lines) < MaxEvents
        /\ \E e \in Pending : PartlyWritten(e)
  /\ recorder' = "none" /\ error' = FALSE /\ sequence' = 0
  /\ Restore(<<>>) /\ dispatching' = NoRequest
  /\ UNCHANGED <<artifacts, report, told, faults>>

-----------------------------------------------------------------------------
\* read_journal: every complete line is an event, numbered by its place.
Readable == \A i \in DOMAIN lines : lines[i].sequence = i

\* Mutant: any run may be resumed.
ResumableAlways == recorder = "none" /\ Readable

\* run_session with resume: only a run still in phase running.
Resumable == recorder = "none" /\ report.phase = "running" /\ Readable

\* RunRecorder.resume of a complete journal, and the protocol's restore.
Resume ==
  /\ Resumable /\ tail = None
  /\ recorder' = "open" /\ sequence' = Len(lines) /\ Restore(lines)
  /\ UNCHANGED <<disk, error, dispatching, history>>

\* Mutant: a torn tail is dropped.
ResumeDrops ==
  /\ Resumable /\ tail # None
  /\ recorder' = "salvaging" /\ sequence' = Len(lines)
  /\ UNCHANGED <<disk, error, protocol, dispatching, history>>

\* RunRecorder.resume of a torn one: archive the tail, ...
ResumeArchives ==
  /\ Resumable /\ tail # None
  /\ artifacts' = artifacts \cup {tail}
  /\ recorder' = "salvaging" /\ sequence' = Len(lines)
  /\ UNCHANGED <<lines, tail, report, error, protocol, dispatching, history>>

\* Mutant: the torn tail stays where it is.
ResumeLeavesTail ==
  /\ recorder = "salvaging"
  /\ recorder' = "recovering"
  /\ UNCHANGED <<disk, error, sequence, protocol, dispatching, history>>

\* ... replace the journal by its complete lines, ...
ResumeTruncates ==
  /\ recorder = "salvaging"
  /\ tail' = None
  /\ recorder' = "recovering"
  /\ UNCHANGED <<lines, artifacts, report, error, sequence, protocol, dispatching, history>>

\* ... and record that.
ResumeRecords ==
  /\ recorder = "recovering"
  /\ Record(Event("recovered", 0, None, None))
  /\ recorder' = "open" /\ Restore(lines')
  /\ UNCHANGED <<artifacts, report, dispatching, told>>

-----------------------------------------------------------------------------
Serve ==
  \/ Note \/ Submit \/ Reject \/ Opinion \/ OpinionMissed \/ CheckRequest \/ CheckResult
  \/ \E action \in {"submit", "opinion"}, key \in Keys \cup {None}, content \in Contents :
       Freeze(action, key, content)

End == Save \/ FinishRecords \/ FinishSaves

Restart == Resume \/ ResumeArchives \/ ResumeTruncates \/ ResumeRecords

Next ==
  \/ Serve \/ End
  \/ \E e \in Pending : WriteFails(e)
  \/ SaveFails
  \/ Crash \/ Restart

Spec == Init /\ [][Next]_vars

-----------------------------------------------------------------------------
Recorders == {"none", "salvaging", "recovering", "open", "finishing", "closed"}

Phases == {"running", "stopped", "evaluating", "finished"}

TypeOK ==
  /\ lines \in Seq(Events) /\ tail \in Events \cup {None}
  /\ report \in [phase : Phases, bound : Seq(Events) \cup {None}]
  /\ recorder \in Recorders /\ error \in BOOLEAN /\ sequence \in Nat
  /\ IsFiniteSet(DOMAIN submissions) /\ checks \in Nat /\ results \subseteq Nat /\ opinions \in Nat
  /\ dispatching \in [action : {"none", "submit", "opinion", "check"},
                      key : Keys \cup {None}, content : Contents \cup {None}]
  /\ crashes \in Nat /\ faults \in Nat

\* The journal is an append-only log, sealed by the finished report: through
\* torn lines, failed writes and resumed runs no event is lost, changed,
\* misnumbered or added once the run has finished.
Log == INSTANCE AppendLog WITH log <- lines, sealed <- report.phase = "finished"

ImplementsLog == Log!Spec

\* The evidence of an accepted submission: whoever was told has an event in
\* the journal, and no event refers to a content that is not archived.
EvidenceKept ==
  /\ \A receipt \in told : \E i \in DOMAIN lines :
       lines[i].kind = "submission" /\ Receipt(lines[i]) = receipt
  /\ \A i \in DOMAIN lines : lines[i].content # None => lines[i].content \in artifacts

\* The finished report is bound to the journal as it stays, whose last event
\* says so; and no journal that says so is ever resumed.
SealBindsJournal ==
  /\ report.phase = "finished" => report.bound = lines /\ lines[Len(lines)].kind = "finished"
  /\ \A i \in DOMAIN lines : lines[i].kind = "finished" => i = Len(lines)

\* What the protocol answers from is what it would rebuild from the journal.
PublishedIsJournalled ==
  recorder = "open" /\ ~error =>
    /\ submissions = Receipts(lines) /\ checks = Greatest(Numbers(lines, "check"))
    /\ results = Numbers(lines, "result")
    /\ opinions = Cardinality(Positions(lines, "opinion"))

\* Receipts, checks and opinions keep counting across restarts: no number is
\* given twice, also when a crash came between a check and its result.
NumbersNotReused ==
  \A i, j \in DOMAIN lines :
    /\ i # j /\ lines[i].kind = lines[j].kind /\ lines[i].number = lines[j].number
    => lines[i].number = 0

\* A torn tail is evidence: it goes from the journal only into the archive.
TailArchived == [][tail # None /\ tail' # tail => tail \in artifacts']_vars
=============================================================================
