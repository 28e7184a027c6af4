--------------------------- MODULE RunJournalProofs ---------------------------
(***************************************************************************)
(* The journal is an append-only log sealed by the finished report, and    *)
(* what was acknowledged has its evidence, for every set of keys and       *)
(* contents and every bound.                                               *)
(*                                                                         *)
(* The argument: a recorder that may write counts the journal's lines and  *)
(* has no torn tail before it, so a line is always written whole behind    *)
(* whole lines, under the number of its place; and a journal whose last    *)
(* event is `finished' has no recorder that may write.                     *)
(*                                                                         *)
(* The last part is about the batch the runs belong to: what it is made of.*)
(***************************************************************************)
EXTENDS RunJournal, FiniteSetTheorems, TLAPS

\* Every line carries the number of its place.
Numbered == \A i \in DOMAIN lines : lines[i].sequence = i

\* A recorder that may write is in step with the journal.
InStep ==
  Writable =>
    /\ sequence = Len(lines)
    /\ recorder # "salvaging" => tail = None

\* What is being dispatched is archived.
Archived == dispatching.action \in {"submit", "opinion"} => dispatching.content \in artifacts

\* A journal that ended is never opened for writing again.
Sealing ==
  /\ recorder \in {"salvaging", "recovering"} => report.phase = "running"
  /\ recorder = "finishing" \/ report.phase = "finished" =>
       lines # <<>> /\ lines[Len(lines)].kind = "finished"
  /\ \A i \in DOMAIN lines : lines[i].kind = "finished" =>
       /\ report.phase # "running"
       /\ error \/ recorder \in {"none", "finishing", "closed"}

IInv ==
  /\ TypeOK /\ Numbered /\ InStep /\ Archived /\ Sealing
  /\ EvidenceKept /\ SealBindsJournal

-----------------------------------------------------------------------------
\* The positions of one kind in a journal are finitely many.
LEMMA PositionsFinite ==
  ASSUME NEW journal \in Seq(Events), NEW kind
  PROVE  IsFiniteSet(Positions(journal, kind))
<1>1. Positions(journal, kind) \subseteq 1 .. Len(journal)
  BY DEF Positions
<1>2. IsFiniteSet(1 .. Len(journal))
  BY FS_Interval
<1> QED
  BY <1>1, <1>2, FS_Subset

\* What restore rebuilds from a journal has the protocol's types.
LEMMA RestoreType ==
  ASSUME NEW journal \in Seq(Events), Restore(journal)
  PROVE  /\ IsFiniteSet(DOMAIN submissions') /\ checks' \in Nat
         /\ results' \subseteq Nat /\ opinions' \in Nat
<1>1. DOMAIN submissions' = Positions(journal, "submission")
  BY DEF Restore, Receipts
<1>2. \A kind : Numbers(journal, kind) \subseteq Nat
  <2> TAKE kind
  <2>0. \A i \in DOMAIN journal : journal[i] \in Events
    OBVIOUS
  <2>1. \A i \in DOMAIN journal : journal[i].number \in Nat
    BY <2>0 DEF Events
  <2> QED
    BY <2>1 DEF Numbers, Positions
<1>3. Greatest(Numbers(journal, "check")) \in Nat
  BY <1>2 DEF Greatest
<1>4. Cardinality(Positions(journal, "opinion")) \in Nat
  BY PositionsFinite, FS_CardinalityType
<1> QED
  BY <1>1, <1>2, <1>3, <1>4, PositionsFinite DEF Restore

\* The number of receipts listed is a number.
LEMMA ReceiptsCount ==
  ASSUME TypeOK
  PROVE  Cardinality(DOMAIN submissions) \in Nat
BY FS_CardinalityType DEF TypeOK

\* A thread writes only events that fit behind the journal's last line.
LEMMA PendingEvent ==
  ASSUME TypeOK, Archived, NEW e \in Pending
  PROVE  /\ e \in Events /\ e.sequence = sequence + 1
         /\ e.content # None => e.content \in artifacts
         /\ e.kind = "finished" => report.phase # "running" /\ recorder = "open"
         /\ recorder \in {"open", "recovering"}
<1> USE DEF Event, Events, Kinds
<1>1. CASE Running /\ e = NoteEvent
  BY <1>1 DEF NoteEvent, Running, TypeOK
<1>2. CASE Idle /\ e = CheckEvent
  BY <1>2 DEF CheckEvent, Idle, Running, TypeOK
<1>3. CASE Running /\ e = RejectionEvent
  BY <1>3 DEF RejectionEvent, Running, TypeOK
<1>4. CASE Running /\ dispatching.action = "submit" /\ e = SubmissionEvent
  BY <1>4, ReceiptsCount DEF SubmissionEvent, Running, TypeOK, Archived
<1>5. CASE Running /\ dispatching.action = "opinion" /\ e = OpinionEvent
  BY <1>5 DEF OpinionEvent, Running, TypeOK, Archived
<1>6. CASE Running /\ e = ResultEvent
  BY <1>6 DEF ResultEvent, Running, TypeOK
<1>7. CASE /\ recorder = "open" /\ e = FinishEvent
           /\ report.phase = IF HasCandidate THEN "evaluating" ELSE "stopped"
  BY <1>7 DEF FinishEvent, TypeOK
<1>8. CASE recorder = "recovering" /\ e = Event("recovered", 0, None, None)
  BY <1>8 DEF TypeOK
<1> QED
  BY <1>1, <1>2, <1>3, <1>4, <1>5, <1>6, <1>7, <1>8 DEF Pending

-----------------------------------------------------------------------------
\* What holds of the journal after a write, whole, partial or without effect.
GrowsByOne(e) ==
  /\ lines' = lines \/ lines' = Append(lines, e)
  /\ tail' \in Events \cup {None}

\* A write adds at most its own event.
LEMMA WriteGrows ==
  ASSUME IInv, Writable, NEW e \in Pending, PartlyWritten(e) \/ Written(e)
  PROVE  GrowsByOne(e) /\ sequence = Len(lines) /\ tail = None
<1>1. e \in Events /\ recorder \in {"open", "recovering"}
  BY PendingEvent DEF IInv
<1>2. tail = None /\ sequence = Len(lines)
  BY <1>1 DEF IInv, InStep
<1>3. Line(e) = e
  BY <1>2 DEF Line
<1> QED
  BY <1>1, <1>2, <1>3 DEF PartlyWritten, Written, GrowsByOne

\* The part of the invariant that only reads the journal survives its growth.
LEMMA GrowthKeeps ==
  ASSUME IInv, Writable, NEW e \in Pending, GrowsByOne(e), sequence = Len(lines)
  PROVE  /\ lines' \in Seq(Events) /\ Numbered'
         /\ \A i \in DOMAIN lines : i \in DOMAIN lines' /\ lines'[i] = lines[i]
         /\ \A i \in DOMAIN lines' : lines'[i].content # None => lines'[i].content \in artifacts
         /\ \A i \in DOMAIN lines' : lines'[i].kind = "finished" =>
              i = Len(lines') /\ report.phase # "running" /\ recorder = "open"
         /\ report.phase # "finished"
         /\ report' = report /\ lines' # lines => Log!Extend
<1>1. /\ e \in Events /\ e.sequence = Len(lines) + 1
      /\ e.content # None => e.content \in artifacts
      /\ e.kind = "finished" => report.phase # "running" /\ recorder = "open"
      /\ recorder \in {"open", "recovering"}
  BY PendingEvent DEF IInv
<1>2. lines \in Seq(Events) /\ Numbered
  BY DEF IInv, TypeOK
<1>3. /\ \A i \in DOMAIN lines : lines[i].kind # "finished"
      /\ report.phase # "finished"
  <2>1. \A i \in DOMAIN lines : lines[i].kind # "finished"
    BY <1>1 DEF IInv, Sealing, Writable
  <2>2. lines # <<>> => Len(lines) \in DOMAIN lines
    BY <1>2
  <2> QED
    BY <2>1, <2>2 DEF IInv, Sealing
<1>4. \A i \in DOMAIN lines : lines[i].content # None => lines[i].content \in artifacts
  BY DEF IInv, EvidenceKept
<1>5. CASE lines' = lines
  BY <1>2, <1>3, <1>4, <1>5 DEF Numbered
<1>6. CASE lines' = Append(lines, e)
  <2>1. /\ lines' \in Seq(Events) /\ Len(lines') = Len(lines) + 1
        /\ DOMAIN lines = 1 .. Len(lines) /\ DOMAIN lines' = 1 .. Len(lines) + 1
        /\ \A i \in 1 .. Len(lines) : lines'[i] = lines[i]
        /\ lines'[Len(lines) + 1] = e
        /\ Len(lines) \in Nat
    BY <1>1, <1>2, <1>6
  <2>2. Numbered'
    BY <1>1, <1>2, <2>1 DEF Numbered
  <2>3. \A i \in DOMAIN lines' : lines'[i].content # None => lines'[i].content \in artifacts
    BY <1>1, <1>4, <2>1
  <2>4. \A i \in DOMAIN lines' : lines'[i].kind = "finished" =>
          i = Len(lines') /\ report.phase # "running" /\ recorder = "open"
    BY <1>1, <1>3, <2>1
  <2>5. report' = report => Log!Extend
    BY <1>1, <1>3, <2>1 DEF Log!Extend
  <2> QED
    BY <1>3, <1>6, <2>1, <2>2, <2>3, <2>4, <2>5
<1> QED
  BY <1>5, <1>6 DEF GrowsByOne

-----------------------------------------------------------------------------
\* An event recorded in full keeps everything but the types.
LEMMA RecordKeeps ==
  ASSUME IInv, NEW e \in Pending, Record(e), UNCHANGED <<artifacts, report>>,
         recorder' \in {recorder, "open", "finishing"},
         recorder' = "finishing" <=> e.kind = "finished",
         dispatching'.action \in {"submit", "opinion"} => dispatching' = dispatching,
         e.kind = "submission" => told' \subseteq told \cup {Receipt(e)},
         e.kind # "submission" => told' = told
  PROVE  /\ Numbered' /\ InStep' /\ Archived' /\ Sealing'
         /\ EvidenceKept' /\ SealBindsJournal'
<1>1. Writable /\ Written(e) /\ sequence' = sequence + 1 /\ error' = error
  BY DEF Record
<1>2. GrowsByOne(e) /\ sequence = Len(lines) /\ tail = None
  BY <1>1, WriteGrows
<1>3. lines' = Append(lines, e) /\ tail' = None
  BY <1>1, <1>2 DEF Written, Line
<1>4. e \in Events /\ lines \in Seq(Events) /\ recorder \in {"open", "recovering"}
  BY PendingEvent DEF IInv, TypeOK
<1>5. /\ lines' \in Seq(Events) /\ Len(lines') = Len(lines) + 1 /\ Len(lines) \in Nat
      /\ DOMAIN lines' = 1 .. Len(lines') /\ lines'[Len(lines')] = e /\ lines' # <<>>
  BY <1>3, <1>4
<1>6. /\ Numbered'
      /\ \A i \in DOMAIN lines : i \in DOMAIN lines' /\ lines'[i] = lines[i]
      /\ \A i \in DOMAIN lines' : lines'[i].content # None => lines'[i].content \in artifacts
      /\ \A i \in DOMAIN lines' : lines'[i].kind = "finished" =>
           i = Len(lines') /\ report.phase # "running" /\ recorder = "open"
      /\ report.phase # "finished"
  BY <1>1, <1>2, GrowthKeeps
<1>7. InStep'
  BY <1>1, <1>2, <1>3, <1>5 DEF InStep
<1>8. Archived'
  BY DEF IInv, Archived
<1>9. Sealing'
  <2>1. recorder' \in {"salvaging", "recovering"} => report'.phase = "running"
    BY DEF IInv, Sealing
  <2>2. recorder' = "finishing" => lines' # <<>> /\ lines'[Len(lines')].kind = "finished"
    BY <1>5
  <2>3. \A i \in DOMAIN lines' : lines'[i].kind = "finished" => recorder' = "finishing"
    BY <1>5, <1>6
  <2> QED
    BY <1>6, <2>1, <2>2, <2>3 DEF Sealing
<1>10. EvidenceKept'
  <2>1. \A receipt \in told : \E i \in DOMAIN lines' :
          lines'[i].kind = "submission" /\ Receipt(lines'[i]) = receipt
    BY <1>6 DEF IInv, EvidenceKept
  <2>2. e.kind = "submission" =>
          \E i \in DOMAIN lines' : lines'[i].kind = "submission" /\ Receipt(lines'[i]) = Receipt(e)
    <3>1. Len(lines') \in DOMAIN lines'
      BY <1>5
    <3> QED
      BY <1>5, <3>1
  <2>3. \A receipt \in told' : \E i \in DOMAIN lines' :
          lines'[i].kind = "submission" /\ Receipt(lines'[i]) = receipt
    BY <2>1, <2>2
  <2> QED
    BY <1>6, <2>3 DEF EvidenceKept
<1>11. SealBindsJournal'
  BY <1>6 DEF SealBindsJournal
<1> QED
  BY <1>6, <1>7, <1>8, <1>9, <1>10, <1>11

\* So does a write that is cut off by an error, or by the process's end.
LEMMA CutOffKeeps ==
  ASSUME IInv,
         UNCHANGED <<lines, tail>> \/ (Writable /\ \E e \in Pending : PartlyWritten(e)),
         UNCHANGED <<artifacts, report, told>>,
         \/ error' = TRUE /\ UNCHANGED <<recorder, dispatching>>
         \/ recorder' = "none" /\ dispatching' = NoRequest
  PROVE  /\ Numbered' /\ InStep' /\ Archived' /\ Sealing'
         /\ EvidenceKept' /\ SealBindsJournal'
<1>1. InStep'
  BY DEF InStep, Writable
<1>2. Archived'
  BY DEF IInv, Archived, NoRequest
<1>3. CASE lines' = lines
  <2>1. Numbered' /\ EvidenceKept' /\ SealBindsJournal'
    BY <1>3 DEF IInv, Numbered, EvidenceKept, SealBindsJournal
  <2>2. Sealing'
    BY <1>3 DEF IInv, Sealing
  <2> QED
    BY <1>1, <1>2, <2>1, <2>2
<1>4. CASE Writable /\ \E e \in Pending : PartlyWritten(e)
  <2>1. PICK e \in Pending : PartlyWritten(e)
    BY <1>4
  <2>2. GrowsByOne(e) /\ sequence = Len(lines)
    BY <1>4, <2>1, WriteGrows
  <2>3. recorder \in {"open", "recovering"}
    BY PendingEvent DEF IInv
  <2>4. /\ Numbered'
        /\ \A i \in DOMAIN lines : i \in DOMAIN lines' /\ lines'[i] = lines[i]
        /\ \A i \in DOMAIN lines' : lines'[i].content # None => lines'[i].content \in artifacts
        /\ \A i \in DOMAIN lines' : lines'[i].kind = "finished" =>
             i = Len(lines') /\ report.phase # "running" /\ recorder = "open"
        /\ report.phase # "finished"
    BY <1>4, <2>2, GrowthKeeps
  <2>5. EvidenceKept'
    <3>1. \A receipt \in told : \E i \in DOMAIN lines' :
            lines'[i].kind = "submission" /\ Receipt(lines'[i]) = receipt
      BY <2>4 DEF IInv, EvidenceKept
    <3> QED
      BY <2>4, <3>1 DEF EvidenceKept
  <2>6. SealBindsJournal'
    BY <2>4 DEF SealBindsJournal
  <2>7. Sealing'
    BY <2>3, <2>4 DEF IInv, Sealing
  <2> QED
    BY <1>1, <1>2, <2>4, <2>5, <2>6, <2>7
<1> QED
  BY <1>3, <1>4

\* The log a write extends, seen from a whole step.
LEMMA WriteExtends ==
  ASSUME IInv, Writable, NEW e \in Pending, PartlyWritten(e) \/ Written(e), report' = report
  PROVE  lines' \in Seq(Events) /\ tail' \in Events \cup {None} /\ [Log!Next]_(Log!content)
<1>1. GrowsByOne(e) /\ sequence = Len(lines)
  BY WriteGrows
<1>2. lines' \in Seq(Events) /\ (lines' # lines => Log!Extend)
  BY <1>1, GrowthKeeps
<1> QED
  BY <1>1, <1>2 DEF GrowsByOne, Log!Next, Log!content

-----------------------------------------------------------------------------
\* The next report has the report's type, and the phase it is saved in.
LEMMA NextReportsType ==
  ASSUME TypeOK, NEW r \in NextReports
  PROVE  /\ r \in [phase : Phases, bound : Seq(Events) \cup {None}]
         /\ r.phase # "running"
         /\ recorder = "finishing" => r = [phase |-> "finished", bound |-> lines]
         /\ recorder # "finishing" =>
              recorder = "open" /\ report.phase # "finished" /\ r.phase # "finished"
<1>1. CASE recorder = "finishing"
  <2>1. r = [phase |-> "finished", bound |-> lines]
    BY <1>1 DEF NextReports, Idle, Running
  <2>2. lines \in Seq(Events)
    BY DEF TypeOK
  <2> QED
    BY <1>1, <2>1, <2>2 DEF Phases
<1>2. CASE recorder # "finishing"
  <2>1. \/ Idle /\ r = [report EXCEPT !.phase = "stopped"]
        \/ recorder = "open" /\ report.phase = "stopped" /\ r = [report EXCEPT !.phase = "evaluating"]
    BY <1>2 DEF NextReports
  <2> QED
    BY <1>2, <2>1 DEF TypeOK, Phases, Idle, Running
<1> QED
  BY <1>1, <1>2

\* What may be in dispatch.
Requests == [action : {"none", "submit", "opinion", "check"},
             key : Keys \cup {None}, content : Contents \cup {None}]

\* An event recorded in full keeps the types if the protocol's memory does.
LEMMA RecordType ==
  ASSUME IInv, NEW e \in Pending, Record(e), report' = report, recorder' \in Recorders,
         IsFiniteSet(DOMAIN submissions'), checks' \in Nat, results' \subseteq Nat,
         opinions' \in Nat, dispatching' \in Requests
  PROVE  TypeOK'
<1>1. Writable /\ Written(e) /\ sequence' = sequence + 1 /\ UNCHANGED <<error, crashes, faults>>
  BY DEF Record
<1>2. lines' \in Seq(Events) /\ tail' \in Events \cup {None}
  BY <1>1, WriteExtends
<1>3. /\ report' \in [phase : Phases, bound : Seq(Events) \cup {None}]
      /\ error' \in BOOLEAN /\ sequence' \in Nat /\ crashes' \in Nat /\ faults' \in Nat
  BY <1>1 DEF IInv, TypeOK
<1> QED
  BY <1>2, <1>3 DEF TypeOK, Requests

\* A receipt more leaves the receipts finitely many.
LEMMA PublishType ==
  ASSUME TypeOK, NEW e, Publish(e)
  PROVE  IsFiniteSet(DOMAIN submissions')
<1>1. DOMAIN submissions' = DOMAIN submissions \cup {e.sequence}
  BY DEF Publish
<1>2. IsFiniteSet(DOMAIN submissions)
  BY DEF TypeOK
<1> QED
  BY <1>1, <1>2, FS_AddElement

\* Serving a request keeps the invariant.
LEMMA ServeKeeps ==
  ASSUME IInv, Serve
  PROVE  IInv'
<1>0. /\ TypeOK /\ recorder \in Recorders /\ IsFiniteSet(DOMAIN submissions) /\ checks \in Nat
      /\ results \subseteq Nat /\ opinions \in Nat /\ dispatching \in Requests
  BY DEF IInv, TypeOK, Requests
<1>1. NoRequest \in Requests /\ NoRequest.action = "none"
  BY DEF NoRequest, Requests
<1>2. CASE Note
  <2>1. NoteEvent \in Pending /\ NoteEvent.kind = "note"
    BY <1>2 DEF Note, Pending, NoteEvent, Event
  <2>2. recorder = "open" /\ Record(NoteEvent)
    BY <1>2 DEF Note, Running
  <2>3. TypeOK'
    <3>1. UNCHANGED <<report, recorder, submissions, checks, results, opinions, dispatching>>
      BY <1>2 DEF Note, protocol
    <3> QED
      BY <1>0, <2>1, <2>2, <3>1, RecordType
  <2>4. Numbered' /\ InStep' /\ Archived' /\ Sealing' /\ EvidenceKept' /\ SealBindsJournal'
    <3>1. UNCHANGED <<artifacts, report, recorder, dispatching, told>>
      BY <1>2 DEF Note
    <3> QED
      BY <2>1, <2>2, <3>1, RecordKeeps
  <2> QED
    BY <2>3, <2>4 DEF IInv
<1>3. CASE Submit
  <2>1. SubmissionEvent \in Pending /\ SubmissionEvent.kind = "submission"
    BY <1>3 DEF Submit, Pending, SubmissionEvent, Event
  <2>2. recorder = "open" /\ Record(SubmissionEvent)
    BY <1>3 DEF Submit, Running
  <2>3. TypeOK'
    <3>1. UNCHANGED <<report, recorder, checks, results, opinions>> /\ dispatching' = NoRequest
      BY <1>3 DEF Submit
    <3>2. IsFiniteSet(DOMAIN submissions')
      BY <1>0, <1>3, PublishType DEF Submit
    <3> QED
      BY <1>0, <1>1, <2>1, <2>2, <3>1, <3>2, RecordType
  <2>4. Numbered' /\ InStep' /\ Archived' /\ Sealing' /\ EvidenceKept' /\ SealBindsJournal'
    <3>1. /\ UNCHANGED <<artifacts, report, recorder>> /\ dispatching' = NoRequest
          /\ told' = told \cup {Receipt(SubmissionEvent)}
      BY <1>3 DEF Submit
    <3> QED
      BY <1>1, <2>1, <2>2, <3>1, RecordKeeps
  <2> QED
    BY <2>3, <2>4 DEF IInv
<1>4. CASE Reject
  <2>1. RejectionEvent \in Pending /\ RejectionEvent.kind = "submission"
    BY <1>4 DEF Reject, Pending, RejectionEvent, Event
  <2>2. recorder = "open" /\ Record(RejectionEvent)
    BY <1>4 DEF Reject, Running
  <2>3. UNCHANGED <<artifacts, report, recorder, checks, results, opinions, told>>
        /\ dispatching' = NoRequest
    BY <1>4 DEF Reject
  <2>4. TypeOK'
    <3>1. IsFiniteSet(DOMAIN submissions')
      BY <1>0, <1>4, PublishType DEF Reject
    <3> QED
      BY <1>0, <1>1, <2>1, <2>2, <2>3, <3>1, RecordType
  <2>5. Numbered' /\ InStep' /\ Archived' /\ Sealing' /\ EvidenceKept' /\ SealBindsJournal'
    BY <1>1, <2>1, <2>2, <2>3, RecordKeeps
  <2> QED
    BY <2>4, <2>5 DEF IInv
<1>5. CASE Opinion
  <2>1. OpinionEvent \in Pending /\ OpinionEvent.kind = "opinion"
    BY <1>5 DEF Opinion, Pending, OpinionEvent, Event
  <2>2. recorder = "open" /\ Record(OpinionEvent)
    BY <1>5 DEF Opinion, Running
  <2>3. UNCHANGED <<artifacts, report, recorder, submissions, checks, results, told>>
        /\ dispatching' = NoRequest /\ opinions' = opinions + 1
    BY <1>5 DEF Opinion
  <2>4. TypeOK'
    BY <1>0, <1>1, <2>1, <2>2, <2>3, RecordType
  <2>5. Numbered' /\ InStep' /\ Archived' /\ Sealing' /\ EvidenceKept' /\ SealBindsJournal'
    BY <1>1, <2>1, <2>2, <2>3, RecordKeeps
  <2> QED
    BY <2>4, <2>5 DEF IInv
<1>6. CASE OpinionMissed
  <2>1. NoteEvent \in Pending /\ NoteEvent.kind = "note"
    BY <1>6 DEF OpinionMissed, Pending, NoteEvent, Event
  <2>2. recorder = "open" /\ Record(NoteEvent)
    BY <1>6 DEF OpinionMissed, Running
  <2>3. UNCHANGED <<artifacts, report, recorder, submissions, checks, results, opinions, told>>
        /\ dispatching' = NoRequest
    BY <1>6 DEF OpinionMissed, protocol
  <2>4. TypeOK'
    BY <1>0, <1>1, <2>1, <2>2, <2>3, RecordType
  <2>5. Numbered' /\ InStep' /\ Archived' /\ Sealing' /\ EvidenceKept' /\ SealBindsJournal'
    BY <1>1, <2>1, <2>2, <2>3, RecordKeeps
  <2> QED
    BY <2>4, <2>5 DEF IInv
<1>7. CASE CheckRequest
  <2>1. CheckEvent \in Pending /\ CheckEvent.kind = "check"
    BY <1>7 DEF CheckRequest, Pending, CheckEvent, Event
  <2>2. recorder = "open" /\ Record(CheckEvent)
    BY <1>7 DEF CheckRequest, Idle, Running
  <2>3. UNCHANGED <<artifacts, report, recorder, submissions, results, opinions, told>>
        /\ checks' = checks + 1
    BY <1>7 DEF CheckRequest
  <2>4. dispatching' \in Requests /\ dispatching'.action = "check"
    BY <1>7 DEF CheckRequest, NoRequest, Requests
  <2>5. TypeOK'
    BY <1>0, <2>1, <2>2, <2>3, <2>4, RecordType
  <2>6. Numbered' /\ InStep' /\ Archived' /\ Sealing' /\ EvidenceKept' /\ SealBindsJournal'
    BY <2>1, <2>2, <2>3, <2>4, RecordKeeps
  <2> QED
    BY <2>5, <2>6 DEF IInv
<1>8. CASE CheckResult
  <2>1. ResultEvent \in Pending /\ ResultEvent.kind = "result"
    BY <1>8 DEF CheckResult, Pending, ResultEvent, Event
  <2>2. recorder = "open" /\ Record(ResultEvent)
    BY <1>8 DEF CheckResult, Running
  <2>3. UNCHANGED <<artifacts, report, recorder, submissions, checks, opinions, told>>
        /\ dispatching' = NoRequest /\ results' = results \cup {checks}
    BY <1>8 DEF CheckResult
  <2>4. TypeOK'
    <3>1. results' \subseteq Nat
      BY <1>0, <2>3
    <3> QED
      BY <1>0, <1>1, <2>1, <2>2, <2>3, <3>1, RecordType
  <2>5. Numbered' /\ InStep' /\ Archived' /\ Sealing' /\ EvidenceKept' /\ SealBindsJournal'
    BY <1>1, <2>1, <2>2, <2>3, RecordKeeps
  <2> QED
    BY <2>4, <2>5 DEF IInv
<1>9. ASSUME NEW action \in {"submit", "opinion"}, NEW key \in Keys \cup {None},
             NEW content \in Contents, Freeze(action, key, content)
      PROVE  IInv'
  <2>1. /\ UNCHANGED <<lines, tail, report, recorder, error, sequence, submissions, checks,
                       results, opinions, told, crashes, faults>>
        /\ artifacts' = artifacts \cup {content}
        /\ dispatching' = [action |-> action, key |-> key, content |-> content]
    BY <1>9 DEF Freeze, protocol, history
  <2>2. TypeOK'
    BY <1>0, <2>1 DEF TypeOK, Requests
  <2>3. Archived'
    BY <2>1 DEF Archived
  <2>4. Numbered' /\ InStep' /\ Sealing' /\ EvidenceKept' /\ SealBindsJournal'
    BY <2>1 DEF IInv, Numbered, InStep, Writable, Sealing, EvidenceKept, SealBindsJournal
  <2> QED
    BY <2>2, <2>3, <2>4 DEF IInv
<1> QED
  BY <1>2, <1>3, <1>4, <1>5, <1>6, <1>7, <1>8, <1>9 DEF Serve

\* The end of a run keeps the invariant: nothing follows its last event, to
\* which the report is bound.
LEMMA EndKeeps ==
  ASSUME IInv, End
  PROVE  IInv'
<1>0. /\ TypeOK /\ recorder \in Recorders /\ IsFiniteSet(DOMAIN submissions) /\ checks \in Nat
      /\ results \subseteq Nat /\ opinions \in Nat /\ dispatching \in Requests
  BY DEF IInv, TypeOK, Requests
<1>1. CASE Save
  <2>1. /\ UNCHANGED <<lines, tail, artifacts, recorder, error, sequence, submissions, checks,
                       results, opinions, dispatching, told, crashes, faults>>
        /\ recorder = "open" /\ report' \in NextReports
    BY <1>1 DEF Save, memory, protocol, history
  <2>2. /\ report' \in [phase : Phases, bound : Seq(Events) \cup {None}]
        /\ report'.phase \notin {"running", "finished"}
    BY <1>0, <2>1, NextReportsType
  <2>3. TypeOK'
    BY <1>0, <2>1, <2>2 DEF TypeOK
  <2>4. Sealing'
    BY <2>1, <2>2 DEF IInv, Sealing
  <2>5. SealBindsJournal'
    BY <2>1, <2>2 DEF IInv, SealBindsJournal
  <2>6. Numbered' /\ InStep' /\ Archived' /\ EvidenceKept'
    BY <2>1 DEF IInv, Numbered, InStep, Writable, Archived, EvidenceKept
  <2> QED
    BY <2>3, <2>4, <2>5, <2>6 DEF IInv
<1>2. CASE FinishRecords
  <2>1. FinishEvent \in Pending /\ FinishEvent.kind = "finished"
    BY <1>2 DEF FinishRecords, Pending, FinishEvent, Event
  <2>2. /\ Record(FinishEvent) /\ recorder' = "finishing"
        /\ UNCHANGED <<artifacts, report, submissions, checks, results, opinions, dispatching, told>>
    BY <1>2 DEF FinishRecords, protocol
  <2>3. TypeOK'
    <3>1. recorder' \in Recorders
      BY <2>2 DEF Recorders
    <3> QED
      BY <1>0, <2>1, <2>2, <3>1, RecordType
  <2>4. Numbered' /\ InStep' /\ Archived' /\ Sealing' /\ EvidenceKept' /\ SealBindsJournal'
    BY <2>1, <2>2, RecordKeeps
  <2> QED
    BY <2>3, <2>4 DEF IInv
<1>3. CASE FinishSaves
  <2>1. /\ UNCHANGED <<lines, tail, artifacts, error, sequence, submissions, checks,
                       results, opinions, dispatching, told, crashes, faults>>
        /\ recorder = "finishing" /\ recorder' = "closed" /\ report' \in NextReports
    BY <1>3 DEF FinishSaves, protocol, history
  <2>2. /\ report' \in [phase : Phases, bound : Seq(Events) \cup {None}]
        /\ report' = [phase |-> "finished", bound |-> lines]
    BY <1>0, <2>1, NextReportsType
  <2>3. TypeOK'
    BY <1>0, <2>1, <2>2 DEF TypeOK, Recorders
  <2>4. lines # <<>> /\ lines[Len(lines)].kind = "finished"
    BY <2>1 DEF IInv, Sealing
  <2>5. Sealing' /\ SealBindsJournal'
    BY <2>1, <2>2, <2>4 DEF IInv, Sealing, SealBindsJournal
  <2>6. Numbered' /\ InStep' /\ Archived' /\ EvidenceKept'
    BY <2>1 DEF IInv, Numbered, InStep, Writable, Archived, EvidenceKept
  <2> QED
    BY <2>3, <2>5, <2>6 DEF IInv
<1> QED
  BY <1>1, <1>2, <1>3 DEF End

\* A failed write or save, or the end of the process, keeps the invariant.
LEMMA FailureKeeps ==
  ASSUME IInv, (\E e \in Pending : WriteFails(e)) \/ SaveFails \/ Crash
  PROVE  IInv'
<1>0. /\ TypeOK /\ recorder \in Recorders /\ IsFiniteSet(DOMAIN submissions) /\ checks \in Nat
      /\ results \subseteq Nat /\ opinions \in Nat /\ crashes \in Nat /\ faults \in Nat
      /\ lines \in Seq(Events) /\ tail \in Events \cup {None} /\ dispatching \in Requests
  BY DEF IInv, TypeOK, Requests
<1>1. ASSUME NEW e \in Pending, WriteFails(e)
      PROVE  IInv'
  <2>1. /\ Writable /\ PartlyWritten(e) /\ error' = TRUE /\ faults' = faults + 1
        /\ UNCHANGED <<artifacts, report, recorder, sequence, submissions, checks, results,
                       opinions, dispatching, told, crashes>>
    BY <1>1 DEF WriteFails, Fault, protocol
  <2>2. lines' \in Seq(Events) /\ tail' \in Events \cup {None}
    BY <2>1, WriteExtends
  <2>3. TypeOK'
    BY <1>0, <2>1, <2>2 DEF TypeOK
  <2>4. Numbered' /\ InStep' /\ Archived' /\ Sealing' /\ EvidenceKept' /\ SealBindsJournal'
    BY <2>1, CutOffKeeps
  <2> QED
    BY <2>3, <2>4 DEF IInv
<1>2. CASE SaveFails
  <2>1. /\ report' \in {report} \cup NextReports /\ error' = TRUE /\ faults' = faults + 1
        /\ UNCHANGED <<lines, tail, artifacts, recorder, sequence, submissions, checks, results,
                       opinions, dispatching, told, crashes>>
    BY <1>2 DEF SaveFails, Fault, protocol
  <2>2. CASE report' = report
    <3>1. TypeOK'
      BY <1>0, <2>1, <2>2 DEF TypeOK
    <3>2. Numbered' /\ InStep' /\ Archived' /\ Sealing' /\ EvidenceKept' /\ SealBindsJournal'
      <4>1. /\ UNCHANGED <<lines, tail>> /\ UNCHANGED <<artifacts, report, told>>
            /\ error' = TRUE /\ UNCHANGED <<recorder, dispatching>>
        BY <2>1, <2>2
      <4> QED
        BY <4>1, CutOffKeeps
    <3> QED
      BY <3>1, <3>2 DEF IInv
  <2>3. CASE report' \in NextReports
    <3>1. /\ report' \in [phase : Phases, bound : Seq(Events) \cup {None}]
          /\ report'.phase # "running"
          /\ recorder = "finishing" => report' = [phase |-> "finished", bound |-> lines]
          /\ recorder # "finishing" => recorder = "open" /\ report'.phase # "finished"
      BY <1>0, <2>3, NextReportsType
    <3>2. TypeOK'
      BY <1>0, <2>1, <3>1 DEF TypeOK
    <3>3. Sealing'
      BY <2>1, <3>1 DEF IInv, Sealing
    <3>4. SealBindsJournal'
      <4>1. recorder = "finishing" => lines[Len(lines)].kind = "finished"
        BY DEF IInv, Sealing
      <4> QED
        BY <2>1, <3>1, <4>1 DEF IInv, SealBindsJournal
    <3>5. Numbered' /\ InStep' /\ Archived' /\ EvidenceKept'
      BY <2>1 DEF IInv, Numbered, InStep, Writable, Archived, EvidenceKept
    <3> QED
      BY <3>2, <3>3, <3>4, <3>5 DEF IInv
  <2> QED
    BY <2>1, <2>2, <2>3
<1>3. CASE Crash
  <2>1. UNCHANGED <<lines, tail>> \/ (Writable /\ \E e \in Pending : PartlyWritten(e))
    <3>1. \/ UNCHANGED <<lines, tail>>
          \/ Writable /\ Len(lines) < MaxEvents /\ \E e \in Pending : PartlyWritten(e)
      BY <1>3 DEF Crash
    <3> QED
      BY <3>1
  <2>2. /\ recorder' = "none" /\ error' = FALSE /\ sequence' = 0
        /\ dispatching' = NoRequest /\ crashes' = crashes + 1 /\ faults' = faults
    BY <1>3 DEF Crash
  <2>3. UNCHANGED <<artifacts, report, told>> /\ Restore(<<>>)
    BY <1>3 DEF Crash
  <2>4. lines' \in Seq(Events) /\ tail' \in Events \cup {None}
    <3>1. CASE UNCHANGED <<lines, tail>>
      BY <1>0, <3>1
    <3>2. CASE Writable /\ \E e \in Pending : PartlyWritten(e)
      BY <2>3, <3>2, WriteExtends
    <3> QED
      BY <2>1, <3>1, <3>2
  <2>5. /\ IsFiniteSet(DOMAIN submissions') /\ checks' \in Nat
        /\ results' \subseteq Nat /\ opinions' \in Nat
    <3>1. <<>> \in Seq(Events)
      OBVIOUS
    <3> QED
      BY <2>3, <3>1, RestoreType
  <2>6. TypeOK'
    <3>1. NoRequest \in Requests /\ "none" \in Recorders
      BY DEF NoRequest, Requests, Recorders
    <3>2. report' \in [phase : Phases, bound : Seq(Events) \cup {None}]
      BY <1>0, <2>3 DEF TypeOK
    <3>3. sequence' \in Nat /\ crashes' \in Nat /\ faults' \in Nat
      BY <1>0, <2>2
    <3>4. recorder' \in Recorders /\ error' \in BOOLEAN /\ dispatching' \in Requests
      BY <2>2, <3>1
    <3> QED
      BY <2>4, <2>5, <3>2, <3>3, <3>4 DEF TypeOK, Requests
  <2>7. Numbered' /\ InStep' /\ Archived' /\ Sealing' /\ EvidenceKept' /\ SealBindsJournal'
    BY <2>1, <2>2, <2>3, CutOffKeeps
  <2> QED
    BY <2>6, <2>7 DEF IInv
<1> QED
  BY <1>1, <1>2, <1>3

\* Resuming a run keeps the invariant: the journal is in step again before
\* anything is written.
LEMMA RestartKeeps ==
  ASSUME IInv, Restart
  PROVE  IInv'
<1>0. /\ TypeOK /\ IsFiniteSet(DOMAIN submissions) /\ checks \in Nat
      /\ results \subseteq Nat /\ opinions \in Nat /\ dispatching \in Requests
      /\ lines \in Seq(Events) /\ Len(lines) \in Nat
      /\ {"open", "salvaging", "recovering"} \subseteq Recorders
  BY DEF IInv, TypeOK, Requests, Recorders
<1>1. CASE Resume
  <2>1. /\ UNCHANGED <<lines, tail, artifacts, report, error, dispatching, told, crashes, faults>>
        /\ recorder = "none" /\ report.phase = "running" /\ tail = None
        /\ recorder' = "open" /\ sequence' = Len(lines) /\ Restore(lines)
    BY <1>1 DEF Resume, Resumable, disk, history
  <2>2. TypeOK'
    <3>1. /\ IsFiniteSet(DOMAIN submissions') /\ checks' \in Nat
          /\ results' \subseteq Nat /\ opinions' \in Nat
      BY <1>0, <2>1, RestoreType
    <3>2. recorder' \in Recorders /\ sequence' \in Nat
      BY <1>0, <2>1
    <3> QED
      BY <1>0, <2>1, <3>1, <3>2 DEF TypeOK
  <2>3. Sealing'
    BY <2>1 DEF IInv, Sealing
  <2>4. Numbered' /\ InStep' /\ Archived' /\ EvidenceKept' /\ SealBindsJournal'
    BY <2>1 DEF IInv, Numbered, InStep, Archived, EvidenceKept, SealBindsJournal
  <2> QED
    BY <2>2, <2>3, <2>4 DEF IInv
<1>2. CASE ResumeArchives
  <2>1. /\ UNCHANGED <<lines, tail, report, error, submissions, checks, results, opinions,
                       dispatching, told, crashes, faults>>
        /\ artifacts' = artifacts \cup {tail}
        /\ recorder = "none" /\ report.phase = "running"
        /\ recorder' = "salvaging" /\ sequence' = Len(lines)
    BY <1>2 DEF ResumeArchives, Resumable, protocol, history
  <2>2. TypeOK'
    <3>1. recorder' \in Recorders /\ sequence' \in Nat
      BY <1>0, <2>1
    <3> QED
      BY <1>0, <2>1, <3>1 DEF TypeOK
  <2>3. Sealing'
    BY <2>1 DEF IInv, Sealing
  <2>4. Numbered' /\ InStep' /\ Archived' /\ EvidenceKept' /\ SealBindsJournal'
    BY <2>1 DEF IInv, Numbered, InStep, Archived, EvidenceKept, SealBindsJournal
  <2> QED
    BY <2>2, <2>3, <2>4 DEF IInv
<1>3. CASE ResumeTruncates
  <2>1. /\ UNCHANGED <<lines, artifacts, report, error, sequence, submissions, checks, results,
                       opinions, dispatching, told, crashes, faults>>
        /\ tail' = None /\ recorder = "salvaging" /\ recorder' = "recovering"
    BY <1>3 DEF ResumeTruncates, protocol, history
  <2>2. TypeOK'
    <3>1. recorder' \in Recorders /\ tail' \in Events \cup {None}
      BY <1>0, <2>1
    <3> QED
      BY <1>0, <2>1, <3>1 DEF TypeOK
  <2>3. Sealing' /\ InStep'
    BY <2>1 DEF IInv, Sealing, InStep, Writable
  <2>4. Numbered' /\ Archived' /\ EvidenceKept' /\ SealBindsJournal'
    BY <2>1 DEF IInv, Numbered, Archived, EvidenceKept, SealBindsJournal
  <2> QED
    BY <2>2, <2>3, <2>4 DEF IInv
<1>4. CASE ResumeRecords
  <2> DEFINE e == Event("recovered", 0, None, None)
  <2>1. e \in Pending /\ e.kind = "recovered"
    BY <1>4 DEF ResumeRecords, Pending, Event
  <2> HIDE DEF e
  <2>2. /\ Record(e) /\ recorder' = "open" /\ Restore(lines')
        /\ UNCHANGED <<artifacts, report, dispatching, told>>
    BY <1>4 DEF ResumeRecords, e
  <2>3. TypeOK'
    <3>1. lines' \in Seq(Events)
      BY <2>1, <2>2, WriteExtends DEF Record
    <3>2. /\ IsFiniteSet(DOMAIN submissions') /\ checks' \in Nat
          /\ results' \subseteq Nat /\ opinions' \in Nat
      BY <2>2, <3>1, RestoreType
    <3> QED
      BY <1>0, <2>1, <2>2, <3>2, RecordType
  <2>4. Numbered' /\ InStep' /\ Archived' /\ Sealing' /\ EvidenceKept' /\ SealBindsJournal'
    BY <2>1, <2>2, RecordKeeps
  <2> QED
    BY <2>3, <2>4 DEF IInv
<1> QED
  BY <1>1, <1>2, <1>3, <1>4 DEF Restart

-----------------------------------------------------------------------------
\* A new run satisfies the invariant.
LEMMA InitHolds ==
  ASSUME Init
  PROVE  IInv
<1>1. lines = <<>> /\ <<>> \in Seq(Events) /\ DOMAIN lines = {} /\ Len(lines) = 0
  BY DEF Init
<1>2. IsFiniteSet(DOMAIN submissions) /\ checks \in Nat /\ results \subseteq Nat /\ opinions \in Nat
  <2>1. DOMAIN submissions = {}
    BY DEF Init, Receipts, Positions
  <2> QED
    BY <2>1, FS_EmptySet DEF Init
<1>3. TypeOK
  BY <1>1, <1>2 DEF Init, TypeOK, Phases, Recorders, NoRequest
<1>4. Numbered /\ InStep /\ Archived /\ Sealing /\ EvidenceKept /\ SealBindsJournal
  BY <1>1 DEF Init, Numbered, InStep, Archived, Sealing, EvidenceKept, SealBindsJournal, NoRequest
<1> QED
  BY <1>3, <1>4 DEF IInv

\* Every step keeps it.
LEMMA NextKeeps ==
  ASSUME IInv, [Next]_vars
  PROVE  IInv'
<1>1. CASE Next
  BY <1>1, ServeKeeps, EndKeeps, FailureKeeps, RestartKeeps DEF Next
<1>2. CASE UNCHANGED vars
  <2>1. UNCHANGED <<lines, tail, artifacts, report, recorder, error, sequence, submissions, checks,
                    results, opinions, dispatching, told, crashes, faults>>
    BY <1>2 DEF vars, disk, memory, protocol, history
  <2>2. TypeOK'
    BY <2>1 DEF IInv, TypeOK
  <2>3. Numbered' /\ InStep' /\ Archived' /\ Sealing' /\ EvidenceKept' /\ SealBindsJournal'
    BY <2>1 DEF IInv, Numbered, InStep, Writable, Archived, Sealing, EvidenceKept, SealBindsJournal
  <2> QED
    BY <2>2, <2>3 DEF IInv
<1> QED
  BY <1>1, <1>2

THEOREM JournalInvariant == Spec => []IInv
<1>1. Init => IInv
  BY InitHolds
<1>2. IInv /\ [Next]_vars => IInv'
  BY NextKeeps
<1> QED
  BY <1>1, <1>2, PTL DEF Spec

\* The recorder's and the protocol's variables keep their types: no line of
\* the journal is ever garbage, whatever write was cut off before.
THEOREM JournalTypeOK == Spec => []TypeOK
<1>1. IInv => TypeOK
  BY DEF IInv
<1> QED
  BY <1>1, JournalInvariant, PTL

\* Every receipt a client may have seen has its event in the journal, and no
\* event of the journal refers to a content that is not archived.
THEOREM EvidenceIsKept == Spec => []EvidenceKept
<1>1. IInv => EvidenceKept
  BY DEF IInv
<1> QED
  BY <1>1, JournalInvariant, PTL

\* The finished report is bound to the journal as it stays.
THEOREM SealIsBound == Spec => []SealBindsJournal
<1>1. IInv => SealBindsJournal
  BY DEF IInv
<1> QED
  BY <1>1, JournalInvariant, PTL

-----------------------------------------------------------------------------
\* A step is one of the log's, or leaves the log alone.
LEMMA StepIsLogged ==
  ASSUME IInv, Next
  PROVE  [Log!Next]_(Log!content)
<1> USE DEF Log!content
<1>0. TypeOK
  BY DEF IInv
<1>1. ASSUME NEW e \in Pending, Record(e), report' = report
      PROVE  [Log!Next]_(Log!content)
  BY <1>1, WriteExtends DEF Record
<1>2. CASE Serve
  <2>1. CASE Note
    BY <1>1, <2>1 DEF Note, Pending
  <2>2. CASE Submit
    BY <1>1, <2>2 DEF Submit, Pending
  <2>3. CASE Reject
    BY <1>1, <2>3 DEF Reject, Pending
  <2>4. CASE Opinion
    BY <1>1, <2>4 DEF Opinion, Pending
  <2>5. CASE OpinionMissed
    BY <1>1, <2>5 DEF OpinionMissed, Pending
  <2>6. CASE CheckRequest
    BY <1>1, <2>6 DEF CheckRequest, Pending
  <2>7. CASE CheckResult
    BY <1>1, <2>7 DEF CheckResult, Pending
  <2>8. ASSUME NEW action, NEW key, NEW content, Freeze(action, key, content)
        PROVE  UNCHANGED <<lines, report>>
    BY <2>8 DEF Freeze
  <2> QED
    BY <1>2, <2>1, <2>2, <2>3, <2>4, <2>5, <2>6, <2>7, <2>8 DEF Serve
<1>3. CASE End
  <2>1. CASE Save
    <3>1. lines' = lines /\ recorder = "open" /\ report' \in NextReports
      BY <2>1 DEF Save
    <3>2. report.phase # "finished" /\ report'.phase # "finished"
      BY <1>0, <3>1, NextReportsType
    <3> QED
      BY <3>1, <3>2
  <2>2. CASE FinishRecords
    BY <1>1, <2>2 DEF FinishRecords, Pending
  <2>3. CASE FinishSaves
    <3>1. lines' = lines /\ recorder = "finishing" /\ report' \in NextReports
      BY <2>3 DEF FinishSaves
    <3>2. report'.phase = "finished"
      BY <1>0, <3>1, NextReportsType
    <3> QED
      BY <3>1, <3>2 DEF Log!Next, Log!Seal
  <2> QED
    BY <1>3, <2>1, <2>2, <2>3 DEF End
<1>4. ASSUME NEW e \in Pending, WriteFails(e)
      PROVE  [Log!Next]_(Log!content)
  BY <1>4, WriteExtends DEF WriteFails
<1>5. CASE SaveFails
  <2>1. lines' = lines /\ report' \in {report} \cup NextReports
    BY <1>5 DEF SaveFails
  <2>2. CASE report' = report
    BY <2>1, <2>2
  <2>3. CASE report' \in NextReports
    <3>1. \/ report'.phase = "finished"
          \/ report.phase # "finished" /\ report'.phase # "finished"
      BY <1>0, <2>3, NextReportsType
    <3> QED
      BY <2>1, <3>1 DEF Log!Next, Log!Seal
  <2> QED
    BY <2>1, <2>2, <2>3
<1>6. CASE Crash
  <2>1. report' = report
    BY <1>6 DEF Crash
  <2>2. \/ UNCHANGED <<lines, tail>>
        \/ Writable /\ Len(lines) < MaxEvents /\ \E e \in Pending : PartlyWritten(e)
    BY <1>6 DEF Crash
  <2>3. CASE UNCHANGED <<lines, tail>>
    BY <2>1, <2>3
  <2>4. CASE Writable /\ \E e \in Pending : PartlyWritten(e)
    BY <2>1, <2>4, WriteExtends
  <2> QED
    BY <2>2, <2>3, <2>4
<1>7. CASE Restart
  <2>1. CASE Resume
    BY <2>1 DEF Resume, disk
  <2>2. CASE ResumeArchives
    BY <2>2 DEF ResumeArchives
  <2>3. CASE ResumeTruncates
    BY <2>3 DEF ResumeTruncates
  <2>4. CASE ResumeRecords
    BY <1>1, <2>4 DEF ResumeRecords, Pending
  <2> QED
    BY <1>7, <2>1, <2>2, <2>3, <2>4 DEF Restart
<1> QED
  BY <1>2, <1>3, <1>4, <1>5, <1>6, <1>7 DEF Next

\* The journal implements the append-only log: whatever fails or is cut off,
\* no event is lost, changed, misnumbered or added to a finished run.
THEOREM JournalImplementsLog == Spec => ImplementsLog
<1>1. Init => Log!Init
  BY DEF Init, Log!Init
<1>2. IInv /\ [Next]_vars => [Log!Next]_(Log!content)
  <2>1. ASSUME UNCHANGED vars
        PROVE  UNCHANGED Log!content
    BY <2>1 DEF vars, disk, Log!content
  <2> QED
    BY <2>1, StepIsLogged
<1> QED
  BY <1>1, <1>2, JournalInvariant, PTL DEF Spec, ImplementsLog, Log!Spec

-----------------------------------------------------------------------------
(* The numbers of the receipts, the checks and the opinions.  Submissions   *)
(* and opinions are counted, so none of them has a number above its count;  *)
(* checks are numbered without a gap, and a result answers a check.         *)

Counting ==
  /\ \A kind \in {"submission", "opinion"} : \A n \in Numbers(lines, kind) :
       n <= Cardinality(Positions(lines, kind))
  /\ Numbers(lines, "check") = 1 .. Greatest(Numbers(lines, "check"))
  /\ Numbers(lines, "result") \subseteq Numbers(lines, "check")

\* A check in dispatch has its event and no result yet.
Checking ==
  dispatching.action = "check" =>
    /\ recorder \notin {"none", "salvaging", "recovering"}
    /\ recorder = "open" /\ ~error => checks \in Numbers(lines, "check") \ Numbers(lines, "result")

NumbersInv == IInv /\ PublishedIsJournalled /\ NumbersNotReused /\ Counting /\ Checking

LEMMA GreatestOfInterval ==
  ASSUME NEW n \in Nat
  PROVE  Greatest(1 .. n) = n
<1>1. CASE n = 0
  BY <1>1 DEF Greatest
<1>2. CASE n # 0
  <2>1. n \in 1 .. n /\ \A m \in 1 .. n : m <= n
    BY <1>2
  <2>2. \A k \in 1 .. n : (\A m \in 1 .. n : m <= k) => k = n
    BY <2>1
  <2> QED
    BY <2>1, <2>2 DEF Greatest
<1> QED
  BY <1>1, <1>2

\* An event takes its place in the journal, and its number among its kind's.
LEMMA JournalGrows ==
  ASSUME NEW journal \in Seq(Events), NEW e \in Events, NEW kind
  PROVE  /\ Positions(Append(journal, e), kind) =
              Positions(journal, kind) \cup (IF e.kind = kind THEN {Len(journal) + 1} ELSE {})
         /\ Numbers(Append(journal, e), kind) =
              Numbers(journal, kind) \cup (IF e.kind = kind THEN {e.number} ELSE {})
         /\ Cardinality(Positions(Append(journal, e), kind)) =
              Cardinality(Positions(journal, kind)) + (IF e.kind = kind THEN 1 ELSE 0)
<1> DEFINE longer == Append(journal, e)
<1>1. /\ DOMAIN journal = 1 .. Len(journal) /\ DOMAIN longer = 1 .. Len(journal) + 1
      /\ Len(journal) \in Nat
      /\ \A i \in 1 .. Len(journal) : longer[i] = journal[i]
      /\ longer[Len(journal) + 1] = e
  OBVIOUS
<1> HIDE DEF longer
<1>2. Positions(longer, kind) =
        Positions(journal, kind) \cup (IF e.kind = kind THEN {Len(journal) + 1} ELSE {})
  BY <1>1 DEF Positions
<1>3. Len(journal) + 1 \notin Positions(journal, kind)
  BY <1>1 DEF Positions
<1>4. \A i \in Positions(journal, kind) : longer[i] = journal[i]
  BY <1>1 DEF Positions
<1>5. Numbers(longer, kind) =
        Numbers(journal, kind) \cup (IF e.kind = kind THEN {e.number} ELSE {})
  BY <1>1, <1>2, <1>4 DEF Numbers
<1>6. Cardinality(Positions(longer, kind)) =
        Cardinality(Positions(journal, kind)) + (IF e.kind = kind THEN 1 ELSE 0)
  <2>1. IsFiniteSet(Positions(journal, kind)) /\ Cardinality(Positions(journal, kind)) \in Nat
    BY PositionsFinite, FS_CardinalityType
  <2>2. CASE e.kind = kind
    BY <1>2, <1>3, <2>1, <2>2, FS_AddElement
  <2>3. CASE e.kind # kind
    BY <1>2, <2>1, <2>3
  <2> QED
    BY <2>2, <2>3
<1> QED
  BY <1>2, <1>5, <1>6 DEF longer

\* Numbers of events are natural numbers, and the greatest of them is one.
LEMMA NumbersType ==
  ASSUME NEW journal \in Seq(Events), NEW kind
  PROVE  Numbers(journal, kind) \subseteq Nat /\ Greatest(Numbers(journal, kind)) \in Nat
<1>1. \A i \in DOMAIN journal : journal[i] \in Events
  OBVIOUS
<1>2. Numbers(journal, kind) \subseteq Nat
  BY <1>1 DEF Numbers, Positions, Events
<1> QED
  BY <1>2 DEF Greatest

\* The next event of a kind has a number none before it has.
LEMMA NumberIsNew ==
  ASSUME NumbersInv, Writable, NEW e \in Pending
  PROVE  \/ e.number = 0 /\ e.kind \notin {"check", "result", "opinion"}
         \/ /\ e.kind \in {"submission", "opinion"}
            /\ e.number = Cardinality(Positions(lines, e.kind)) + 1
         \/ e.kind = "check" /\ e.number = Greatest(Numbers(lines, "check")) + 1
         \/ e.kind = "result" /\ e.number \in Numbers(lines, "check") \ Numbers(lines, "result")
<1>1. recorder = "open" =>
        /\ Cardinality(DOMAIN submissions) = Cardinality(Positions(lines, "submission"))
        /\ checks = Greatest(Numbers(lines, "check"))
        /\ opinions = Cardinality(Positions(lines, "opinion"))
  BY DEF NumbersInv, PublishedIsJournalled, Receipts, Writable
<1>2. CASE e \in {NoteEvent, RejectionEvent, FinishEvent, Event("recovered", 0, None, None)}
  BY <1>2 DEF NoteEvent, RejectionEvent, FinishEvent, Event
<1>3. CASE recorder = "open" /\ e = SubmissionEvent
  BY <1>1, <1>3 DEF SubmissionEvent, Event
<1>4. CASE recorder = "open" /\ e = OpinionEvent
  BY <1>1, <1>4 DEF OpinionEvent, Event
<1>5. CASE recorder = "open" /\ e = CheckEvent
  BY <1>1, <1>5 DEF CheckEvent, Event
<1>6. CASE recorder = "open" /\ dispatching.action = "check" /\ e = ResultEvent
  BY <1>6 DEF ResultEvent, Event, NumbersInv, Checking, Writable
<1> QED
  BY <1>2, <1>3, <1>4, <1>5, <1>6 DEF Pending, Running, Idle

\* Behind the new event the numbers are counted as before.
LEMMA GrowthCounts ==
  ASSUME NumbersInv, Writable, NEW e \in Pending, lines' = Append(lines, e)
  PROVE  NumbersNotReused' /\ Counting'
<1>1. /\ e \in Events /\ lines \in Seq(Events)
  BY PendingEvent DEF NumbersInv, IInv, TypeOK
<1>2. \A kind : /\ Numbers(lines, kind) \subseteq Nat /\ Greatest(Numbers(lines, kind)) \in Nat
                /\ Cardinality(Positions(lines, kind)) \in Nat
  BY <1>1, NumbersType, PositionsFinite, FS_CardinalityType
<1>3. e.number # 0 => e.number \notin Numbers(lines, e.kind)
  BY <1>2, NumberIsNew DEF NumbersInv, Counting
<1>4. NumbersNotReused'
  <2> SUFFICES ASSUME NEW i \in DOMAIN lines', NEW j \in DOMAIN lines', i < j,
                      lines'[i].kind = lines'[j].kind, lines'[i].number = lines'[j].number
               PROVE  lines'[i].number = 0
    <3>1. DOMAIN lines' \subseteq Nat
      BY <1>1
    <3> QED
      BY <3>1 DEF NumbersNotReused
  <2>1. /\ DOMAIN lines = 1 .. Len(lines) /\ DOMAIN lines' = 1 .. Len(lines) + 1
        /\ Len(lines) \in Nat /\ lines'[Len(lines) + 1] = e
        /\ \A k \in 1 .. Len(lines) : lines'[k] = lines[k]
    BY <1>1
  <2>2. i \in DOMAIN lines /\ lines'[i] = lines[i]
    BY <2>1
  <2>3. CASE j = Len(lines) + 1
    BY <1>3, <2>1, <2>2, <2>3 DEF Numbers, Positions
  <2>4. CASE j # Len(lines) + 1
    BY <2>1, <2>2, <2>4 DEF NumbersInv, NumbersNotReused
  <2> QED
    BY <2>3, <2>4
<1>5. \A kind : /\ Numbers(lines', kind) =
                     Numbers(lines, kind) \cup (IF e.kind = kind THEN {e.number} ELSE {})
                /\ Cardinality(Positions(lines', kind)) =
                     Cardinality(Positions(lines, kind)) + (IF e.kind = kind THEN 1 ELSE 0)
  BY <1>1, JournalGrows
<1>6. ASSUME NEW kind \in {"submission", "opinion"}, NEW n \in Numbers(lines', kind)
      PROVE  n <= Cardinality(Positions(lines', kind))
  BY <1>2, <1>5, NumberIsNew DEF NumbersInv, Counting
<1>7. Numbers(lines', "check") = 1 .. Greatest(Numbers(lines', "check"))
  <2>1. PICK c \in Nat : c = Greatest(Numbers(lines, "check"))
    BY <1>2
  <2>2. Numbers(lines, "check") = 1 .. c
    BY <2>1 DEF NumbersInv, Counting
  <2>3. \/ Numbers(lines', "check") = 1 .. c
        \/ Numbers(lines', "check") = (1 .. c) \cup {c + 1}
    BY <1>5, <2>1, <2>2, NumberIsNew
  <2>4. (1 .. c) \cup {c + 1} = 1 .. c + 1 /\ c + 1 \in Nat
    OBVIOUS
  <2>5. PICK d \in Nat : Numbers(lines', "check") = 1 .. d
    BY <2>3, <2>4
  <2>6. Greatest(Numbers(lines', "check")) = d
    BY <2>5, GreatestOfInterval
  <2> QED
    BY <2>5, <2>6
<1>8. Numbers(lines', "result") \subseteq Numbers(lines', "check")
  BY <1>5, NumberIsNew DEF NumbersInv, Counting
<1> QED
  BY <1>4, <1>6, <1>7, <1>8 DEF Counting

\* Where the journal rests, or a write may have added one event.
LEMMA WritesCount ==
  ASSUME NumbersInv,
         \/ lines' = lines
         \/ Writable /\ \E e \in Pending : PartlyWritten(e) \/ Written(e)
  PROVE  NumbersNotReused' /\ Counting'
<1>1. CASE lines' = lines
  BY <1>1 DEF NumbersInv, NumbersNotReused, Counting
<1>2. ASSUME Writable, NEW e \in Pending, PartlyWritten(e) \/ Written(e)
      PROVE  NumbersNotReused' /\ Counting'
  <2>1. lines' = lines \/ lines' = Append(lines, e)
    BY <1>2, WriteGrows DEF NumbersInv, GrowsByOne
  <2> QED
    BY <1>1, <1>2, <2>1, GrowthCounts
<1> QED
  BY <1>1, <1>2

-----------------------------------------------------------------------------
\* An event recorded by the control loop, or by a thread, is published.
LEMMA RecordPublishes ==
  ASSUME NumbersInv, recorder = "open", NEW e \in Pending, Record(e),
         e.kind = "submission" => Publish(e),
         e.kind # "submission" => submissions' = submissions,
         checks' = IF e.kind = "check" THEN checks + 1 ELSE checks,
         results' = IF e.kind = "result" THEN results \cup {e.number} ELSE results,
         opinions' = IF e.kind = "opinion" THEN opinions + 1 ELSE opinions
  PROVE  PublishedIsJournalled' /\ lines' = Append(lines, e)
<1>1. /\ Writable /\ sequence = Len(lines) /\ lines' = Append(lines, e)
  <2>1. Writable /\ Written(e)
    BY DEF Record
  <2>2. tail = None /\ sequence = Len(lines)
    BY <2>1, WriteGrows DEF NumbersInv
  <2> QED
    BY <2>1, <2>2 DEF Written, Line
<1>2. e \in Events /\ e.sequence = Len(lines) + 1 /\ lines \in Seq(Events)
  BY <1>1, PendingEvent DEF NumbersInv, IInv, TypeOK
<1>3. /\ submissions = Receipts(lines) /\ checks = Greatest(Numbers(lines, "check"))
      /\ results = Numbers(lines, "result")
      /\ opinions = Cardinality(Positions(lines, "opinion"))
  BY <1>1 DEF NumbersInv, PublishedIsJournalled, Writable
<1>4. \A kind : /\ Positions(lines', kind) =
                     Positions(lines, kind) \cup (IF e.kind = kind THEN {Len(lines) + 1} ELSE {})
                /\ Numbers(lines', kind) =
                     Numbers(lines, kind) \cup (IF e.kind = kind THEN {e.number} ELSE {})
                /\ Cardinality(Positions(lines', kind)) =
                     Cardinality(Positions(lines, kind)) + (IF e.kind = kind THEN 1 ELSE 0)
  BY <1>1, <1>2, JournalGrows
<1>5. submissions' = Receipts(lines')
  <2>1. /\ DOMAIN lines = 1 .. Len(lines) /\ Len(lines) \in Nat /\ lines'[Len(lines) + 1] = e
        /\ \A k \in 1 .. Len(lines) : lines'[k] = lines[k]
    BY <1>1, <1>2
  <2>2. Positions(lines, "submission") \subseteq 1 .. Len(lines)
    BY <2>1 DEF Positions
  <2>3. CASE e.kind = "submission"
    <3>1. submissions' = [i \in DOMAIN submissions \cup {e.sequence} |->
                            IF i = e.sequence THEN Receipt(e) ELSE submissions[i]]
      BY <2>3 DEF Publish
    <3>2. DOMAIN submissions = Positions(lines, "submission")
      BY <1>3 DEF Receipts
    <3>3. Positions(lines', "submission") = DOMAIN submissions \cup {e.sequence}
      BY <1>2, <1>4, <2>3, <3>2
    <3>4. \A i \in DOMAIN submissions : submissions[i] = Receipt(lines'[i]) /\ i # e.sequence
      BY <1>2, <1>3, <2>1, <2>2, <3>2 DEF Receipts
    <3>5. lines'[e.sequence] = e
      BY <1>2, <2>1
    <3> QED
      BY <3>1, <3>3, <3>4, <3>5 DEF Receipts
  <2>4. CASE e.kind # "submission"
    <3>1. Positions(lines', "submission") = Positions(lines, "submission")
      BY <1>4, <2>4
    <3>2. \A i \in Positions(lines, "submission") : Receipt(lines'[i]) = Receipt(lines[i])
      BY <2>1, <2>2
    <3> QED
      BY <1>3, <2>4, <3>1, <3>2 DEF Receipts
  <2> QED
    BY <2>3, <2>4
<1>6. checks' = Greatest(Numbers(lines', "check"))
  <2>1. CASE e.kind = "check"
    <3>1. PICK c \in Nat : c = checks
      BY DEF NumbersInv, IInv, TypeOK
    <3>2. Numbers(lines, "check") = 1 .. c /\ e.number = c + 1
      BY <1>1, <1>3, <2>1, <3>1, NumberIsNew DEF NumbersInv, Counting
    <3>3. Numbers(lines', "check") = 1 .. c + 1 /\ c + 1 \in Nat
      <4>1. Numbers(lines', "check") = (1 .. c) \cup {c + 1}
        BY <1>4, <2>1, <3>2
      <4>2. ASSUME NEW n \in Nat
            PROVE  (1 .. n) \cup {n + 1} = 1 .. n + 1 /\ n + 1 \in Nat
        OBVIOUS
      <4> QED
        BY <4>1, <4>2
    <3> QED
      BY <2>1, <3>1, <3>3, GreatestOfInterval
  <2>2. CASE e.kind # "check"
    BY <1>3, <1>4, <2>2
  <2> QED
    BY <2>1, <2>2
<1>7. results' = Numbers(lines', "result")
  BY <1>3, <1>4
<1>8. opinions' = Cardinality(Positions(lines', "opinion"))
  <2>1. opinions \in Nat
    BY DEF NumbersInv, IInv, TypeOK
  <2> QED
    BY <1>3, <1>4, <2>1
<1> QED
  BY <1>1, <1>5, <1>6, <1>7, <1>8 DEF PublishedIsJournalled

\* A step of a session in service.
LEMMA ServePublishes ==
  ASSUME NumbersInv, Serve
  PROVE  PublishedIsJournalled' /\ NumbersNotReused' /\ Counting' /\ Checking'
<1>0. IInv
  BY DEF NumbersInv
<1>1. CASE \E action \in {"submit", "opinion"}, key \in Keys \cup {None}, content \in Contents :
             Freeze(action, key, content)
  <2>1. /\ UNCHANGED <<lines, recorder, error, protocol>> /\ dispatching'.action # "check"
    BY <1>1 DEF Freeze
  <2> QED
    BY <2>1, WritesCount DEF NumbersInv, PublishedIsJournalled, protocol, Checking
\* Every other step records an event and leaves the check alone, but for
\* the check's own.
<1>2. ASSUME NEW e \in Pending, Record(e), recorder = "open", recorder' = recorder,
             e.kind = "submission" => Publish(e),
             e.kind # "submission" => submissions' = submissions,
             checks' = IF e.kind = "check" THEN checks + 1 ELSE checks,
             results' = IF e.kind = "result" THEN results \cup {e.number} ELSE results,
             opinions' = IF e.kind = "opinion" THEN opinions + 1 ELSE opinions,
             \/ dispatching'.action # "check"
             \/ e.kind = "check"
             \/ dispatching' = dispatching /\ e.kind \notin {"check", "result"}
      PROVE  PublishedIsJournalled' /\ NumbersNotReused' /\ Counting' /\ Checking'
  <2>1. PublishedIsJournalled' /\ lines' = Append(lines, e)
    BY <1>2, RecordPublishes
  <2>2. Writable /\ error' = error
    BY <1>2 DEF Record
  <2>3. NumbersNotReused' /\ Counting'
    BY <2>1, <2>2, GrowthCounts
  <2>4. Checking'
    <3>1. e \in Events /\ lines \in Seq(Events)
      BY PendingEvent, <1>0 DEF IInv, TypeOK
    <3>2. \A kind : Numbers(lines', kind) =
                      Numbers(lines, kind) \cup (IF e.kind = kind THEN {e.number} ELSE {})
      BY <2>1, <3>1, JournalGrows
    <3>3. CASE e.kind = "check"
      <4>1. checks = Greatest(Numbers(lines, "check")) /\ checks \in Nat
        BY <1>2, <2>2, <1>0 DEF NumbersInv, PublishedIsJournalled, Writable, IInv, TypeOK
      <4>2. e.number = checks + 1 /\ checks' = checks + 1
        BY <1>2, <2>2, <3>3, <4>1, NumberIsNew
      <4>3. Numbers(lines, "result") \subseteq 1 .. checks
        BY <4>1 DEF NumbersInv, Counting
      <4>4. checks' \in Numbers(lines', "check") /\ checks' \notin Numbers(lines', "result")
        BY <3>2, <3>3, <4>1, <4>2, <4>3
      <4> QED
        BY <1>2, <4>4 DEF Checking
    <3>4. CASE dispatching' = dispatching /\ e.kind \notin {"check", "result"}
      BY <1>2, <2>2, <3>2, <3>4 DEF NumbersInv, Checking, Writable
    <3> QED
      BY <1>2, <3>3, <3>4 DEF Checking
  <2> QED
    BY <2>1, <2>3, <2>4
<1>3. CASE Note
  <2>1. /\ NoteEvent \in Pending /\ Record(NoteEvent) /\ recorder = "open" /\ NoteEvent.kind = "note"
        /\ UNCHANGED <<recorder, protocol, dispatching>>
    BY <1>3 DEF Note, Running, Pending, NoteEvent, Event
  <2> QED
    BY <1>2, <2>1 DEF protocol
<1>4. CASE Submit
  <2>1. /\ SubmissionEvent \in Pending /\ Record(SubmissionEvent) /\ recorder = "open"
        /\ SubmissionEvent.kind = "submission" /\ Publish(SubmissionEvent)
        /\ UNCHANGED <<recorder, checks, results, opinions>> /\ dispatching'.action # "check"
    BY <1>4 DEF Submit, Running, Pending, SubmissionEvent, Event, NoRequest
  <2> QED
    BY <1>2, <2>1
<1>5. CASE Reject
  <2>1. /\ RejectionEvent \in Pending /\ Record(RejectionEvent) /\ recorder = "open"
        /\ RejectionEvent.kind = "submission" /\ Publish(RejectionEvent)
        /\ UNCHANGED <<recorder, checks, results, opinions>> /\ dispatching'.action # "check"
    BY <1>5 DEF Reject, Running, Pending, RejectionEvent, Event, NoRequest
  <2> QED
    BY <1>2, <2>1
<1>6. CASE Opinion
  <2>1. /\ OpinionEvent \in Pending /\ Record(OpinionEvent) /\ recorder = "open"
        /\ OpinionEvent.kind = "opinion" /\ opinions' = opinions + 1
        /\ UNCHANGED <<recorder, submissions, checks, results>> /\ dispatching'.action # "check"
    BY <1>6 DEF Opinion, Running, Pending, OpinionEvent, Event, NoRequest
  <2> QED
    BY <1>2, <2>1
<1>7. CASE OpinionMissed
  <2>1. /\ NoteEvent \in Pending /\ Record(NoteEvent) /\ recorder = "open" /\ NoteEvent.kind = "note"
        /\ UNCHANGED <<recorder, protocol>> /\ dispatching'.action # "check"
    BY <1>7 DEF OpinionMissed, Running, Pending, NoteEvent, Event, NoRequest
  <2> QED
    BY <1>2, <2>1 DEF protocol
<1>8. CASE CheckRequest
  <2>1. /\ CheckEvent \in Pending /\ Record(CheckEvent) /\ recorder = "open"
        /\ CheckEvent.kind = "check" /\ checks' = checks + 1
        /\ UNCHANGED <<recorder, submissions, results, opinions>>
    BY <1>8 DEF CheckRequest, Idle, Running, Pending, CheckEvent, Event
  <2> QED
    BY <1>2, <2>1
<1>9. CASE CheckResult
  <2>1. /\ ResultEvent \in Pending /\ Record(ResultEvent) /\ recorder = "open"
        /\ ResultEvent.kind = "result" /\ ResultEvent.number = checks /\ results' = results \cup {checks}
        /\ UNCHANGED <<recorder, submissions, checks, opinions>> /\ dispatching'.action # "check"
    BY <1>9 DEF CheckResult, Running, Pending, ResultEvent, Event, NoRequest
  <2> QED
    BY <1>2, <2>1
<1> QED
  BY <1>1, <1>3, <1>4, <1>5, <1>6, <1>7, <1>8, <1>9 DEF Serve

\* Every other step: the end of the run, failures, crashes and restarts.
LEMMA OthersPublish ==
  ASSUME NumbersInv,
         \/ End \/ SaveFails \/ Crash \/ Restart \/ UNCHANGED vars
         \/ \E e \in Pending : WriteFails(e)
  PROVE  PublishedIsJournalled' /\ NumbersNotReused' /\ Counting' /\ Checking'
<1>1. CASE Save \/ FinishSaves \/ SaveFails \/ UNCHANGED vars
  <2>1. /\ UNCHANGED <<lines, protocol, dispatching>>
        /\ recorder' \in {recorder, "closed"} /\ (error' = error \/ error' = TRUE)
    BY <1>1 DEF Save, FinishSaves, SaveFails, memory, vars, disk
  <2> QED
    BY <2>1, WritesCount DEF NumbersInv, PublishedIsJournalled, protocol, Checking
<1>2. CASE FinishRecords
  <2>1. /\ FinishEvent \in Pending /\ Writable /\ Written(FinishEvent) /\ recorder' = "finishing"
        /\ UNCHANGED dispatching
    BY <1>2 DEF FinishRecords, Pending, Record
  <2> QED
    BY <2>1, WritesCount DEF NumbersInv, PublishedIsJournalled, Checking
<1>3. ASSUME NEW e \in Pending, WriteFails(e)
      PROVE  PublishedIsJournalled' /\ NumbersNotReused' /\ Counting' /\ Checking'
  <2>1. Writable /\ PartlyWritten(e) /\ error' = TRUE /\ UNCHANGED <<recorder, dispatching>>
    BY <1>3 DEF WriteFails
  <2> QED
    BY <2>1, WritesCount DEF NumbersInv, PublishedIsJournalled, Checking
<1>4. CASE Crash
  <2>1. /\ recorder' = "none" /\ dispatching' = NoRequest
        /\ lines' = lines \/ (Writable /\ \E e \in Pending : PartlyWritten(e))
    BY <1>4 DEF Crash
  <2> QED
    BY <2>1, WritesCount DEF PublishedIsJournalled, Checking, NoRequest
<1>5. CASE Resume
  <2>1. UNCHANGED <<lines, dispatching>> /\ recorder = "none" /\ recorder' = "open" /\ Restore(lines)
    BY <1>5 DEF Resume, Resumable, disk
  <2>2. PublishedIsJournalled' /\ Checking'
    BY <2>1 DEF NumbersInv, Restore, PublishedIsJournalled, Checking
  <2> QED
    BY <2>1, <2>2, WritesCount
<1>6. CASE ResumeArchives \/ ResumeTruncates
  <2>1. /\ UNCHANGED <<lines, dispatching>> /\ recorder \in {"none", "salvaging"}
        /\ recorder' \in {"salvaging", "recovering"}
    BY <1>6 DEF ResumeArchives, ResumeTruncates, Resumable
  <2> QED
    BY <2>1, WritesCount DEF NumbersInv, PublishedIsJournalled, Checking
<1>7. CASE ResumeRecords
  <2>1. /\ Event("recovered", 0, None, None) \in Pending /\ Writable
        /\ Written(Event("recovered", 0, None, None))
        /\ recorder = "recovering" /\ dispatching' = dispatching /\ Restore(lines')
    BY <1>7 DEF ResumeRecords, Pending, Record
  <2>2. PublishedIsJournalled' /\ Checking'
    BY <2>1 DEF NumbersInv, Restore, PublishedIsJournalled, Checking
  <2> QED
    BY <2>1, <2>2, WritesCount
<1> QED
  BY <1>1, <1>2, <1>3, <1>4, <1>5, <1>6, <1>7 DEF End, Restart

LEMMA NumbersStart ==
  ASSUME Init
  PROVE  NumbersInv
<1>1. IInv
  BY InitHolds
<1>2. /\ lines = <<>> /\ dispatching = NoRequest /\ submissions = Receipts(<<>>)
      /\ checks = 0 /\ results = {} /\ opinions = 0
  BY DEF Init
<1>3. \A kind : Positions(<<>>, kind) = {} /\ Numbers(<<>>, kind) = {}
  BY DEF Positions, Numbers
<1>4. Greatest({}) = 0 /\ Cardinality({}) = 0 /\ 1 .. 0 = {}
  BY FS_EmptySet DEF Greatest
<1>5. PublishedIsJournalled
  BY <1>2, <1>3, <1>4 DEF PublishedIsJournalled
<1>6. NumbersNotReused
  BY <1>2 DEF NumbersNotReused
<1>7. Counting /\ Checking
  BY <1>2, <1>3, <1>4 DEF Counting, Checking, NoRequest
<1> QED
  BY <1>1, <1>5, <1>6, <1>7 DEF NumbersInv

\* The protocol's memory agrees with the journal, and the numbers in the
\* journal are counted without a gap or a repetition, through torn lines,
\* failed writes, crashes and resumed runs (journal.py, protocol.py).
THEOREM NumbersInvariant == Spec => []NumbersInv
<1>1. Init => NumbersInv
  BY NumbersStart
<1>2. NumbersInv /\ [Next]_vars => NumbersInv'
  <2> SUFFICES ASSUME NumbersInv, [Next]_vars
               PROVE  NumbersInv'
    OBVIOUS
  <2>1. IInv'
    BY NextKeeps DEF NumbersInv
  <2>2. PublishedIsJournalled' /\ NumbersNotReused' /\ Counting' /\ Checking'
    BY ServePublishes, OthersPublish DEF Next
  <2> QED
    BY <2>1, <2>2 DEF NumbersInv
<1> QED
  BY <1>1, <1>2, PTL DEF Spec

\* What the protocol answers from is what it would rebuild from the journal:
\* a crash never changes an answer (protocol.py: dispatch, restore).
THEOREM ProtocolIsJournalled == Spec => []PublishedIsJournalled
<1>1. NumbersInv => PublishedIsJournalled
  BY DEF NumbersInv
<1> QED
  BY <1>1, NumbersInvariant, PTL

\* No number of a receipt, a check, its result or an opinion is given twice,
\* also when a crash came between a check and its result (protocol.py).
THEOREM NumbersStayUnique == Spec => []NumbersNotReused
<1>1. NumbersInv => NumbersNotReused
  BY DEF NumbersInv
<1> QED
  BY <1>1, NumbersInvariant, PTL

-----------------------------------------------------------------------------
\* What a salvage is about to cut off is in the archive.
Salvaged == recorder = "salvaging" => tail \in artifacts

\* A write leaves a torn line alone: whoever may write has none before it.
LEMMA TailStays ==
  ASSUME IInv, Writable, NEW e \in Pending, PartlyWritten(e) \/ Written(e)
  PROVE  tail = None /\ recorder # "salvaging"
BY WriteGrows, PendingEvent DEF IInv

\* A torn line leaves the journal only once it is archived.
LEMMA TailStep ==
  ASSUME IInv, Salvaged, [Next]_vars
  PROVE  Salvaged' /\ (tail # None /\ tail' # tail => tail \in artifacts')
<1>1. ASSUME NEW e \in Pending, Record(e), recorder' \in {recorder, "open", "finishing"}
      PROVE  Salvaged' /\ tail = None
  BY <1>1, TailStays DEF Record, Salvaged
<1>2. CASE Serve
  <2>1. CASE \E action \in {"submit", "opinion"}, key \in Keys \cup {None}, content \in Contents :
               Freeze(action, key, content)
    BY <2>1 DEF Freeze, Salvaged
  <2>2. CASE Note \/ OpinionMissed
    BY <1>1, <2>2 DEF Note, OpinionMissed, Pending, Running
  <2>3. CASE Submit \/ Reject
    BY <1>1, <2>3 DEF Submit, Reject, Pending, Running
  <2>4. CASE Opinion
    BY <1>1, <2>4 DEF Opinion, Pending, Running
  <2>5. CASE CheckRequest \/ CheckResult
    BY <1>1, <2>5 DEF CheckRequest, CheckResult, Pending, Running
  <2> QED
    BY <1>2, <2>1, <2>2, <2>3, <2>4, <2>5 DEF Serve
<1>3. CASE End
  <2>1. CASE Save \/ FinishSaves
    BY <2>1 DEF Save, FinishSaves, memory, Salvaged
  <2>2. CASE FinishRecords
    BY <1>1, <2>2 DEF FinishRecords, Pending
  <2> QED
    BY <1>3, <2>1, <2>2 DEF End
<1>4. ASSUME NEW e \in Pending, WriteFails(e)
      PROVE  Salvaged' /\ tail = None
  BY <1>4, TailStays DEF WriteFails, Salvaged
<1>5. CASE SaveFails
  BY <1>5 DEF SaveFails, Salvaged
<1>6. CASE Crash
  <2>1. recorder' = "none"
    BY <1>6 DEF Crash
  <2>2. tail' = tail \/ (Writable /\ \E e \in Pending : PartlyWritten(e))
    BY <1>6 DEF Crash
  <2> QED
    BY <2>1, <2>2, TailStays DEF Salvaged
<1>7. CASE Restart
  <2>1. CASE Resume
    BY <2>1 DEF Resume, disk, Salvaged
  <2>2. CASE ResumeArchives
    BY <2>2 DEF ResumeArchives, Salvaged
  <2>3. CASE ResumeTruncates
    BY <2>3 DEF ResumeTruncates, Salvaged
  <2>4. CASE ResumeRecords
    BY <1>1, <2>4 DEF ResumeRecords, Pending
  <2> QED
    BY <1>7, <2>1, <2>2, <2>3, <2>4 DEF Restart
<1>8. CASE UNCHANGED vars
  BY <1>8 DEF vars, disk, memory, Salvaged
<1> QED
  BY <1>2, <1>3, <1>4, <1>5, <1>6, <1>7, <1>8 DEF Next

\* The torn end of a journal is never dropped: it goes from the journal only
\* into the archive, however often a salvage is cut off (journal.py: resume).
THEOREM TornTailArchived == Spec => TailArchived
<1>1. Init => Salvaged
  BY DEF Init, Salvaged
<1>2. IInv /\ Salvaged /\ [Next]_vars =>
        Salvaged' /\ [tail # None /\ tail' # tail => tail \in artifacts']_vars
  BY TailStep
<1> QED
  BY <1>1, <1>2, JournalInvariant, PTL DEF Spec, TailArchived

-----------------------------------------------------------------------------
(* The batch whose runs are journaled, for every Dataset, list of conditions,*)
(* choice of cases and history of records: the published core, what was     *)
(* planned, one record of each case, and no directory of two                *)

Plans == INSTANCE BatchPlans

\* The size of a set is the same in each module.
LEMMA SizesAgree == ASSUME NEW S PROVE Plans!D!Cardinality(S) = Cardinality(S)
BY DEF Plans!D!Cardinality, Cardinality

\* The list of a set's members in the order of their numbers, each once.
ListOf(s, S, f) ==
  /\ \E m \in Nat : DOMAIN s = 1 .. m
  /\ \A k \in DOMAIN s : s[k] \in S
  /\ \A x \in S : \E k \in DOMAIN s : s[k] = x
  /\ \A i, j \in DOMAIN s : i < j => f[s[i]] < f[s[j]]
LEMMA SortedByNumber ==
    ASSUME NEW S, IsFiniteSet(S), NEW f \in [S -> Int], \A x, y \in S : f[x] = f[y] => x = y,
           NEW s, s = Plans!D!Sorted(S, f)
    PROVE  ListOf(s, S, f)
<1> DEFINE n == Cardinality(S)
           below(x) == {y \in S : f[y] < f[x]}
           rank == [x \in S |-> Cardinality(below(x))]
<1>1. n \in Nat
  BY FS_CardinalityType
<1>2. \A x \in S : IsFiniteSet(below(x)) /\ rank[x] \in Nat
  BY FS_Subset, FS_CardinalityType
<1>3. ASSUME NEW x \in S PROVE rank[x] \in 0 .. n - 1
  <2>1. x \notin below(x) /\ below(x) \in SUBSET S
    OBVIOUS
  <2>2. Cardinality(below(x)) <= n /\ Cardinality(below(x)) # n
    BY <2>1, FS_Subset
  <2> QED BY <1>1, <1>2, <2>2
<1>4. ASSUME NEW x \in S, NEW y \in S, f[x] < f[y] PROVE rank[x] < rank[y]
  <2>1. below(x) \in SUBSET below(y) /\ x \in below(y) /\ x \notin below(x)
    BY <1>4
  <2>2. Cardinality(below(x)) <= Cardinality(below(y)) /\ Cardinality(below(x)) # Cardinality(below(y))
    BY <1>2, <2>1, FS_Subset
  <2> QED BY <1>2, <2>2
<1> HIDE DEF rank, below
<1>5. \A x, y \in S : rank[x] = rank[y] => x = y
  <2>1. SUFFICES ASSUME NEW x \in S, NEW y \in S, rank[x] = rank[y], x # y PROVE FALSE
    OBVIOUS
  <2>2. f[x] < f[y] \/ f[y] < f[x]
    BY <2>1
  <2> QED BY <1>2, <1>4, <2>1, <2>2
<1>6. \A m \in 0 .. n - 1 : \E x \in S : rank[x] = m
  <2>1. rank \in [S -> 0 .. n - 1]
    BY <1>3 DEF rank
  <2>2. rank \in Injection(S, 0 .. n - 1)
    BY <1>5, <2>1 DEF Injection, IsInjective
  <2>3. IsFiniteSet(0 .. n - 1) /\ Cardinality(0 .. n - 1) = n
    BY <1>1, FS_Interval
  <2>4. rank \in Surjection(S, 0 .. n - 1)
    BY <2>2, <2>3, FS_Injection
  <2> QED BY <2>4 DEF Surjection
<1>7. s = [k \in 1 .. Plans!D!Cardinality(S) |->
             CHOOSE x \in S : Plans!D!Cardinality({y \in S : f[y] < f[x]}) = k - 1]
  BY DEF Plans!D!Sorted
<1>8. ASSUME NEW k \in 1 .. n PROVE s[k] \in S /\ rank[s[k]] = k - 1
  <2>1. \E x \in S : Plans!D!Cardinality({y \in S : f[y] < f[x]}) = k - 1
    <3>1. PICK x \in S : rank[x] = k - 1
      BY <1>1, <1>6
    <3>2. rank[x] = Cardinality({y \in S : f[y] < f[x]})
      BY DEF rank, below
    <3>3. Plans!D!Cardinality({y \in S : f[y] < f[x]}) = k - 1
      BY <3>1, <3>2, SizesAgree
    <3> QED BY <3>3
  <2>2. s[k] \in S /\ Plans!D!Cardinality({y \in S : f[y] < f[s[k]]}) = k - 1
    BY <1>7, <2>1, SizesAgree
  <2> QED BY <2>2, SizesAgree DEF rank, below
<1>9. DOMAIN s = 1 .. n
  BY <1>7, SizesAgree
<1>10. ASSUME NEW x \in S PROVE \E k \in DOMAIN s : s[k] = x
  <2>1. rank[x] + 1 \in 1 .. n /\ rank[x] \in Nat
    BY <1>1, <1>3
  <2>2. s[rank[x] + 1] \in S /\ rank[s[rank[x] + 1]] = rank[x]
    BY <1>8, <2>1
  <2> QED BY <1>5, <1>9, <2>1, <2>2
<1>11. ASSUME NEW i \in DOMAIN s, NEW j \in DOMAIN s, i < j PROVE f[s[i]] < f[s[j]]
  <2>1. s[i] \in S /\ s[j] \in S /\ rank[s[i]] < rank[s[j]]
    BY <1>1, <1>8, <1>9, <1>11
  <2>2. CASE f[s[j]] < f[s[i]]
    BY <1>2, <1>4, <2>1, <2>2
  <2>3. CASE f[s[j]] = f[s[i]]
    BY <1>2, <2>1, <2>3
  <2> QED BY <2>1, <2>2, <2>3
<1> QED BY <1>1, <1>8, <1>9, <1>10, <1>11 DEF ListOf

\* An index is a list of rows, numbered or not.
IndexRows(index) ==
  /\ index # None /\ \E n \in Nat : DOMAIN index = 1 .. n /\ Len(index) = n
  /\ \A i \in DOMAIN index : index[i].order \in Int \cup {None}
CorePlaces(index) == {i \in DOMAIN index : Plans!D!InCore(index[i])}
CoreRows(index) == {index[i] : i \in CorePlaces(index)}
OrderOf(rows) == [r \in rows |-> r.order]
PlaceOf(places) == [i \in places |-> i]

\* What a selection of the core rows has of the index.
CoreOf(index, core) ==
  /\ \E m \in Nat : DOMAIN core = 1 .. m
  /\ \A k \in DOMAIN core : \E i \in CorePlaces(index) : core[k] = index[i]
  /\ \A i \in CorePlaces(index) : \E k \in DOMAIN core : core[k] = index[i]
  /\ \A j, k \in DOMAIN core : j < k =>
       /\ \E a, b \in CorePlaces(index) : a # b /\ core[j] = index[a] /\ core[k] = index[b]
       /\ Plans!D!Ordered(CoreRows(index)) => core[j].order < core[k].order

LEMMA CorePlacesFinite ==
    ASSUME NEW index, IndexRows(index)
    PROVE  IsFiniteSet(CorePlaces(index)) /\ CorePlaces(index) \subseteq Int /\ IsFiniteSet(CoreRows(index))
<1>1. PICK n \in Nat : DOMAIN index = 1 .. n
  BY DEF IndexRows
<1>2. CorePlaces(index) \in SUBSET (1 .. n)
  BY <1>1 DEF CorePlaces
<1>3. IsFiniteSet(1 .. n)
  BY FS_Interval
<1>4. IsFiniteSet(CorePlaces(index))
  BY <1>2, <1>3, FS_Subset
<1>5. PICK f : f = [i \in CorePlaces(index) |-> index[i]]
  OBVIOUS
<1>6. f \in Surjection(CorePlaces(index), CoreRows(index))
  BY <1>5 DEF CoreRows, Surjection
<1>7. IsFiniteSet(CoreRows(index))
  BY <1>4, <1>6, FS_Surjection
<1> QED BY <1>2, <1>4, <1>7

\* The core selection when rows are numbered, and when they are not.
LEMMA CoreSelection ==
    ASSUME NEW index, NEW core, core = Plans!D!select_core(index), core # None
    PROVE  /\ \A i \in DOMAIN index : index[i].order # None => Plans!D!InCore(index[i])
           /\ Plans!D!Ordered(CoreRows(index)) =>
                /\ \A i, j \in CorePlaces(index) : index[i].order # None /\ (i # j => index[i].order # index[j].order)
                /\ core = Plans!D!Sorted(CoreRows(index), OrderOf(CoreRows(index)))
           /\ ~Plans!D!Ordered(CoreRows(index)) =>
                \E kept : /\ kept = Plans!D!Sorted(CorePlaces(index), PlaceOf(CorePlaces(index)))
                          /\ core = [k \in DOMAIN kept |-> index[kept[k]]]
<1> DEFINE places == {i \in DOMAIN index : Plans!D!InCore(index[i])}
           rows == {index[i] : i \in places}
           kept == Plans!D!Sorted(places, PlaceOf(places))
<1>1. places = CorePlaces(index) /\ rows = CoreRows(index)
  BY DEF CorePlaces, CoreRows
<1>2. core = IF \/ \E i \in DOMAIN index : index[i].order # None /\ (~Plans!D!InCore(index[i]) \/ index[i].order < 1)
                \/ Plans!D!Ordered(rows) /\ \E i, j \in places : index[i].order = None \/ (i # j /\ index[i].order = index[j].order)
             THEN Plans!D!Refused
             ELSE IF Plans!D!Ordered(rows) THEN Plans!D!Sorted(rows, OrderOf(rows))
             ELSE [k \in DOMAIN kept |-> index[kept[k]]]
  BY DEF Plans!D!select_core, OrderOf, PlaceOf
<1>3. Plans!D!Refused = None
  BY DEF Plans!D!Refused
<1> HIDE DEF kept, rows, places
<1>4. /\ \A i \in DOMAIN index : index[i].order # None => Plans!D!InCore(index[i])
      /\ Plans!D!Ordered(rows) => /\ \A i, j \in places : index[i].order # None /\ (i # j => index[i].order # index[j].order)
                                  /\ core = Plans!D!Sorted(rows, OrderOf(rows))
      /\ ~Plans!D!Ordered(rows) => core = [k \in DOMAIN kept |-> index[kept[k]]]
  BY <1>2, <1>3
<1>5. kept = Plans!D!Sorted(CorePlaces(index), PlaceOf(CorePlaces(index)))
  BY <1>1 DEF kept
<1> QED BY <1>1, <1>4, <1>5

LEMMA CoreSelected ==
    ASSUME NEW index, IndexRows(index), NEW core, core = Plans!D!select_core(index), core # None
    PROVE  CoreOf(index, core)
<1>1. PICK P, R : P = CorePlaces(index) /\ R = CoreRows(index)
  OBVIOUS
<1>2. IsFiniteSet(P) /\ P \subseteq Int /\ IsFiniteSet(R) /\ P \subseteq DOMAIN index /\ R = {index[i] : i \in P}
  BY <1>1, CorePlacesFinite DEF CorePlaces, CoreRows
<1>3. CASE Plans!D!Ordered(R)
  <2>1. /\ \A i, j \in P : index[i].order # None /\ (i # j => index[i].order # index[j].order)
        /\ core = Plans!D!Sorted(R, OrderOf(R))
    BY <1>1, <1>3, CoreSelection
  <2>2. \A i \in P : index[i].order \in Int
    BY <1>2, <2>1 DEF IndexRows
  <2>3. PICK f : f = OrderOf(R)
    OBVIOUS
  <2>4. f \in [R -> Int] /\ (\A x, y \in R : f[x] = f[y] => x = y) /\ \A x \in R : f[x] = x.order
    BY <1>2, <2>1, <2>2, <2>3 DEF OrderOf
  <2>9. ListOf(core, R, f)
    BY <1>2, <2>1, <2>3, <2>4, SortedByNumber
  <2>5. /\ \E m \in Nat : DOMAIN core = 1 .. m
        /\ \A k \in DOMAIN core : core[k] \in R
        /\ \A x \in R : \E k \in DOMAIN core : core[k] = x
        /\ \A i, j \in DOMAIN core : i < j => f[core[i]] < f[core[j]]
    BY <2>9 DEF ListOf
  <2>6. \A k \in DOMAIN core : \E i \in P : core[k] = index[i]
    BY <1>2, <2>5
  <2>7. ASSUME NEW j \in DOMAIN core, NEW k \in DOMAIN core, j < k
        PROVE  core[j].order < core[k].order /\ \E a, b \in P : a # b /\ core[j] = index[a] /\ core[k] = index[b]
    <3>1. core[j].order < core[k].order
      BY <2>4, <2>5, <2>7
    <3>2. PICK a \in P, b \in P : core[j] = index[a] /\ core[k] = index[b]
      BY <2>6
    <3>3. a # b
      BY <2>2, <3>1, <3>2
    <3> QED BY <3>1, <3>2, <3>3
  <2>8. \A i \in P : \E k \in DOMAIN core : core[k] = index[i]
    BY <1>2, <2>5
  <2>10. \E m \in Nat : DOMAIN core = 1 .. m
    BY <2>5
  <2> QED BY ONLY <1>1, <2>6, <2>7, <2>8, <2>10 DEF CoreOf
<1>4. CASE ~Plans!D!Ordered(R)
  <2>1. PICK kept : /\ kept = Plans!D!Sorted(P, PlaceOf(P))
                    /\ core = [k \in DOMAIN kept |-> index[kept[k]]]
    BY <1>1, <1>4, CoreSelection
  <2>2. PICK f : f = PlaceOf(P)
    OBVIOUS
  <2>3. f \in [P -> Int] /\ (\A x, y \in P : f[x] = f[y] => x = y) /\ \A x \in P : f[x] = x
    BY <1>2, <2>2 DEF PlaceOf
  <2>9. ListOf(kept, P, f)
    BY <1>2, <2>1, <2>2, <2>3, SortedByNumber
  <2>4. /\ \E m \in Nat : DOMAIN kept = 1 .. m
        /\ \A k \in DOMAIN kept : kept[k] \in P
        /\ \A x \in P : \E k \in DOMAIN kept : kept[k] = x
        /\ \A i, j \in DOMAIN kept : i < j => f[kept[i]] < f[kept[j]]
    BY <2>9 DEF ListOf
  <2>5. DOMAIN core = DOMAIN kept /\ \A k \in DOMAIN core : core[k] = index[kept[k]]
    BY <2>1
  <2>6. ASSUME NEW j \in DOMAIN core, NEW k \in DOMAIN core, j < k
        PROVE  \E a, b \in P : a # b /\ core[j] = index[a] /\ core[k] = index[b]
    <3>1. kept[j] \in P /\ kept[k] \in P /\ kept[j] < kept[k]
      <4>1. j \in DOMAIN kept /\ k \in DOMAIN kept
        BY <2>5
      <4>2. f[kept[j]] < f[kept[k]] /\ kept[j] \in P /\ kept[k] \in P
        BY <2>4, <2>6, <4>1
      <4>3. f[kept[j]] = kept[j] /\ f[kept[k]] = kept[k]
        BY <2>3, <4>2
      <4> QED BY <4>2, <4>3
    <3>2. kept[j] # kept[k]
      <4>1. kept[j] \in Int /\ kept[k] \in Int /\ kept[j] < kept[k]
        BY <1>2, <3>1
      <4> QED BY ONLY <4>1
    <3>3. core[j] = index[kept[j]] /\ core[k] = index[kept[k]]
      BY <2>5
    <3> QED BY <3>1, <3>2, <3>3
  <2>7. \A i \in P : \E k \in DOMAIN core : core[k] = index[i]
    BY <2>4, <2>5
  <2>8. \A k \in DOMAIN core : \E i \in P : core[k] = index[i]
    BY <2>4, <2>5
  <2>10. \E m \in Nat : DOMAIN core = 1 .. m
    BY <2>4, <2>5
  <2> QED BY ONLY <1>1, <1>4, <2>6, <2>7, <2>8, <2>10 DEF CoreOf
<1> QED BY <1>3, <1>4

\* What each row of an index that is read has of its case.
RowsRead(data, index) ==
  \A i \in DOMAIN index :
    /\ index[i].path \in DOMAIN data.cases
    /\ LET case == data.cases[index[i].path] IN
       /\ case.in_core \in BOOLEAN /\ index[i].in_core = case.in_core
       /\ index[i].order = case.order /\ index[i].version = case.version /\ index[i].id = case.id
    /\ index[i].pdkVersion = data.pdks[Plans!D!process_manifest(index[i].path)]
LEMMA IndexRead ==
    ASSUME NEW data, NEW index, NEW name, NEW rows, rows = Plans!D!native_cases(data, index, name), rows # None
    PROVE  /\ RowsRead(data, index)
           /\ \A i, j \in DOMAIN index : i # j => index[i].id # index[j].id
           /\ Plans!D!select_core(index) # None
           /\ rows = (IF name = "core" THEN Plans!D!select_core(index) ELSE index) /\ rows # << >>
<1>1. Plans!D!Refused = None
  BY DEF Plans!D!Refused
<1>2. rows = IF \/ \E i, j \in DOMAIN index: i # j /\ index[i].id = index[j].id
                \/ \E i \in DOMAIN index: ~Plans!D!RowCurrent(data, index[i])
                \/ Plans!D!select_core(index) = None
                \/ (IF name = "core" THEN Plans!D!select_core(index) ELSE index) = << >>
             THEN None ELSE IF name = "core" THEN Plans!D!select_core(index) ELSE index
  BY <1>1 DEF Plans!D!native_cases
<1>3. \A i \in DOMAIN index : Plans!D!RowCurrent(data, index[i])
  BY <1>2
<1>4. RowsRead(data, index)
  BY <1>3 DEF Plans!D!RowCurrent, Plans!D!CoreMembership, RowsRead
<1> QED BY <1>2, <1>4

LEMMA RowsSelect ==
    ASSUME NEW data, NEW index, NEW name, RowsRead(data, index), index # None,
           \A i \in DOMAIN index : Plans!D!RowCurrent(data, index[i]),
           \A i, j \in DOMAIN index : i # j => index[i].id # index[j].id,
           NEW core, core = Plans!D!select_core(index), core # None,
           NEW rows, rows = IF name = "core" THEN core ELSE index, rows # << >>
    PROVE  Plans!D!native_cases(data, index, name) = rows
BY DEF Plans!D!native_cases, Plans!D!Refused

\* An index read backwards has the same core when its rows are numbered.
TurnedOf(index, back) ==
  /\ DOMAIN back = DOMAIN index
  /\ \A i \in DOMAIN index : \E j \in DOMAIN index : back[i] = index[j] /\ back[j] = index[i]
  /\ \A i, j \in DOMAIN index : i # j => \E a, b \in DOMAIN index : a # b /\ back[i] = index[a] /\ back[j] = index[b]
Listed(s) == \E n \in Nat : DOMAIN s = 1 .. n /\ Len(s) = n
Backwards(s) == [i \in 1 .. Len(s) |-> s[(Len(s) - i) + 1]]
LEMMA ReadBackwards ==
    ASSUME NEW index, Listed(index), NEW back, back = Backwards(index)
    PROVE  TurnedOf(index, back)
<1>1. PICK n \in Nat : DOMAIN index = 1 .. n /\ Len(index) = n
  BY DEF Listed
<1>2. back = [i \in 1 .. n |-> index[(n - i) + 1]]
  BY <1>1 DEF Backwards
<1>3. \A i \in 1 .. n : (n - i) + 1 \in 1 .. n /\ (n - ((n - i) + 1)) + 1 = i
  BY <1>1
<1>4. ASSUME NEW i \in DOMAIN index
      PROVE  \E j \in DOMAIN index : j = (n - i) + 1 /\ back[i] = index[j] /\ back[j] = index[i]
  <2>1. PICK j : j = (n - i) + 1
    OBVIOUS
  <2>2. j \in 1 .. n /\ (n - j) + 1 = i
    BY <1>1, <1>3, <2>1
  <2> QED BY <1>1, <1>2, <2>1, <2>2
<1>5. ASSUME NEW i \in DOMAIN index, NEW j \in DOMAIN index, i # j
      PROVE  \E a, b \in DOMAIN index : a # b /\ back[i] = index[a] /\ back[j] = index[b]
  <2>1. PICK a \in DOMAIN index : a = (n - i) + 1 /\ back[i] = index[a]
    BY <1>4
  <2>2. PICK b \in DOMAIN index : b = (n - j) + 1 /\ back[j] = index[b]
    BY <1>4
  <2>3. a # b
    BY <1>1, <1>5, <2>1, <2>2
  <2> QED BY <2>1, <2>2, <2>3
<1> QED BY <1>1, <1>2, <1>4, <1>5 DEF TurnedOf

LEMMA SameCore ==
    ASSUME NEW index, IndexRows(index), NEW core, core = Plans!D!select_core(index), core # None,
           Plans!D!Ordered(CoreRows(index)), NEW back, back = Plans!D!Reverse(index)
    PROVE  Plans!D!select_core(back) = core
<1> DEFINE places == {i \in DOMAIN back : Plans!D!InCore(back[i])}
           rows == {back[i] : i \in places}
           kept == Plans!D!Sorted(places, PlaceOf(places))
<1>1. /\ DOMAIN back = DOMAIN index
      /\ \A i \in DOMAIN index : \E j \in DOMAIN index : back[i] = index[j] /\ back[j] = index[i]
      /\ \A i, j \in DOMAIN index : i # j => \E a, b \in DOMAIN index : a # b /\ back[i] = index[a] /\ back[j] = index[b]
  <2>1. Listed(index)
    BY DEF IndexRows, Listed
  <2>2. back = Backwards(index)
    BY DEF Backwards, Plans!D!Reverse
  <2>3. TurnedOf(index, back)
    BY <2>1, <2>2, ReadBackwards
  <2> QED BY <2>3 DEF TurnedOf
<1>2. rows = CoreRows(index)
  BY <1>1 DEF CoreRows, CorePlaces
<1>3. Plans!D!Refused = None
  BY DEF Plans!D!Refused
<1>4. ~\E i \in DOMAIN back : back[i].order # None /\ (~Plans!D!InCore(back[i]) \/ back[i].order < 1)
  <2>1. ~\E i \in DOMAIN index : index[i].order # None /\ (~Plans!D!InCore(index[i]) \/ index[i].order < 1)
    BY <1>3 DEF Plans!D!select_core
  <2> QED BY <1>1, <2>1
<1>5. ~\E i, j \in places : back[i].order = None \/ (i # j /\ back[i].order = back[j].order)
  <2>1. \A i, j \in CorePlaces(index) : index[i].order # None /\ (i # j => index[i].order # index[j].order)
    BY CoreSelection
  <2>2. ASSUME NEW i \in places PROVE back[i].order # None
    BY <1>1, <2>1 DEF CorePlaces
  <2>3. ASSUME NEW i \in places, NEW j \in places, i # j PROVE back[i].order # back[j].order
    <3>1. PICK a \in DOMAIN index, b \in DOMAIN index : a # b /\ back[i] = index[a] /\ back[j] = index[b]
      BY <1>1, <2>3
    <3>2. a \in CorePlaces(index) /\ b \in CorePlaces(index)
      BY <3>1 DEF CorePlaces
    <3> QED BY <2>1, <3>1, <3>2
  <2> QED BY <2>2, <2>3
<1>6. core = Plans!D!Sorted(CoreRows(index), OrderOf(CoreRows(index)))
  BY CoreSelection
<1>7. Plans!D!select_core(back) =
        IF \/ \E i \in DOMAIN back : back[i].order # None /\ (~Plans!D!InCore(back[i]) \/ back[i].order < 1)
           \/ Plans!D!Ordered(rows) /\ \E i, j \in places : back[i].order = None \/ (i # j /\ back[i].order = back[j].order)
        THEN Plans!D!Refused
        ELSE IF Plans!D!Ordered(rows) THEN Plans!D!Sorted(rows, OrderOf(rows)) ELSE [k \in DOMAIN kept |-> back[kept[k]]]
  BY DEF Plans!D!select_core, OrderOf, PlaceOf
<1> HIDE DEF places, rows, kept
<1> QED BY <1>2, <1>4, <1>5, <1>6, <1>7

LEMMA NumberedBackwards ==
    ASSUME NEW data, NEW index, IndexRows(index), NEW core, core = Plans!D!native_cases(data, index, "core"), core # None,
           Plans!D!Ordered(CoreRows(index))
    PROVE  Plans!D!native_cases(data, Plans!D!Reverse(index), "core") = core
<1>1. /\ RowsRead(data, index) /\ \A i, j \in DOMAIN index : i # j => index[i].id # index[j].id
      /\ core = Plans!D!select_core(index) /\ core # << >>
  BY IndexRead
<1>2. \A i \in DOMAIN index : Plans!D!RowCurrent(data, index[i])
  BY DEF Plans!D!native_cases, Plans!D!Refused
<1>3. PICK back : back = Plans!D!Reverse(index)
  OBVIOUS
<1>4. /\ DOMAIN back = DOMAIN index
      /\ \A i \in DOMAIN index : \E j \in DOMAIN index : back[i] = index[j] /\ back[j] = index[i]
      /\ \A i, j \in DOMAIN index : i # j => \E a, b \in DOMAIN index : a # b /\ back[i] = index[a] /\ back[j] = index[b]
  <2>1. Listed(index)
    BY DEF IndexRows, Listed
  <2>2. back = Backwards(index)
    BY <1>3 DEF Backwards, Plans!D!Reverse
  <2>3. TurnedOf(index, back)
    BY <2>1, <2>2, ReadBackwards
  <2> QED BY <2>3 DEF TurnedOf
<1>5. Plans!D!select_core(back) = core
  BY <1>1, <1>3, SameCore
<1>6. \A i \in DOMAIN back : Plans!D!RowCurrent(data, back[i])
  BY <1>2, <1>4
<1>7. \A i, j \in DOMAIN back : i # j => back[i].id # back[j].id
  BY <1>1, <1>4
<1>8. Plans!D!native_cases(data, back, "core") = core
  BY <1>1, <1>5, <1>6, <1>7 DEF Plans!D!native_cases, Plans!D!Refused
<1> QED BY <1>3, <1>8

\* The case of an ID is the one that has it, if it can be told.
LEMMA CaseOfId ==
    ASSUME NEW data, IsFiniteSet(DOMAIN data.cases), NEW p \in DOMAIN data.cases
    PROVE  Plans!D!case(data, data.cases[p].id) \in {p, None}
<1>1. PICK name, exact : name = data.cases[p].id /\ exact = {q \in DOMAIN data.cases : data.cases[q].id = name}
  OBVIOUS
<1>2. p \in exact /\ exact \in SUBSET DOMAIN data.cases
  BY <1>1
<1>3. IsFiniteSet(exact)
  BY <1>2, FS_Subset
<1>4. Cardinality(exact) = 1 => \A q \in exact : q = p
  <2>1. SUFFICES ASSUME Cardinality(exact) = 1 PROVE \A q \in exact : q = p
    OBVIOUS
  <2>2. \E x : exact = {x}
    BY <1>3, <2>1, FS_Singleton
  <2> QED BY <1>2, <2>2
<1>5. Plans!D!case(data, name) = None \/ (Cardinality(exact) = 1 /\ Plans!D!case(data, name) = CHOOSE q \in exact : TRUE)
  <2>1. Plans!D!Cardinality(exact) = Cardinality(exact)
    BY SizesAgree
  <2>2. exact # {}
    BY <1>2
  <2>3. exact = {q \in DOMAIN data.cases : data.cases[q].id = name}
    BY <1>1
  <2> QED BY <2>1, <2>2, <2>3 DEF Plans!D!case, Plans!D!Refused
<1>6. (CHOOSE q \in exact : TRUE) \in exact
  BY <1>2
<1> QED BY <1>1, <1>4, <1>5, <1>6

\* A selection names the cases that say they are in it, in the order they give
\* and not in that of the index, each once, and is none where a row is stale.
\* dataset.py:29-104.
THEOREM SelectionIsPublished ==
    ASSUME NEW data, IsFiniteSet(DOMAIN data.cases), NEW index, IndexRows(index)
    PROVE  Plans!D!SelectionPublished(data, index)
<1>1. PICK core : core = Plans!D!native_cases(data, index, "core")
  OBVIOUS
<1>2. SUFFICES ASSUME core # None
      PROVE  /\ Plans!D!native_cases(data, index, "all") # None
             /\ {core[i].path: i \in DOMAIN core} = {p \in {index[i].path: i \in DOMAIN index}: data.cases[p].in_core}
             /\ \A i, j \in DOMAIN core:
                  i < j => /\ core[i].id # core[j].id /\ core[i].path # core[j].path
                           /\ Plans!D!Ordered(Plans!D!ToSet(core)) => data.cases[core[i].path].order < data.cases[core[j].path].order
             /\ Plans!D!Ordered(Plans!D!ToSet(core)) => Plans!D!native_cases(data, Plans!D!Reverse(index), "core") = core
             /\ \A i \in DOMAIN core: Plans!D!case(data, core[i].id) \in {core[i].path, None}
  BY <1>1 DEF Plans!D!SelectionPublished, Plans!D!Refused
<1>3. /\ RowsRead(data, index) /\ \A i, j \in DOMAIN index : i # j => index[i].id # index[j].id
      /\ core = Plans!D!select_core(index) /\ core # << >>
  BY <1>1, <1>2, IndexRead
<1>4. /\ \E m \in Nat : DOMAIN core = 1 .. m
      /\ \A k \in DOMAIN core : \E i \in CorePlaces(index) : core[k] = index[i]
      /\ \A i \in CorePlaces(index) : \E k \in DOMAIN core : core[k] = index[i]
      /\ \A j, k \in DOMAIN core : j < k =>
           /\ \E a, b \in CorePlaces(index) : a # b /\ core[j] = index[a] /\ core[k] = index[b]
           /\ Plans!D!Ordered(CoreRows(index)) => core[j].order < core[k].order
  <2>1. CoreOf(index, core)
    BY <1>2, <1>3, CoreSelected
  <2> QED BY <2>1 DEF CoreOf
<1>5. \A i \in DOMAIN index : i \in CorePlaces(index) <=> index[i].in_core = TRUE
  BY DEF CorePlaces, Plans!D!InCore
<1>6. Plans!D!ToSet(core) = CoreRows(index)
  BY <1>4 DEF Plans!D!ToSet, CoreRows
<1>7. \A i \in DOMAIN index : /\ index[i].path \in DOMAIN data.cases
                              /\ data.cases[index[i].path].in_core \in BOOLEAN
                              /\ index[i].in_core = data.cases[index[i].path].in_core
                              /\ index[i].order = data.cases[index[i].path].order
                              /\ index[i].id = data.cases[index[i].path].id
  BY <1>3 DEF RowsRead
<1>8. CorePlaces(index) \subseteq DOMAIN index
  BY DEF CorePlaces
<1>9. Plans!D!native_cases(data, index, "all") # None
  <2>1. \E k \in DOMAIN core : TRUE
    <3>1. core \in [DOMAIN core -> Plans!D!ToSet(core)]
      <4>1. CASE Plans!D!Ordered(CoreRows(index))
        <5>1. core = Plans!D!Sorted(CoreRows(index), OrderOf(CoreRows(index)))
          BY <1>2, <1>3, <4>1, CoreSelection
        <5> QED BY <5>1 DEF Plans!D!Sorted, Plans!D!ToSet
      <4>2. CASE ~Plans!D!Ordered(CoreRows(index))
        <5>1. PICK kept : core = [k \in DOMAIN kept |-> index[kept[k]]]
          BY <1>2, <1>3, <4>2, CoreSelection
        <5> QED BY <5>1 DEF Plans!D!ToSet
      <4> QED BY <4>1, <4>2
    <3>2. SUFFICES ASSUME DOMAIN core = {} PROVE FALSE
      OBVIOUS
    <3>3. PICK T : core \in [{} -> T]
      BY <3>1, <3>2
    <3>4. core = << >>
      <4>1. << >> \in [{} -> T]
        OBVIOUS
      <4> QED BY ONLY <3>3, <4>1
    <3> QED BY <1>3, <3>4
  <2>2. \E i \in DOMAIN index : TRUE
    BY <1>4, <1>8, <2>1
  <2>3. index # << >>
    BY <2>2
  <2>4. \A i \in DOMAIN index : Plans!D!RowCurrent(data, index[i])
    BY <1>1, <1>2 DEF Plans!D!native_cases, Plans!D!Refused
  <2>5. Plans!D!native_cases(data, index, "all") = index
    BY <1>2, <1>3, <2>3, <2>4 DEF Plans!D!native_cases, Plans!D!Refused
  <2> QED BY <2>5 DEF IndexRows
<1>10. {core[i].path: i \in DOMAIN core} = {p \in {index[i].path: i \in DOMAIN index}: data.cases[p].in_core}
  <2>1. ASSUME NEW k \in DOMAIN core
        PROVE  core[k].path \in {index[i].path: i \in DOMAIN index} /\ data.cases[core[k].path].in_core
    <3>1. PICK i \in CorePlaces(index) : core[k] = index[i]
      BY <1>4
    <3>2. data.cases[core[k].path].in_core = TRUE
      BY <1>5, <1>7, <1>8, <3>1
    <3> QED BY <1>8, <3>1, <3>2
  <2>2. ASSUME NEW i \in DOMAIN index, data.cases[index[i].path].in_core
        PROVE  \E k \in DOMAIN core : core[k].path = index[i].path
    <3>1. index[i].in_core = TRUE
      BY <1>7, <2>2
    <3> QED BY <1>4, <1>5, <3>1
  <2> QED BY <2>1, <2>2
<1>11. ASSUME NEW j \in DOMAIN core, NEW k \in DOMAIN core, j < k
       PROVE  /\ core[j].id # core[k].id /\ core[j].path # core[k].path
              /\ Plans!D!Ordered(Plans!D!ToSet(core)) => data.cases[core[j].path].order < data.cases[core[k].path].order
  <2>1. PICK a \in CorePlaces(index), b \in CorePlaces(index) : a # b /\ core[j] = index[a] /\ core[k] = index[b]
    BY <1>4, <1>11
  <2>2. core[j].id # core[k].id
    BY <1>3, <1>8, <2>1
  <2>3. core[j].path # core[k].path
    BY <1>7, <1>8, <2>1, <2>2
  <2>4. ASSUME Plans!D!Ordered(Plans!D!ToSet(core)) PROVE core[j].order < core[k].order
    BY <1>4, <1>6, <1>11, <2>4
  <2>5. core[j].order = data.cases[core[j].path].order /\ core[k].order = data.cases[core[k].path].order
    BY <1>7, <1>8, <2>1
  <2> QED BY <2>2, <2>3, <2>4, <2>5
<1>12. ASSUME Plans!D!Ordered(Plans!D!ToSet(core))
       PROVE  Plans!D!native_cases(data, Plans!D!Reverse(index), "core") = core
  BY <1>1, <1>2, <1>6, <1>12, NumberedBackwards
<1>13. ASSUME NEW k \in DOMAIN core PROVE Plans!D!case(data, core[k].id) \in {core[k].path, None}
  <2>1. PICK i \in CorePlaces(index) : core[k] = index[i]
    BY <1>4
  <2>2. PICK p \in DOMAIN data.cases : p = core[k].path /\ core[k].id = data.cases[p].id
    BY <1>7, <1>8, <2>1
  <2> QED BY <2>2, CaseOfId
<1> QED BY <1>9, <1>10, <1>11, <1>12, <1>13

\* The rows of a selection are those of its index, which are those of the cases.
RowsListed(data, rows) ==
  \A k \in DOMAIN rows :
    /\ rows[k].path \in DOMAIN data.cases /\ rows[k].id = data.cases[rows[k].path].id
    /\ rows[k].version = data.cases[rows[k].path].version
    /\ rows[k].pdkVersion = data.pdks[Plans!D!process_manifest(rows[k].path)]
LEMMA SelectionListed ==
    ASSUME NEW data, NEW index, IndexRows(index), NEW name,
           NEW rows, rows = Plans!D!native_cases(data, index, name), rows # None
    PROVE  RowsListed(data, rows)
<1>1. RowsRead(data, index) /\ rows = (IF name = "core" THEN Plans!D!select_core(index) ELSE index)
  BY IndexRead
<1>2. ASSUME NEW k \in DOMAIN rows PROVE \E i \in DOMAIN index : rows[k] = index[i]
  <2>1. CASE name # "core"
    BY <1>1, <2>1
  <2>2. CASE name = "core"
    <3>1. CoreOf(index, rows)
      BY <1>1, <2>2, CoreSelected
    <3> QED BY <3>1 DEF CoreOf, CorePlaces
  <2> QED BY <2>1, <2>2
<1> QED BY <1>1, <1>2 DEF RowsRead, RowsListed

\* A condition of a batch, the plan made of it, and the uses of all plans.
ConditionsRead(conditions) ==
  \A i \in DOMAIN conditions :
    conditions[i] = [source |-> conditions[i].source, spec |-> conditions[i].spec,
                     tasks |-> conditions[i].tasks, offline |-> conditions[i].offline]
PlanOf(c, planned, plan) ==
  /\ plan.source = c.source /\ plan.spec.name = c.spec
  /\ c.spec # None =>
       /\ plan.spec.index = Plans!D!native_cases(planned[c.source].data, planned[c.source].index, c.spec)
       /\ plan.spec.index # None
       /\ \A k \in DOMAIN plan.tasks : \E j \in DOMAIN plan.spec.index : plan.spec.index[j].id = plan.tasks[k]
UsesOf(plans, datasets) ==
  UNION {{Plans!Use(plans[i], datasets, n) : n \in Plans!ToSet(plans[i].tasks)} : i \in DOMAIN plans}

UseNamed(uses, n) == CHOOSE u \in uses : u.name = n
Prepare(u, datasets) ==
  [selection |-> u.selection, path |-> u.path, version |-> datasets[u.selection.source].data.cases[u.path].version,
   pdk |-> datasets[u.selection.source].data.pdks[Plans!D!process_manifest(u.path)]]

LEMMA PlansRead ==
    ASSUME NEW c, c = [source |-> c.source, spec |-> c.spec, tasks |-> c.tasks, offline |-> c.offline],
           NEW planned, NEW plan, plan = Plans!task_selection(c, planned), plan # None
    PROVE  PlanOf(c, planned, plan)
<1>1. CASE c.spec = None
  <2>1. plan = [c EXCEPT !.spec = [name |-> None, index |-> << >>]]
    BY <1>1 DEF Plans!task_selection
  <2> QED BY <1>1, <2>1 DEF PlanOf
<1>2. CASE c.spec # None
  <2>1. PICK rows : rows = Plans!D!native_cases(planned[c.source].data, planned[c.source].index, c.spec)
    OBVIOUS
  <2>2. PICK tasks : tasks = IF c.tasks = None THEN Plans!RowIds(rows) ELSE c.tasks
    OBVIOUS
  <2>3. Plans!D!Refused = None /\ Plans!Refused = None
    BY DEF Plans!D!Refused, Plans!Refused
  <2>4. plan = IF rows = None THEN None
               ELSE IF ~(Plans!ToSet(tasks) \subseteq Plans!ToSet(Plans!RowIds(rows))) THEN None
               ELSE [c EXCEPT !.spec = [name |-> c.spec, index |-> rows], !.tasks = tasks]
    BY <1>2, <2>1, <2>2, <2>3 DEF Plans!task_selection
  <2>5. /\ rows # None /\ Plans!ToSet(tasks) \subseteq Plans!ToSet(Plans!RowIds(rows))
        /\ plan = [c EXCEPT !.spec = [name |-> c.spec, index |-> rows], !.tasks = tasks]
    BY <2>4
  <2>6. plan.source = c.source /\ plan.spec.name = c.spec /\ plan.spec.index = rows /\ plan.tasks = tasks
    BY <2>5
  <2>7. \A k \in DOMAIN tasks : \E j \in DOMAIN rows : rows[j].id = tasks[k]
    BY <2>5 DEF Plans!ToSet, Plans!RowIds
  <2> QED BY <2>1, <2>5, <2>6, <2>7 DEF PlanOf
<1> QED BY <1>1, <1>2

\* What a prepared batch has of the use of a case in a plan.
LEMMA PreparedOf ==
    ASSUME NEW plans, NEW datasets, NEW batch, batch = Plans!prepare_batch(plans, datasets), batch # None,
           NEW i \in DOMAIN plans, NEW n \in Plans!ToSet(plans[i].tasks),
           NEW path, path = Plans!Config(plans[i], datasets, n)
    PROVE  /\ Plans!IndexKept(plans[i], datasets) /\ path # None
           /\ batch[n].path = path /\ batch[n].selection.source = plans[i].source
           /\ ~datasets[plans[i].source].local => batch[n].selection.revision = datasets[plans[i].source].commit
           /\ batch[n].version = datasets[plans[i].source].data.cases[path].version
           /\ batch[n].pdk = datasets[plans[i].source].data.pdks[Plans!D!process_manifest(path)]
<1>1. PICK uses : uses = UsesOf(plans, datasets)
  OBVIOUS
<1>2. Plans!Refused = None
  BY DEF Plans!Refused, Plans!D!Refused
<1>3. batch = IF \E j \in DOMAIN plans: ~Plans!IndexKept(plans[j], datasets) THEN None
              ELSE IF \E u \in uses: u.path = None \/ \E v \in uses: v.name = u.name /\ v # u THEN None
              ELSE [m \in {u.name: u \in uses} |-> Prepare(UseNamed(uses, m), datasets)]
  BY <1>1, <1>2 DEF Plans!prepare_batch, UsesOf, UseNamed, Prepare
<1>4. /\ Plans!IndexKept(plans[i], datasets)
      /\ \A u \in uses : u.path # None /\ \A v \in uses : v.name = u.name => v = u
  BY <1>3
<1>5. batch = [m \in {u.name: u \in uses} |-> Prepare(UseNamed(uses, m), datasets)]
  BY <1>3
<1>6. PICK u : u = Plans!Use(plans[i], datasets, n)
  OBVIOUS
<1>7. u \in uses
  BY <1>1, <1>6 DEF UsesOf
<1>8. /\ u.name = n /\ u.path = path /\ u.selection.source = plans[i].source
      /\ u.selection.revision = (IF datasets[plans[i].source].local THEN None ELSE datasets[plans[i].source].commit)
  BY <1>6 DEF Plans!Use
<1>9. UseNamed(uses, n) = u
  BY <1>4, <1>7, <1>8 DEF UseNamed
<1>10. batch[n] = Prepare(u, datasets)
  BY <1>5, <1>7, <1>8, <1>9
<1> QED BY <1>4, <1>7, <1>8, <1>10 DEF Prepare

\* A case that is found by its name has it, as its ID or its directory.
LEMMA CaseFound ==
    ASSUME NEW data, NEW name, NEW p, p = Plans!D!case(data, name), p # None
    PROVE  data.cases[p].id = name \/ p[3] = name
<1>1. PICK exact, named, found :
        /\ exact = {q \in DOMAIN data.cases : data.cases[q].id = name}
        /\ named = {q \in DOMAIN data.cases : q[3] = name}
        /\ found = IF exact # {} THEN exact ELSE named
  OBVIOUS
<1>2. Plans!D!Cardinality(found) = 1 /\ p = CHOOSE q \in found : TRUE
  BY <1>1 DEF Plans!D!case, Plans!D!Refused
<1>3. found # {}
  BY <1>2, SizesAgree, FS_EmptySet
<1>4. p \in found
  BY <1>2, <1>3
<1> QED BY <1>1, <1>4

\* Prepared as it was planned: a case n of condition c, then and now.
AsPlanned(c, n, p, then, set) ==
  /\ p.selection.source = c.source
  /\ ~set.local => p.selection.revision = set.commit
  /\ p.version = set.data.cases[p.path].version
  /\ c.spec # None =>
       /\ then.data.cases[p.path].id = n
       /\ p.version = then.data.cases[p.path].version
       /\ p.pdk = then.data.pdks[Plans!D!process_manifest(p.path)]
  /\ c.spec = None => set.data.cases[p.path].id = n \/ p.path[3] = n

\* What is prepared is what was planned, though the Dataset may have changed in
\* between: each case of each condition comes from that condition's Dataset and
\* is the one the index named then, or, without one, the case of that name.
\* plan.py:189-226, config.py:78-118.
THEOREM BatchAsPlanned ==
    ASSUME NEW conditions, ConditionsRead(conditions), NEW planned, NEW current,
           \A i \in DOMAIN conditions : /\ IndexRows(planned[conditions[i].source].index)
                                        /\ IndexRows(current[conditions[i].source].index)
    PROVE  Plans!PreparedAsPlanned(conditions, planned, current)
<1> DEFINE plans == [i \in DOMAIN conditions |-> Plans!task_selection(conditions[i], planned)]
           batch == Plans!prepare_batch(plans, current)
<1>1. SUFFICES ASSUME \A i \in DOMAIN plans : plans[i] # None, batch # None
      PROVE  \A i \in DOMAIN plans : \A n \in Plans!ToSet(plans[i].tasks) :
               AsPlanned(conditions[i], n, batch[n], planned[conditions[i].source], current[conditions[i].source])
  BY DEF Plans!PreparedAsPlanned, AsPlanned, Plans!Refused, Plans!D!Refused
<1>2. DOMAIN plans = DOMAIN conditions /\ \A i \in DOMAIN plans : plans[i] = Plans!task_selection(conditions[i], planned)
  OBVIOUS
<1> HIDE DEF plans
<1>3. SUFFICES ASSUME NEW i \in DOMAIN plans, NEW n \in Plans!ToSet(plans[i].tasks),
                      NEW c, c = conditions[i], NEW p, p = batch[n], NEW set, set = current[c.source]
      PROVE  AsPlanned(c, n, p, planned[c.source], set)
  BY <1>3
<1>4. PICK plan : plan = plans[i]
  OBVIOUS
<1>5. PlanOf(c, planned, plan)
  BY <1>1, <1>2, <1>3, <1>4, PlansRead DEF ConditionsRead
<1>6. plan.source = c.source /\ plan.spec.name = c.spec
  BY <1>5 DEF PlanOf
<1>7. PICK path : path = Plans!Config(plan, current, n)
  OBVIOUS
<1>8. /\ Plans!IndexKept(plan, current) /\ path # None
      /\ p.path = path /\ p.selection.source = c.source
      /\ ~set.local => p.selection.revision = set.commit
      /\ p.version = set.data.cases[path].version
      /\ p.pdk = set.data.pdks[Plans!D!process_manifest(path)]
  BY <1>1, <1>3, <1>4, <1>6, <1>7, PreparedOf
<1>9. ASSUME c.spec # None
      PROVE  /\ planned[c.source].data.cases[path].id = n
             /\ p.version = planned[c.source].data.cases[path].version
             /\ p.pdk = planned[c.source].data.pdks[Plans!D!process_manifest(path)]
  <2>1. PICK rows : rows = plan.spec.index
    OBVIOUS
  <2>2. /\ rows = Plans!D!native_cases(planned[c.source].data, planned[c.source].index, c.spec) /\ rows # None
        /\ \A k \in DOMAIN plan.tasks : \E j \in DOMAIN rows : rows[j].id = plan.tasks[k]
    BY <1>5, <1>9, <2>1 DEF PlanOf
  <2>3. rows = Plans!D!native_cases(set.data, set.index, c.spec)
    BY <1>3, <1>6, <1>8, <1>9, <2>1 DEF Plans!IndexKept
  <2>4. RowsListed(planned[c.source].data, rows)
    BY <1>2, <1>3, <2>2, SelectionListed
  <2>5. RowsListed(set.data, rows)
    BY <1>2, <1>3, <2>2, <2>3, SelectionListed
  <2>6. \E row \in Plans!ToSet(rows) : row.id = n
    BY <1>3, <1>4, <2>2 DEF Plans!ToSet
  <2>7. PICK row \in Plans!ToSet(rows) : row.id = n /\ path = row.path
    BY <1>6, <1>7, <1>9, <2>1, <2>6 DEF Plans!Config
  <2>8. PICK k \in DOMAIN rows : row = rows[k]
    BY <2>7 DEF Plans!ToSet
  <2> QED BY <1>8, <2>4, <2>5, <2>7, <2>8 DEF RowsListed
<1>10. ASSUME c.spec = None PROVE set.data.cases[path].id = n \/ path[3] = n
  <2>1. path = Plans!D!case(set.data, n)
    BY <1>3, <1>6, <1>7, <1>10 DEF Plans!Config
  <2> QED BY <1>8, <2>1, CaseFound
<1> QED BY <1>8, <1>9, <1>10 DEF AsPlanned

\* A finite set of numbers that has any has a greatest and a least.
LEMMA Extremes ==
    ASSUME NEW S \in SUBSET Int, IsFiniteSet(S), S # {}
    PROVE  (\E x \in S : \A y \in S : y <= x) /\ (\E x \in S : \A y \in S : x <= y)
<1>1. PICK f, s : f = [x \in S |-> x] /\ s = Plans!D!Sorted(S, f)
  OBVIOUS
<1>2. f \in [S -> Int] /\ (\A x, y \in S : f[x] = f[y] => x = y) /\ \A x \in S : f[x] = x
  BY <1>1
<1>3. ListOf(s, S, f)
  BY <1>1, <1>2, SortedByNumber
<1>4. PICK m \in Nat : DOMAIN s = 1 .. m
  BY <1>3 DEF ListOf
<1>5. /\ \A k \in 1 .. m : s[k] \in S
      /\ \A x \in S : \E k \in 1 .. m : s[k] = x
      /\ \A i, j \in 1 .. m : i < j => s[i] < s[j]
  <2>1. /\ \A k \in 1 .. m : s[k] \in S
        /\ \A x \in S : \E k \in 1 .. m : s[k] = x
        /\ \A i, j \in 1 .. m : i < j => f[s[i]] < f[s[j]]
    BY <1>3, <1>4 DEF ListOf
  <2>2. \A k \in 1 .. m : f[s[k]] = s[k]
    BY <1>2, <2>1
  <2> QED BY <2>1, <2>2
<1>6. m \in 1 .. m /\ 1 \in 1 .. m
  <2>1. \E k \in 1 .. m : TRUE
    BY <1>5
  <2> QED BY <1>4, <2>1
<1>7. ASSUME NEW y \in S PROVE y <= s[m] /\ s[1] <= y
  <2>1. PICK k \in 1 .. m : s[k] = y
    BY <1>5
  <2>2. s[k] \in Int /\ s[m] \in Int /\ s[1] \in Int
    BY <1>5, <1>6
  <2>3. CASE k < m
    BY <1>5, <1>6, <2>1, <2>2, <2>3
  <2>4. CASE k = m
    BY <1>5, <1>6, <2>1, <2>2, <2>4
  <2> QED BY <2>1, <2>3, <2>4
<1> QED BY <1>5, <1>6, <1>7

LEMMA ImageFinite == ASSUME NEW S, IsFiniteSet(S), NEW f, DOMAIN f = S PROVE IsFiniteSet({f[x] : x \in S})
<1>1. PICK T : T = {f[x] : x \in S}
  OBVIOUS
<1>2. PICK g : g = [x \in S |-> f[x]]
  OBVIOUS
<1>3. g \in Surjection(S, T)
  BY <1>1, <1>2 DEF Surjection
<1> QED BY <1>1, <1>3, FS_Surjection

\* The records of a condition and the directories it has: the record of a case
\* that is where it belongs has its directory there.
Histories(records, directories) ==
  /\ \E n \in Nat : DOMAIN records = 1 .. n /\ Len(records) = n
  /\ IsFiniteSet(directories)
  /\ \A d \in directories : d # None /\ \E t : \E m \in Nat : d = <<t, m>>
  /\ \A i \in DOMAIN records : Plans!Placed(records[i]) => records[i].dir \in directories
HistoryOf(directories, t) == {d \in directories : Head(d) = t /\ d[2] # 0}
PlacedFor(records, t) == {i \in DOMAIN records : records[i].task = t /\ Plans!Placed(records[i])}

LEMMA PlacedInHistory ==
    ASSUME NEW records, NEW directories, Histories(records, directories), NEW t, NEW i \in PlacedFor(records, t)
    PROVE  records[i].dir \in HistoryOf(directories, t)
<1>1. PICK r : r = records[i] /\ r.task = t /\ Plans!Placed(r) /\ r.dir \in directories
  BY DEF PlacedFor, Histories
<1>5. PICK u : \E m \in Nat : r.dir = <<u, m>>
  BY <1>1 DEF Histories
<1>2. PICK m \in Nat : r.dir = <<u, m>>
  BY <1>5
<1>3. Head(r.dir) = t /\ Plans!Last(r.dir) # 0
  BY <1>1 DEF Plans!Placed
<1>4. r.dir[2] # 0
  BY <1>2, <1>3 DEF Plans!Last
<1> QED BY <1>1, <1>3, <1>4 DEF HistoryOf

LEMMA HistoryKnown ==
    ASSUME NEW records, NEW directories, Histories(records, directories), NEW t
    PROVE  /\ IsFiniteSet(HistoryOf(directories, t))
           /\ \A d \in HistoryOf(directories, t) : d[2] \in Nat /\ d # None /\ d = <<t, d[2]>>
<1>1. HistoryOf(directories, t) \in SUBSET directories
  BY DEF HistoryOf
<1>2. IsFiniteSet(HistoryOf(directories, t))
  BY <1>1, FS_Subset DEF Histories
<1>3. ASSUME NEW d \in HistoryOf(directories, t) PROVE d[2] \in Nat /\ d # None /\ d = <<t, d[2]>>
  <2>1. PICK u : \E m \in Nat : d = <<u, m>>
    BY DEF Histories, HistoryOf
  <2>3. PICK m \in Nat : d = <<u, m>>
    BY <2>1
  <2>2. Head(d) = u /\ d[2] = m
    BY <2>3
  <2> QED BY <2>3, <2>2 DEF HistoryOf, Histories
<1> QED BY <1>2, <1>3

\* The latest of the records of a case, wherever it comes in their order.
LEMMA LatestRecord ==
    ASSUME NEW records, NEW directories, Histories(records, directories), NEW t,
           NEW latest, latest = Plans!Latest(records, t)
    PROVE  /\ PlacedFor(records, t) = {} => latest = None
           /\ PlacedFor(records, t) # {} =>
                /\ latest \in HistoryOf(directories, t)
                /\ \A i \in PlacedFor(records, t) : records[i].dir[2] <= latest[2]
<1>1. PICK placed, rank : placed = PlacedFor(records, t) /\ rank = [i \in placed |-> records[i].dir[2]]
  OBVIOUS
<1>2. placed = {i \in Plans!Recorded(records, t) : Plans!Placed(records[i])}
  BY <1>1 DEF PlacedFor, Plans!Recorded
<1>3. CASE placed = {}
  BY <1>1, <1>2, <1>3 DEF Plans!Latest
<1>4. CASE placed # {}
  <2>1. PICK n \in Nat : DOMAIN records = 1 .. n
    BY DEF Histories
  <2>2. placed \in SUBSET (1 .. n) /\ IsFiniteSet(placed)
    BY <1>1, <2>1, FS_Subset, FS_Interval DEF PlacedFor
  <2>3. \A i \in placed : records[i].dir \in HistoryOf(directories, t) /\ rank[i] \in Int /\ rank[i] = records[i].dir[2]
    BY <1>1, PlacedInHistory, HistoryKnown
  <2>4. PICK v : v \in {rank[i] : i \in placed} /\ \A w \in {rank[i] : i \in placed} : w <= v
    <3>1. IsFiniteSet({rank[i] : i \in placed})
      BY <1>1, <2>2, ImageFinite
    <3>2. {rank[i] : i \in placed} \in SUBSET Int /\ {rank[i] : i \in placed} # {}
      BY <1>4, <2>3
    <3> QED BY <3>1, <3>2, Extremes
  <2>5. PICK first : first \in {i \in placed : rank[i] = v} /\ \A j \in {i \in placed : rank[i] = v} : first <= j
    <3>1. {i \in placed : rank[i] = v} \in SUBSET placed /\ {i \in placed : rank[i] = v} \in SUBSET Int
      <4>1. \A i \in placed : i \in Int
        BY <2>2
      <4> QED BY <4>1
    <3>2. IsFiniteSet({i \in placed : rank[i] = v}) /\ {i \in placed : rank[i] = v} # {}
      BY <2>2, <2>4, <3>1, FS_Subset
    <3> QED BY <3>1, <3>2, Extremes
  <2>6. ASSUME NEW j \in placed PROVE rank[j] < rank[first] \/ (rank[j] = rank[first] /\ first <= j)
    <3>1. rank[j] <= v /\ rank[first] = v /\ rank[j] \in Int /\ v \in Int
      BY <2>3, <2>4, <2>5
    <3>2. CASE rank[j] = v
      BY <2>5, <3>1, <3>2
    <3>3. CASE rank[j] # v
      BY <3>1, <3>3
    <3> QED BY <3>2, <3>3
  <2>7. \E i \in placed : \A j \in placed : \/ records[j].dir[2] < records[i].dir[2]
                                            \/ records[j].dir[2] = records[i].dir[2] /\ i <= j
    BY <2>3, <2>5, <2>6
  <2>8. PICK i \in placed : /\ latest = records[i].dir
                            /\ \A j \in placed : \/ records[j].dir[2] < records[i].dir[2]
                                                 \/ records[j].dir[2] = records[i].dir[2] /\ i <= j
    BY <1>2, <1>4, <2>7 DEF Plans!Latest
  <2>9. ASSUME NEW j \in placed PROVE records[j].dir[2] <= latest[2]
    <3>1. records[j].dir[2] \in Int /\ latest[2] \in Int
      BY <2>3, <2>8
    <3>2. records[j].dir[2] < latest[2] \/ records[j].dir[2] = latest[2]
      BY <2>8
    <3> QED BY <3>1, <3>2
  <2> QED BY <1>1, <1>4, <2>3, <2>8, <2>9
<1> QED BY <1>1, <1>3, <1>4

\* The history a case goes on with: none if it has none, else the latest.
Continues(H, known) ==
  /\ H = {} => known = None
  /\ H # {} => known \in H /\ \A d \in H : d[2] <= known[2]
LEMMA KnownLatest ==
    ASSUME NEW records, NEW directories, Histories(records, directories), NEW t
    PROVE  Continues(HistoryOf(directories, t), Plans!Known(records, directories, t))
<1>1. PICK latest, known : latest = Plans!Latest(records, t) /\ known = Plans!Known(records, directories, t)
  OBVIOUS
<1>2. PICK H, later : /\ H = HistoryOf(directories, t)
                      /\ later = {d \in directories : Head(d) = t /\ d[2] # 0 /\ (latest = None \/ d[2] > latest[2])}
  OBVIOUS
<1>3. known = IF later = {} THEN latest ELSE CHOOSE d \in later : \A e \in later : e[2] <= d[2]
  BY <1>1, <1>2 DEF Plans!Known
<1>4. /\ PlacedFor(records, t) = {} => latest = None
      /\ PlacedFor(records, t) # {} => latest \in H
  BY <1>1, <1>2, LatestRecord
<1>5. later \in SUBSET H /\ \A d \in H : d \in later \/ (latest # None /\ ~(d[2] > latest[2]))
  BY <1>2 DEF HistoryOf
<1>6. IsFiniteSet(H) /\ \A d \in H : d[2] \in Nat /\ d # None
  BY <1>2, HistoryKnown
<1>7. CASE later = {}
  <2>1. known = latest
    BY <1>3, <1>7
  <2>2. H = {} => latest = None
    BY <1>2, <1>4, PlacedInHistory
  <2>3. ASSUME H # {} PROVE latest \in H /\ \A d \in H : d[2] <= latest[2]
    <3>1. latest # None
      BY <1>5, <1>7, <2>3
    <3>2. latest \in H
      BY <1>4, <3>1
    <3>3. ASSUME NEW d \in H PROVE d[2] <= latest[2]
      <4>1. d[2] \in Nat /\ latest[2] \in Nat /\ ~(d[2] > latest[2])
        BY <1>5, <1>6, <1>7, <3>2
      <4> QED BY ONLY <4>1
    <3> QED BY <3>2, <3>3
  <2> QED BY <1>1, <1>2, <2>1, <2>2, <2>3 DEF Continues
<1>8. CASE later # {}
  <2>1. IsFiniteSet(later)
    BY <1>5, <1>6, FS_Subset
  <2>2. PICK g : g = [d \in later |-> d[2]]
    OBVIOUS
  <2>3. IsFiniteSet({g[d] : d \in later})
    BY <2>1, <2>2, ImageFinite
  <2>4. {g[d] : d \in later} \in SUBSET Int /\ {g[d] : d \in later} # {}
    <3>1. \A d \in later : g[d] \in Int
      BY <1>5, <1>6, <2>2
    <3> QED BY <1>8, <3>1
  <2>5. \E d \in later : \A e \in later : e[2] <= d[2]
    <3>1. PICK x \in {g[d] : d \in later} : \A y \in {g[d] : d \in later} : y <= x
      BY <2>3, <2>4, Extremes
    <3>2. PICK d \in later : x = g[d]
      BY <3>1
    <3> QED BY <2>2, <3>1, <3>2
  <2>6. known \in later /\ \A e \in later : e[2] <= known[2]
    BY <1>3, <1>8, <2>5
  <2>7. known \in H
    BY <1>5, <2>6
  <2>8. ASSUME NEW d \in H PROVE d[2] <= known[2]
    <3>1. CASE d \in later
      BY <2>6, <3>1
    <3>2. CASE d \notin later
      <4>1. latest # None /\ ~(d[2] > latest[2])
        BY <1>5, <3>2
      <4>2. latest \in H /\ known[2] > latest[2]
        BY <1>2, <1>4, <2>6, <4>1
      <4>3. d[2] \in Nat /\ latest[2] \in Nat /\ known[2] \in Nat
        BY <1>6, <2>7, <4>2
      <4> QED BY ONLY <4>1, <4>2, <4>3
    <3> QED BY <3>1, <3>2
  <2> QED BY <1>1, <1>2, <1>8, <2>7, <2>8 DEF Continues
<1> QED BY <1>7, <1>8

LEMMA OneHistory ==
    ASSUME NEW directories, NEW records, Histories(records, directories), NEW t,
           NEW x, NEW y, Continues(HistoryOf(directories, t), x), Continues(HistoryOf(directories, t), y)
    PROVE  x = y
<1>1. PICK H : H = HistoryOf(directories, t)
  OBVIOUS
<1>2. \A d \in H : d[2] \in Nat /\ d = <<t, d[2]>>
  BY <1>1, HistoryKnown
<1>3. CASE H = {}
  BY <1>1, <1>3 DEF Continues
<1>4. CASE H # {}
  <2>1. x \in H /\ y \in H /\ x[2] <= y[2] /\ y[2] <= x[2]
    BY <1>1, <1>4 DEF Continues
  <2>2. x[2] = y[2]
    <3>1. x[2] \in Nat /\ y[2] \in Nat
      BY <1>2, <2>1
    <3> QED BY ONLY <2>1, <3>1
  <2> QED BY <1>2, <2>1, <2>2
<1> QED BY <1>3, <1>4

\* The directories of cases that go on as known, and may have misplaced records.
KnownTo(records, directories, tasks) == [t \in tasks |-> Plans!Known(records, directories, t)]
Misplaced(records, tasks) == {t \in tasks : \E i \in Plans!Recorded(records, t) : ~Plans!Placed(records[i])}
Outputs(tasks, now, known, misplaced) ==
  IF \E t \in tasks : known[t] = None /\ t \in misplaced THEN None
  ELSE [t \in tasks |-> IF known[t] = None THEN <<t, now>> ELSE known[t]]
LEMMA OutputsOf ==
    ASSUME NEW records, NEW directories, NEW tasks, NEW now
    PROVE  Plans!case_outputs(records, directories, tasks, now, TRUE) =
             Outputs(tasks, now, KnownTo(records, directories, tasks), Misplaced(records, tasks))
BY DEF Plans!case_outputs, Outputs, KnownTo, Misplaced, Plans!Refused, Plans!D!Refused

LEMMA TurnedRecords ==
    ASSUME NEW records, NEW directories, Histories(records, directories), NEW back, back = Backwards(records), NEW tasks
    PROVE  /\ KnownTo(back, directories, tasks) = KnownTo(records, directories, tasks)
           /\ Misplaced(back, tasks) = Misplaced(records, tasks)
<1>1. Listed(records)
  BY DEF Histories, Listed
<1>2. /\ DOMAIN back = DOMAIN records
      /\ \A i \in DOMAIN records : \E j \in DOMAIN records : back[i] = records[j] /\ back[j] = records[i]
  <2>1. TurnedOf(records, back)
    BY <1>1, ReadBackwards
  <2> QED BY <2>1 DEF TurnedOf
<1>3. Histories(back, directories)
  <2>1. PICK n \in Nat : DOMAIN records = 1 .. n /\ Len(records) = n
    BY <1>1 DEF Listed
  <2>2. back = [i \in 1 .. n |-> records[(n - i) + 1]]
    BY <2>1 DEF Backwards
  <2>3. DOMAIN back = 1 .. n /\ Len(back) = n
    BY <2>1, <2>2
  <2>4. \A i \in DOMAIN back : Plans!Placed(back[i]) => back[i].dir \in directories
    BY <1>2 DEF Histories
  <2> QED BY <2>3, <2>4 DEF Histories
<1>4. ASSUME NEW t \in tasks PROVE Plans!Known(back, directories, t) = Plans!Known(records, directories, t)
  BY <1>3, KnownLatest, OneHistory
<1>5. ASSUME NEW t \in tasks
      PROVE  (\E i \in Plans!Recorded(back, t) : ~Plans!Placed(back[i])) <=> (\E i \in Plans!Recorded(records, t) : ~Plans!Placed(records[i]))
  BY <1>2 DEF Plans!Recorded
<1> QED BY <1>4, <1>5 DEF KnownTo, Misplaced

\* A batch goes on with the latest history of each case, never with that of
\* another or an earlier one, in whatever order records are discovered; it
\* begins a new one only where there is none at all. plan.py:74-119.
THEOREM ReusesLatest ==
    ASSUME NEW records, NEW directories, Histories(records, directories), NEW tasks, NEW now,
           \A S : None \notin [tasks -> S]
    PROVE  Plans!ReuseLatest(records, directories, tasks, now)
<1>1. PICK known, misplaced, paths :
        /\ known = KnownTo(records, directories, tasks) /\ misplaced = Misplaced(records, tasks)
        /\ paths = Plans!case_outputs(records, directories, tasks, now, TRUE)
  OBVIOUS
<1>2. paths = Outputs(tasks, now, known, misplaced)
  BY <1>1, OutputsOf
<1>3. Plans!case_outputs(Plans!Reverse(records), directories, tasks, now, TRUE) = paths
  <2>1. PICK back : back = Backwards(records)
    OBVIOUS
  <2>2. Plans!Reverse(records) = back
    BY <2>1 DEF Plans!Reverse, Backwards
  <2>3. KnownTo(back, directories, tasks) = known /\ Misplaced(back, tasks) = misplaced
    BY <1>1, <2>1, TurnedRecords
  <2>4. Plans!case_outputs(back, directories, tasks, now, TRUE) = Outputs(tasks, now, known, misplaced)
    BY <2>3, OutputsOf
  <2> QED BY <1>2, <2>2, <2>4
<1>4. ASSUME NEW t \in tasks PROVE Continues(HistoryOf(directories, t), known[t])
  BY <1>1, KnownLatest DEF KnownTo
<1>5. ASSUME NEW t \in tasks PROVE known[t] = None <=> HistoryOf(directories, t) = {}
  BY <1>4, HistoryKnown DEF Continues
<1>6. ASSUME NEW t \in tasks, HistoryOf(directories, t) = {} PROVE t \in misplaced <=> Plans!Recorded(records, t) # {}
  BY <1>1, <1>6, PlacedInHistory DEF Misplaced, PlacedFor, Plans!Recorded
<1>7. paths = None <=> \E t \in tasks : HistoryOf(directories, t) = {} /\ Plans!Recorded(records, t) # {}
  <2>1. (\E t \in tasks : known[t] = None /\ t \in misplaced)
          <=> \E t \in tasks : HistoryOf(directories, t) = {} /\ Plans!Recorded(records, t) # {}
    BY <1>5, <1>6
  <2>2. ASSUME ~\E t \in tasks : known[t] = None /\ t \in misplaced PROVE paths # None
    <3>1. \E S : paths \in [tasks -> S]
      <4>1. PICK S : S = {paths[t] : t \in tasks}
        OBVIOUS
      <4>2. paths = [t \in tasks |-> IF known[t] = None THEN <<t, now>> ELSE known[t]]
        BY <1>2, <2>2 DEF Outputs
      <4>3. paths \in [tasks -> S]
        BY <4>1, <4>2
      <4> QED BY <4>3
    <3> QED BY <3>1
  <2> QED BY <1>2, <2>1, <2>2 DEF Outputs
<1>8. ASSUME paths # None, NEW t \in tasks
      PROVE  IF HistoryOf(directories, t) = {} THEN paths[t] = <<t, now>>
             ELSE paths[t] \in HistoryOf(directories, t) /\ \A d \in HistoryOf(directories, t) : d[2] <= paths[t][2]
  <2>1. paths[t] = IF known[t] = None THEN <<t, now>> ELSE known[t]
    BY <1>2, <1>8 DEF Outputs
  <2> QED BY <1>4, <1>5, <2>1 DEF Continues
<1> QED BY <1>1, <1>3, <1>7, <1>8 DEF Plans!ReuseLatest, HistoryOf, Plans!Refused, Plans!D!Refused

LEMMA PlanSizes == ASSUME NEW S PROVE Plans!Cardinality(S) = Cardinality(S)
BY DEF Plans!Cardinality, Cardinality

\* A list whose members differ has each once.
LEMMA EachOnce ==
    ASSUME NEW s, NEW m \in Nat, DOMAIN s = 1 .. m, Len(s) = m,
           \A j, k \in DOMAIN s : j < k => s[j] # s[k]
    PROVE  Plans!Once(s)
<1>1. PICK T, f : T = Plans!ToSet(s) /\ f = [k \in 1 .. m |-> s[k]]
  OBVIOUS
<1>2. T = {s[k] : k \in 1 .. m}
  BY <1>1 DEF Plans!ToSet
<1>3. \A j, k \in 1 .. m : f[j] = f[k] => j = k
  <2>1. SUFFICES ASSUME NEW j \in 1 .. m, NEW k \in 1 .. m, f[j] = f[k], j # k PROVE FALSE
    OBVIOUS
  <2>2. j < k \/ k < j
    BY <2>1
  <2> QED BY <1>1, <2>1, <2>2
<1>4. f \in Bijection(1 .. m, T)
  BY <1>1, <1>2, <1>3 DEF Bijection, Injection, IsInjective, Surjection
<1>5. Cardinality(T) = m
  BY <1>4, FS_CountingElements DEF ExistsBijection
<1> QED BY <1>1, <1>5, PlanSizes DEF Plans!Once

\* The one case each name stands for, and the names that are the first to.
OnesOf(tasks, names) == [i \in DOMAIN names |-> CHOOSE t \in Plans!Matches(tasks, names[i]) : TRUE]
FirstsOf(names, one) == {i \in DOMAIN names : \A j \in 1 .. (i - 1) : one[j] # one[i]}
LEMMA Chosen ==
    ASSUME NEW tasks, NEW names, NEW n \in Nat, DOMAIN names = 1 .. n,
           NEW chosen, chosen = Plans!select_cases(tasks, names), chosen # None,
           NEW one, one = OnesOf(tasks, names), NEW new, new = FirstsOf(names, one)
    PROVE  /\ \A i \in DOMAIN names : Cardinality(Plans!Matches(tasks, names[i])) = 1
           /\ \E kept : kept = Plans!D!Sorted(new, PlaceOf(new)) /\ chosen = [k \in DOMAIN kept |-> one[kept[k]]]
<1> DEFINE only(i) == CHOOSE t \in Plans!Matches(tasks, names[i]) : TRUE
           firsts == {i \in DOMAIN names : \A j \in 1 .. (i - 1) : only(j) # only(i)}
           kept == Plans!D!Sorted(firsts, [i \in firsts |-> i])
<1>1. chosen = IF \E i \in DOMAIN names : Plans!Cardinality(Plans!Matches(tasks, names[i])) # 1 THEN None
               ELSE [k \in DOMAIN kept |-> only(kept[k])]
  BY DEF Plans!select_cases, Plans!Refused, Plans!D!Refused
<1>2. \A i \in DOMAIN names : one[i] = only(i)
  BY DEF OnesOf
<1>3. \A i \in DOMAIN names : \A j \in 1 .. (i - 1) : j \in DOMAIN names
  OBVIOUS
<1>4. firsts = new
  BY <1>2, <1>3 DEF FirstsOf
<1>5. kept = Plans!D!Sorted(new, PlaceOf(new))
  BY <1>4 DEF PlaceOf
<1>6. PICK list : list = kept
  OBVIOUS
<1> HIDE DEF kept, firsts, only
<1>7. IsFiniteSet(new) /\ new \subseteq Int
  BY FS_Interval, FS_Subset DEF FirstsOf
<1>8. PICK f : f = PlaceOf(new)
  OBVIOUS
<1>9. f \in [new -> Int] /\ \A x, y \in new : f[x] = f[y] => x = y
  BY <1>7, <1>8 DEF PlaceOf
<1>10. ListOf(list, new, f)
  BY <1>5, <1>6, <1>7, <1>8, <1>9, SortedByNumber
<1>11. \A k \in DOMAIN list : list[k] \in DOMAIN names
  BY <1>10 DEF ListOf, FirstsOf
<1>12. chosen = [k \in DOMAIN list |-> only(list[k])] /\ \A i \in DOMAIN names : Cardinality(Plans!Matches(tasks, names[i])) = 1
  BY <1>1, <1>6, PlanSizes
<1>13. chosen = [k \in DOMAIN list |-> one[list[k]]]
  BY <1>2, <1>11, <1>12
<1> QED BY <1>5, <1>6, <1>12, <1>13

\* A name stands for the one configured case it can mean; no case is run twice,
\* and none that was not asked for. plan.py:142-154.
THEOREM CasesAsNamed ==
    ASSUME NEW tasks, NEW l \in Nat, DOMAIN tasks = 1 .. l, NEW names, NEW n \in Nat, DOMAIN names = 1 .. n
    PROVE  Plans!CaseSelected(tasks, names)
<1>1. PICK chosen : chosen = Plans!select_cases(tasks, names)
  OBVIOUS
<1>2. SUFFICES ASSUME chosen # None
      PROVE  /\ Plans!Once(chosen) /\ Plans!ToSet(chosen) \subseteq Plans!ToSet(tasks)
             /\ \A m \in Plans!ToSet(names) : \E t \in Plans!ToSet(chosen) :
                  t = m \/ \A u \in Plans!ToSet(tasks) : (<<Plans!Last(u)>> = m) = (u = t)
             /\ \A t \in Plans!ToSet(chosen) : t \in Plans!ToSet(names) \/ <<Plans!Last(t)>> \in Plans!ToSet(names)
  BY <1>1 DEF Plans!CaseSelected, Plans!Refused, Plans!D!Refused
<1>3. PICK one, new : one = OnesOf(tasks, names) /\ new = FirstsOf(names, one)
  OBVIOUS
<1>4. /\ \A i \in DOMAIN names : Cardinality(Plans!Matches(tasks, names[i])) = 1
      /\ \E kept : kept = Plans!D!Sorted(new, PlaceOf(new)) /\ chosen = [k \in DOMAIN kept |-> one[kept[k]]]
  BY <1>1, <1>2, <1>3, Chosen
<1>5. PICK kept : kept = Plans!D!Sorted(new, PlaceOf(new)) /\ chosen = [k \in DOMAIN kept |-> one[kept[k]]]
  BY <1>4
<1>6. IsFiniteSet(new) /\ new \in SUBSET (1 .. n)
  BY <1>3, FS_Interval, FS_Subset DEF FirstsOf
<1>7. PICK f : f = PlaceOf(new)
  OBVIOUS
<1>8. f \in [new -> Int] /\ (\A x, y \in new : f[x] = f[y] => x = y) /\ \A x \in new : f[x] = x
  BY <1>6, <1>7 DEF PlaceOf
<1>9. ListOf(kept, new, f)
  BY <1>5, <1>6, <1>7, <1>8, SortedByNumber
<1>10. PICK m \in Nat : DOMAIN kept = 1 .. m
  BY <1>9 DEF ListOf
<1>11. /\ \A k \in 1 .. m : kept[k] \in new
       /\ \A x \in new : \E k \in 1 .. m : kept[k] = x
       /\ \A i, j \in 1 .. m : i < j => kept[i] < kept[j]
  <2>1. /\ \A k \in 1 .. m : kept[k] \in new
        /\ \A x \in new : \E k \in 1 .. m : kept[k] = x
        /\ \A i, j \in 1 .. m : i < j => f[kept[i]] < f[kept[j]]
    BY <1>9, <1>10 DEF ListOf
  <2>2. \A k \in 1 .. m : f[kept[k]] = kept[k]
    BY <1>8, <2>1
  <2> QED BY <2>1, <2>2
<1>12. DOMAIN chosen = 1 .. m /\ Len(chosen) = m /\ \A k \in 1 .. m : chosen[k] = one[kept[k]]
  BY <1>5, <1>10
<1>13. ASSUME NEW i \in DOMAIN names
       PROVE  /\ one[i] \in Plans!Matches(tasks, names[i])
              /\ \A t \in Plans!Matches(tasks, names[i]) : t = one[i]
  <2>1. PICK M : M = Plans!Matches(tasks, names[i])
    OBVIOUS
  <2>2. IsFiniteSet(M)
    <3>1. CASE names[i] \in Plans!ToSet(tasks)
      BY <2>1, <3>1, FS_Singleton DEF Plans!Matches
    <3>2. CASE names[i] \notin Plans!ToSet(tasks)
      <4>1. Plans!ToSet(tasks) = {tasks[k] : k \in 1 .. l}
        BY DEF Plans!ToSet
      <4>2. IsFiniteSet({tasks[k] : k \in 1 .. l})
        <5>1. PICK P : P = 1 .. l
          OBVIOUS
        <5>2. IsFiniteSet(P) /\ DOMAIN tasks = P
          BY <5>1, FS_Interval
        <5>3. IsFiniteSet({tasks[k] : k \in P})
          BY <5>2, ImageFinite
        <5> QED BY <5>1, <5>3
      <4>3. M \in SUBSET Plans!ToSet(tasks)
        BY <2>1, <3>2 DEF Plans!Matches
      <4> QED BY <4>1, <4>2, <4>3, FS_Subset
    <3> QED BY <3>1, <3>2
  <2>3. PICK x : M = {x}
    <3>1. Cardinality(M) = 1
      BY <1>4, <2>1
    <3> QED BY <2>2, <3>1, FS_Singleton
  <2>4. one[i] = CHOOSE t \in M : TRUE
    BY <1>3, <2>1 DEF OnesOf
  <2> QED BY <2>1, <2>3, <2>4
<1>14. ASSUME NEW i \in DOMAIN names PROVE \E k \in 1 .. m : chosen[k] = one[i]
  <2>1. PICK same : same = {j \in 1 .. n : one[j] = one[i]}
    OBVIOUS
  <2>2. IsFiniteSet(same) /\ same \in SUBSET Int /\ i \in same
    <3>1. same \in SUBSET (1 .. n)
      BY <2>1
    <3>2. IsFiniteSet(same)
      <4>1. IsFiniteSet(1 .. n)
        BY FS_Interval
      <4> QED BY ONLY <3>1, <4>1, FS_Subset
    <3> QED BY <2>1, <3>1, <3>2
  <2>3. PICK j \in same : \A k \in same : j <= k
    BY <2>2, Extremes
  <2>4. ASSUME NEW k \in 1 .. (j - 1) PROVE one[k] # one[j]
    <3>1. j \in 1 .. n /\ k \in 1 .. n /\ ~(j <= k)
      BY <2>1, <2>3, <2>4
    <3> QED BY <2>1, <2>3, <3>1
  <2>5. j \in new
    BY <1>3, <2>1, <2>3, <2>4 DEF FirstsOf
  <2>6. PICK k \in 1 .. m : kept[k] = j
    BY <1>11, <2>5
  <2> QED BY <1>12, <2>1, <2>3, <2>6
<1>15. Plans!Once(chosen)
  <2>1. ASSUME NEW j \in DOMAIN chosen, NEW k \in DOMAIN chosen, j < k PROVE chosen[j] # chosen[k]
    <3>1. kept[j] \in new /\ kept[k] \in new /\ kept[j] < kept[k]
      BY <1>11, <1>12, <2>1
    <3>2. kept[j] \in 1 .. (kept[k] - 1)
      <4>1. kept[j] \in 1 .. n /\ kept[k] \in 1 .. n /\ kept[j] < kept[k]
        BY <1>6, <3>1
      <4> QED BY ONLY <4>1
    <3>3. one[kept[j]] # one[kept[k]]
      BY <1>3, <3>1, <3>2 DEF FirstsOf
    <3> QED BY <1>12, <3>3
  <2> QED BY <1>12, <2>1, EachOnce
<1>16. ASSUME NEW t \in Plans!ToSet(chosen)
       PROVE  \E i \in DOMAIN names : t = one[i] /\ t \in Plans!Matches(tasks, names[i])
  <2>1. PICK k \in 1 .. m : t = one[kept[k]]
    BY <1>12 DEF Plans!ToSet
  <2>2. kept[k] \in DOMAIN names
    BY <1>6, <1>11, <2>1
  <2> QED BY <1>13, <2>1, <2>2
<1>17. \A i \in DOMAIN names : \A t \in Plans!Matches(tasks, names[i]) :
         t \in Plans!ToSet(tasks) /\ (t = names[i] \/ <<Plans!Last(t)>> = names[i])
  BY DEF Plans!Matches
<1>18. ASSUME NEW name \in Plans!ToSet(names)
       PROVE  \E t \in Plans!ToSet(chosen) :
                t = name \/ \A u \in Plans!ToSet(tasks) : (<<Plans!Last(u)>> = name) = (u = t)
  <2>1. PICK i \in DOMAIN names : name = names[i]
    BY DEF Plans!ToSet
  <2>2. one[i] \in Plans!ToSet(chosen)
    BY <1>12, <1>14 DEF Plans!ToSet
  <2>3. CASE name \in Plans!ToSet(tasks)
    <3>1. name \in Plans!Matches(tasks, names[i])
      BY <2>1, <2>3 DEF Plans!Matches
    <3> QED BY <1>13, <2>1, <2>2, <3>1
  <2>4. CASE name \notin Plans!ToSet(tasks)
    <3>1. Plans!Matches(tasks, names[i]) = {u \in Plans!ToSet(tasks) : <<Plans!Last(u)>> = name}
      BY <2>1, <2>4 DEF Plans!Matches
    <3>2. \A u \in Plans!ToSet(tasks) : (<<Plans!Last(u)>> = name) <=> (u = one[i])
      BY <1>13, <3>1
    <3>3. \A u \in Plans!ToSet(tasks) : (<<Plans!Last(u)>> = name) = (u = one[i])
      BY <3>2
    <3> QED BY <2>2, <3>3
  <2> QED BY <2>3, <2>4
<1>19. \A i \in DOMAIN names : names[i] \in Plans!ToSet(names)
  BY DEF Plans!ToSet
<1>20. Plans!ToSet(chosen) \subseteq Plans!ToSet(tasks)
  BY <1>16, <1>17
<1>21. \A t \in Plans!ToSet(chosen) : t \in Plans!ToSet(names) \/ <<Plans!Last(t)>> \in Plans!ToSet(names)
  BY <1>16, <1>17, <1>19
<1> QED BY <1>15, <1>18, <1>20, <1>21

\* A path that another begins with is the beginning of it.
LEMMA PrefixParts ==
    ASSUME NEW S, NEW s \in Seq(S), NEW t \in Seq(S), Plans!IsPrefix(s, t)
    PROVE  Len(s) <= Len(t) /\ \A k \in 1 .. Len(s) : s[k] = t[k]
<1>1. Len(s) \in Nat /\ Len(t) \in Nat /\ Len(s) <= Len(t) /\ SubSeq(s, 1, Len(s)) = SubSeq(t, 1, Len(s))
  BY DEF Plans!IsPrefix
<1>2. ASSUME NEW k \in 1 .. Len(s) PROVE s[k] = t[k]
  <2>1. SubSeq(s, 1, Len(s))[k] = s[k] /\ SubSeq(t, 1, Len(s))[k] = t[k]
    BY <1>1, <1>2
  <2> QED BY <1>1, <2>1
<1> QED BY <1>1, <1>2

\* A case directory of a condition: of one with other efforts, or with none.
GroupOf(g) == \E s : g = <<s>> \/ \E e : g = <<s, e>>
CaseDirectory(g, t, now) == g \o <<t, now>>
Parts(g, t, now, d) ==
  /\ Len(g) \in 1 .. 2 /\ Len(d) = Len(g) + 2 /\ \A k \in 1 .. Len(g) : d[k] = g[k]
  /\ d[Len(g) + 1] = t /\ d[Len(g) + 2] = now
LEMMA DirectoryParts ==
    ASSUME NEW S, NEW g \in Seq(S), Len(g) \in 1 .. 2, NEW t \in S, NEW now \in S
    PROVE  CaseDirectory(g, t, now) \in Seq(S) /\ Parts(g, t, now, CaseDirectory(g, t, now))
<1>1. PICK e : e = <<t, now>>
  OBVIOUS
<1>2. e \in Seq(S) /\ Len(e) = 2 /\ e[1] = t /\ e[2] = now
  BY <1>1
<1>3. g \o e \in Seq(S) /\ Len(g \o e) = Len(g) + 2
  <2>1. g \o e \in Seq(S)
    BY <1>2
  <2>3. g \in Seq(S) /\ e \in Seq(S)
    BY <1>2
  <2>2. Len(g \o e) = Len(g) + Len(e)
    BY ONLY <2>3
  <2> QED BY <1>2, <2>1, <2>2
<1>4. \A k \in 1 .. Len(g) : (g \o e)[k] = g[k]
  BY <1>2
<1>5. (g \o e)[Len(g) + 1] = e[1] /\ (g \o e)[Len(g) + 2] = e[2]
  BY <1>2
<1> QED BY <1>1, <1>2, <1>3, <1>4, <1>5 DEF CaseDirectory, Parts

LEMMA GroupParts ==
    ASSUME NEW S, NEW s \in S, NEW e \in S, NEW g, g = <<s>> \/ g = <<s, e>>
    PROVE  g \in Seq(S) /\ Len(g) \in 1 .. 2
<1>1. CASE g = <<s>>
  BY <1>1
<1>2. CASE g = <<s, e>>
  BY <1>2
<1> QED BY <1>1, <1>2
LEMMA DirectoriesApart ==
    ASSUME NEW now, NEW g, GroupOf(g), NEW t, NEW h, GroupOf(h), NEW u, u # now,
           Plans!IsPrefix(CaseDirectory(g, t, now), CaseDirectory(h, u, now))
    PROVE  g = h /\ t = u
<1>1. PICK a, m : g = <<a>> \/ g = <<a, m>>
  BY DEF GroupOf
<1>2. PICK b, n : h = <<b>> \/ h = <<b, n>>
  BY DEF GroupOf
<1>3. PICK S : S = {a, b, m, n, t, u, now}
  OBVIOUS
<1>4. /\ g \in Seq(S) /\ h \in Seq(S) /\ t \in S /\ u \in S /\ now \in S
      /\ Len(g) \in 1 .. 2 /\ Len(h) \in 1 .. 2
  <2>1. a \in S /\ b \in S /\ m \in S /\ n \in S /\ t \in S /\ u \in S /\ now \in S
    BY <1>3
  <2> QED BY <1>1, <1>2, <2>1, GroupParts
<1>5. PICK d, e : d = CaseDirectory(g, t, now) /\ e = CaseDirectory(h, u, now)
  OBVIOUS
<1>6. d \in Seq(S) /\ e \in Seq(S) /\ Parts(g, t, now, d) /\ Parts(h, u, now, e)
  BY <1>4, <1>5, DirectoryParts
<1>7. Len(d) <= Len(e) /\ \A k \in 1 .. Len(d) : d[k] = e[k]
  BY <1>5, <1>6, PrefixParts
<1>8. Len(g) = Len(h)
  <2>1. SUFFICES ASSUME Len(g) # Len(h) PROVE FALSE
    OBVIOUS
  <2>2. Len(g) = 1 /\ Len(h) = 2
    <3>1. Len(d) = Len(g) + 2 /\ Len(e) = Len(h) + 2
      BY <1>6 DEF Parts
    <3> QED BY ONLY <1>4, <1>7, <2>1, <3>1
  <2>3. d[3] = now /\ e[3] = u /\ Len(d) = 3
    BY <1>6, <2>2 DEF Parts
  <2>4. d[3] = e[3]
    BY <1>7, <2>3
  <2> QED BY <2>3, <2>4
<1>9. \A k \in 1 .. Len(g) : g[k] = h[k]
  BY <1>4, <1>6, <1>7, <1>8 DEF Parts
<1>10. t = u
  BY <1>4, <1>6, <1>7, <1>8 DEF Parts
<1>11. g = h
  BY <1>1, <1>2, <1>8, <1>9
<1> QED BY <1>10, <1>11

\* The conditions of a batch by configuration and effort.
Places(configs) == UNION {{<<i, e>>: e \in DOMAIN configs[i].efforts}: i \in DOMAIN configs}
TableOf(configs) == [p \in Places(configs) |-> Plans!Condition(configs[p[1]], configs[p[1]].efforts[p[2]])]
LEMMA PlacesOf ==
    ASSUME NEW configs, NEW k \in Places(configs)
    PROVE  \E i \in DOMAIN configs : \E f \in DOMAIN configs[i].efforts : k = <<i, f>>
<1>1. PICK S \in {{<<i, e>>: e \in DOMAIN configs[i].efforts}: i \in DOMAIN configs} : k \in S
  BY DEF Places
<1>2. PICK i \in DOMAIN configs : S = {<<i, e>>: e \in DOMAIN configs[i].efforts}
  BY <1>1
<1> QED BY <1>1, <1>2
LEMMA PlannedConditions ==
    ASSUME NEW configs, NEW rows, rows = Plans!plan_conditions(configs), rows # None
    PROVE  /\ rows = TableOf(configs)
           /\ \A p, q \in DOMAIN rows : p # q => rows[p].group # rows[q].group
<1>1. Plans!Refused = None
  BY DEF Plans!Refused, Plans!D!Refused
<1>2. rows = IF /\ \A i \in DOMAIN configs: Plans!Once(configs[i].efforts) /\ Plans!Once(configs[i].tasks)
                /\ \A p, q \in DOMAIN TableOf(configs): p # q => TableOf(configs)[p].group # TableOf(configs)[q].group
             THEN TableOf(configs) ELSE None
  BY <1>1 DEF Plans!plan_conditions, TableOf, Places
<1> QED BY <1>2

\* No two conditions write into the same case directory, nor one below another's,
\* whatever files, efforts and cases they have in common, but for a case with
\* the name of a timestamp. plan.py:127-139, 174-182.
THEOREM ConditionsKeptApart ==
    ASSUME NEW configs, NEW now, \A i \in DOMAIN configs : now \notin Plans!ToSet(configs[i].tasks)
    PROVE  Plans!ConditionsApart(configs, now)
<1> DEFINE rows == Plans!plan_conditions(configs)
           dirs(p) == {rows[p].group \o <<t, now>>: t \in Plans!ToSet(rows[p].tasks)}
<1>0. SUFFICES ASSUME rows # None, NEW p \in DOMAIN rows, NEW q \in DOMAIN rows,
                      NEW d \in dirs(p), NEW e \in dirs(q), <<p, d>> # <<q, e>>
      PROVE  ~Plans!IsPrefix(d, e)
  BY DEF Plans!ConditionsApart, Plans!Refused, Plans!D!Refused
<1>1. rows = Plans!plan_conditions(configs)
  OBVIOUS
<1> HIDE DEF rows
<1>2. PICK t, u : /\ t \in Plans!ToSet(rows[p].tasks) /\ u \in Plans!ToSet(rows[q].tasks)
                  /\ d = CaseDirectory(rows[p].group, t, now) /\ e = CaseDirectory(rows[q].group, u, now)
  BY <1>0 DEF CaseDirectory
<1>3. rows = TableOf(configs) /\ \A i, j \in DOMAIN rows : i # j => rows[i].group # rows[j].group
  BY <1>0, <1>1, PlannedConditions
<1>4. ASSUME NEW k \in DOMAIN rows
      PROVE  GroupOf(rows[k].group) /\ \E i \in DOMAIN configs : rows[k].tasks = configs[i].tasks
  <2>5. PICK i \in DOMAIN configs : \E f \in DOMAIN configs[i].efforts : k = <<i, f>>
    BY <1>3, PlacesOf DEF TableOf
  <2>1. PICK f \in DOMAIN configs[i].efforts : k = <<i, f>>
    BY <2>5
  <2>2. rows[k] = Plans!Condition(configs[k[1]], configs[k[1]].efforts[k[2]])
    BY <1>3 DEF TableOf
  <2>3. rows[k] = Plans!Condition(configs[i], configs[i].efforts[f])
    BY <2>1, <2>2
  <2>4. /\ rows[k].tasks = configs[i].tasks
        /\ rows[k].group = (IF Len(configs[i].efforts) > 1 THEN <<configs[i].stem, configs[i].efforts[f]>> ELSE <<configs[i].stem>>)
    BY <2>3 DEF Plans!Condition
  <2>6. GroupOf(rows[k].group)
    BY <2>4 DEF GroupOf
  <2> QED BY <2>4, <2>6
<1>5. u # now
  BY <1>2, <1>4
<1>6. SUFFICES ASSUME Plans!IsPrefix(d, e) PROVE FALSE
  OBVIOUS
<1>7. rows[p].group = rows[q].group /\ t = u
  BY <1>2, <1>4, <1>5, <1>6, DirectoriesApart
<1>8. p = q
  BY <1>3, <1>7
<1> QED BY <1>0, <1>2, <1>7, <1>8
=============================================================================
