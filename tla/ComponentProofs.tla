---------------------------- MODULE ComponentProofs ----------------------------
(***************************************************************************)
(* Proofs about the components that run beside a session: the run of a     *)
(* tool, the conversation a CLI resumes, the gateway to the model, the     *)
(* shared login and the end of a process tree.                             *)
(***************************************************************************)
EXTENDS ComponentMachines, Integers, Sequences, FiniteSetTheorems,
        WellFoundedInduction, TLAPS

-----------------------------------------------------------------------------
(* The run of a tool                                                       *)

Evidence == {"execution_error", "missing", "cleanup_error"}
Results == [code : Tool!Codes \cup {"none"}, reason : BOOLEAN, evidence : SUBSET Evidence,
            log : SUBSET Markers, produced : BOOLEAN, client : BOOLEAN]
Judgements == [evidence : SUBSET Evidence,
               failure : {"license_unavailable", "native_crash", "none"}, retryable : BOOLEAN]

ToolTypes ==
  /\ at \in {"ready", "create", "load", "run", "drain", "collect", "remove", "inspect",
             "judge", "raised", "backoff", "done"}
  /\ attempt \in Nat /\ containers \subseteq Nat /\ alive \in BOOLEAN
  /\ result \in Results /\ history \in Seq(Judgements) /\ retained \subseteq Nat

Between == at \in {"ready", "backoff"}

\* Only an attempt under way has a container, and only its own; one whose removal
\* failed says so before it is judged.
ContainersKnown ==
  /\ Between \/ at = "create" => containers = {}
  /\ at \in {"load", "run", "drain", "collect"} => containers = {attempt}
  /\ at \in {"remove", "inspect", "judge"} => containers \subseteq {attempt}
  /\ at = "judge" /\ containers # {} => "cleanup_error" \in result.evidence /\ result.reason
  /\ containers = {} => ~alive

\* An attempt that gives no reason to fail has its outputs once they were read.
OutputsKnown ==
  at \in {"remove", "inspect", "judge"} /\ ~result.reason => result.produced

\* The attempts that were judged, and those whose evidence is kept.
AttemptsKnown ==
  /\ Between => Len(history) = attempt /\ 1 .. attempt \subseteq retained
  /\ ~Between /\ at # "done" =>
       attempt > 0 /\ Len(history) = attempt - 1 /\ 1 .. (attempt - 1) \subseteq retained
  /\ \A i \in 1 .. Len(history) : i < attempt \/ Between =>
       history[i].retryable /\ "cleanup_error" \notin history[i].evidence

AnswerKnown ==
  /\ at # "done" => answer = "none"
  /\ answer = "completed" =>
       result.code = "zero" /\ result.produced /\ containers = {} /\ ~alive
  /\ answer # "none" => 1 .. (attempt - 1) \subseteq retained
  /\ Tool!LeftoversTold

ToolInv == ToolTypes /\ ContainersKnown /\ OutputsKnown /\ AttemptsKnown /\ AnswerKnown

\* A failure of an attempt takes nothing from its result but the hope.
LEMMA FailingMeans ==
    ASSUME result \in Results, NEW e \in Evidence
    PROVE /\ Tool!Failing(e) \in Results /\ Tool!Failing(e).reason = TRUE
          /\ e \in Tool!Failing(e).evidence /\ Tool!Failing(e).code = result.code
<1>1. result.evidence \cup {e} \in SUBSET Evidence
  BY DEF Results
<1> QED BY <1>1 DEF Results, Tool!Failing

LEMMA BlankTyped == Tool!Blank \in Results /\ Tool!Unexplained \in Results
BY DEF Results, Evidence, Tool!Blank, Tool!Unexplained, Tool!Codes

\* The attempt goes on, and with it nothing that was judged.
LEMMA AttemptGoesOn ==
    ASSUME ToolInv, ~Between, at # "done", ~Between', at' # "done",
           UNCHANGED <<attempt, history, retained, answer>>
    PROVE AttemptsKnown' /\ AnswerKnown'
BY DEF ToolInv, AttemptsKnown, AnswerKnown, Tool!LeftoversTold, Between

LEMMA ProceedKeeps == ToolInv /\ Tool!Proceed => ToolInv'
<1> SUFFICES ASSUME ToolInv, Tool!Proceed PROVE ToolInv'
  OBVIOUS
<1> USE DEF ToolInv
<1>1. /\ Between /\ containers = {} /\ ~alive
      /\ UNCHANGED <<cancelled, late, containers, alive, signalled, history, retained, faults>>
  BY DEF Tool!Proceed, Between, ContainersKnown
<1>2. CASE cancelled \/ late
  <2>1. /\ at' = "done" /\ answer' \in {"cancelled", "deadline"}
        /\ UNCHANGED <<attempt, result, removals>>
    BY <1>2 DEF Tool!Proceed, Tool!Interrupted
  <2>2. attempt - 1 <= attempt /\ attempt \in Nat
    BY DEF ToolTypes
  <2>3. 1 .. (attempt - 1) \subseteq retained
    BY <1>1, <2>2 DEF AttemptsKnown
  <2>4. ToolTypes' /\ ContainersKnown' /\ OutputsKnown'
    BY <1>1, <2>1 DEF ToolTypes, ContainersKnown, OutputsKnown, Between
  <2>5. AttemptsKnown'
    BY <1>1, <2>1 DEF AttemptsKnown, Between
  <2>6. AnswerKnown'
    BY <1>1, <2>1, <2>3 DEF AnswerKnown, Tool!LeftoversTold
  <2> QED BY <2>4, <2>5, <2>6
<1>3. CASE ~(cancelled \/ late) /\ at = "backoff"
  <2>1. at' = "ready" /\ UNCHANGED <<answer, attempt, result, removals>>
    BY <1>3 DEF Tool!Proceed
  <2> QED BY <1>1, <2>1 DEF ToolTypes, ContainersKnown, OutputsKnown, AttemptsKnown, AnswerKnown,
                            Tool!LeftoversTold, Between
<1>4. CASE ~(cancelled \/ late) /\ at # "backoff"
  <2>1. /\ at' = "create" /\ attempt' = attempt + 1 /\ result' = Tool!Blank /\ answer' = answer
    BY <1>4 DEF Tool!Proceed
  <2>2. ToolTypes'
    BY <1>1, <2>1, BlankTyped DEF ToolTypes
  <2>3. ContainersKnown' /\ OutputsKnown'
    BY <1>1, <2>1 DEF ContainersKnown, OutputsKnown, Between
  <2>4. AttemptsKnown'
    BY <1>1, <2>1 DEF AttemptsKnown, Between, ToolTypes
  <2>5. answer = "none"
    BY <1>1 DEF AnswerKnown, Between
  <2>6. AnswerKnown'
    BY <2>1, <2>5 DEF AnswerKnown, Tool!LeftoversTold
  <2> QED BY <2>2, <2>3, <2>4, <2>6
<1> QED BY <1>2, <1>3, <1>4

LEMMA CreateKeeps == ToolInv /\ Tool!Create => ToolInv'
<1> SUFFICES ASSUME ToolInv, Tool!Create PROVE ToolInv'
  OBVIOUS
<1> USE DEF ToolInv
<1>1. /\ at = "create" /\ at' \in {"judge", "load", "raised"}
      /\ UNCHANGED <<attempt, alive, history, retained, answer>>
  BY DEF Tool!Create
<1>2. containers = {} /\ ~alive /\ attempt \in Nat
  BY <1>1 DEF ContainersKnown, ToolTypes
<1>3. AttemptsKnown' /\ AnswerKnown'
  BY <1>1, AttemptGoesOn DEF Between
<1>4. CASE at' = "judge"
  <2>1. containers' = containers /\ result' = Tool!Failing("execution_error")
    BY <1>4 DEF Tool!Create
  <2>2. result' \in Results /\ result'.reason = TRUE
    BY <2>1, FailingMeans DEF Evidence, ToolTypes
  <2> QED BY <1>1, <1>2, <1>3, <1>4, <2>1, <2>2 DEF ToolTypes, ContainersKnown, OutputsKnown, Between
<1>5. CASE at' # "judge"
  <2>1. /\ result' = result /\ containers' \subseteq {attempt}
        /\ at' = "load" => containers' = {attempt}
    BY <1>2, <1>5 DEF Tool!Create
  <2> QED BY <1>1, <1>2, <1>3, <1>5, <2>1 DEF ToolTypes, ContainersKnown, OutputsKnown, Between
<1> QED BY <1>4, <1>5

\* The steps between the creation of a container and its removal.
LEMMA WorkKeeps ==
    ASSUME ToolInv, Tool!Load \/ Tool!Exit \/ Tool!GiveUp \/ Tool!Drain \/ Tool!Collect
    PROVE ToolInv'
<1> USE DEF ToolInv
<1>1. /\ at \in {"load", "run", "drain", "collect"} /\ at' \in {"run", "drain", "collect", "remove"}
      /\ UNCHANGED <<attempt, containers, history, retained, answer>>
  BY DEF Tool!Load, Tool!Exit, Tool!GiveUp, Tool!Drain, Tool!Collect
<1>2. containers = {attempt} /\ attempt \in Nat /\ result \in Results
  BY <1>1 DEF ContainersKnown, ToolTypes
<1>3. AttemptsKnown' /\ AnswerKnown'
  BY <1>1, AttemptGoesOn DEF Between
<1>4. alive' \in BOOLEAN
  BY <1>1, <1>2 DEF Tool!Load, Tool!Exit, Tool!GiveUp, Tool!Drain, Tool!Collect, ToolTypes
<1>5. result' \in Results /\ (at' = "remove" => result'.reason \/ result'.produced)
  <2>1. \A e \in Evidence : Tool!Failing(e) \in Results /\ Tool!Failing(e).reason = TRUE
    BY <1>2, FailingMeans
  <2>2. "execution_error" \in Evidence /\ "missing" \in Evidence
    BY DEF Evidence
  <2>3. CASE Tool!Load
    <3>1. [result EXCEPT !.client = TRUE] \in Results
      BY <1>2 DEF Results
    <3>2. \/ at' = "run" /\ result' = [result EXCEPT !.client = TRUE]
          \/ result' = Tool!Failing("execution_error")
      BY <2>3 DEF Tool!Load
    <3> QED BY <2>1, <2>2, <3>1, <3>2
  <2>4. CASE Tool!Exit
    <3>1. PICK code \in Tool!Codes, log \in SUBSET Markers :
            result' = [result EXCEPT !.code = code, !.log = log, !.reason = code # "zero",
                                     !.client = FALSE]
      BY <2>4 DEF Tool!Exit
    <3>2. PICK b \in BOOLEAN : b = (code # "zero")
      OBVIOUS
    <3>3. [result EXCEPT !.code = code, !.log = log, !.reason = b, !.client = FALSE] \in Results
      BY <1>2 DEF Results
    <3> QED BY <2>4, <3>1, <3>2, <3>3 DEF Tool!Exit
  <2>5. CASE Tool!GiveUp
    BY <2>1, <2>2, <2>5 DEF Tool!GiveUp
  <2>6. CASE Tool!Drain
    <3>1. \A log \in SUBSET Markers : [result EXCEPT !.log = log, !.client = FALSE] \in Results
      BY <1>2 DEF Results
    <3>2. \/ at' = "collect" /\ \E log \in SUBSET Markers :
               \/ result' = [result EXCEPT !.log = log, !.client = FALSE]
               \/ result' = result
          \/ result' = Tool!Failing("execution_error")
      BY <2>6 DEF Tool!Drain
    <3> QED BY <1>2, <2>1, <2>2, <3>1, <3>2
  <2>7. CASE Tool!Collect
    <3>1. [result EXCEPT !.produced = TRUE] \in Results
          /\ [result EXCEPT !.produced = TRUE].produced = TRUE
      BY <1>2 DEF Results
    <3>2. \/ result' = [result EXCEPT !.produced = TRUE]
          \/ result' = Tool!Failing("missing") \/ result' = Tool!Failing("execution_error")
      BY <2>7 DEF Tool!Collect
    <3> QED BY <2>1, <2>2, <3>1, <3>2
  <2> QED BY <2>3, <2>4, <2>5, <2>6, <2>7
<1> QED BY <1>1, <1>2, <1>3, <1>4, <1>5 DEF ToolTypes, ContainersKnown, OutputsKnown, Between

LEMMA RemovalKeeps ==
    ASSUME ToolInv, Tool!RemoveContainer \/ Tool!Inspect \/ Tool!ClientHangs
    PROVE ToolInv'
<1> USE DEF ToolInv
<1>1. /\ at \in {"remove", "inspect", "judge"} /\ at' \in {"remove", "inspect", "judge", "raised"}
      /\ UNCHANGED <<attempt, history, retained, answer>>
  BY DEF Tool!RemoveContainer, Tool!Inspect, Tool!ClientHangs
<1>2. /\ containers \subseteq {attempt} /\ attempt \in Nat /\ result \in Results
      /\ alive \in BOOLEAN /\ (containers = {} => ~alive)
  BY <1>1 DEF ContainersKnown, ToolTypes
<1>3. AttemptsKnown' /\ AnswerKnown'
  BY <1>1, AttemptGoesOn DEF Between
<1>4. Tool!Failing("cleanup_error") \in Results /\ Tool!Failing("cleanup_error").reason = TRUE
      /\ "cleanup_error" \in Tool!Failing("cleanup_error").evidence
  BY <1>2, FailingMeans DEF Evidence
<1>5. CASE Tool!RemoveContainer
  <2>1. /\ containers' \subseteq containers /\ alive' = (alive /\ attempt \in containers')
        /\ \/ at' = "judge" /\ containers' = {} /\ result' = result
           \/ at' = "inspect" /\ result' = result
           \/ at' = "judge" /\ result' = Tool!Failing("cleanup_error")
    BY <1>2, <1>5 DEF Tool!RemoveContainer
  <2>2. alive' \in BOOLEAN /\ (containers' = {} => ~alive')
    BY <2>1
  <2> QED BY <1>1, <1>2, <1>3, <1>4, <1>5, <2>1, <2>2
          DEF ToolTypes, ContainersKnown, OutputsKnown, Between, Tool!RemoveContainer
<1>6. CASE Tool!Inspect
  <2>1. /\ containers' = containers /\ alive' = alive
        /\ \/ at' = "judge" /\ containers = {} /\ result' = result
           \/ at' = "remove" /\ result' = result
           \/ at' = "judge" /\ result' = Tool!Failing("cleanup_error")
    <3>1. containers' = containers /\ alive' = alive
      BY <1>6 DEF Tool!Inspect
    <3>2. \/ attempt \notin containers /\ at' = "judge" /\ result' = result
          \/ at' = "remove" /\ result' = result
          \/ at' = "judge" /\ result' = Tool!Failing("cleanup_error")
      BY <1>6 DEF Tool!Inspect
    <3>3. attempt \notin containers => containers = {}
      BY <1>2
    <3> QED BY <3>1, <3>2, <3>3
  <2>2. ToolTypes'
    BY <1>1, <1>2, <1>4, <2>1 DEF ToolTypes
  <2>3. ContainersKnown'
    BY <1>1, <1>2, <1>4, <2>1 DEF ContainersKnown, Between
  <2>4. at \in {"remove", "inspect"}
    BY <1>6 DEF Tool!Inspect
  <2>5. OutputsKnown'
    BY <1>4, <2>1, <2>4 DEF OutputsKnown
  <2> QED BY <1>3, <2>2, <2>3, <2>5
<1>7. CASE Tool!ClientHangs
  BY <1>1, <1>2, <1>3, <1>7 DEF ToolTypes, ContainersKnown, OutputsKnown, Between, Tool!ClientHangs
<1> QED BY <1>5, <1>6, <1>7

\* An attempt is judged, by its result or as one that raised.
LEMMA ConcludeKeeps ==
    ASSUME ToolInv, at \in {"judge", "raised"}, NEW r \in Results, Tool!Conclude(r),
           UNCHANGED <<attempt, containers, alive>>,
           at = "judge" \/ Tool!Failed(r),
           at = "judge" => r = result,
           at = "raised" => r = Tool!Unexplained
    PROVE ToolInv'
<1> USE DEF ToolInv
<1>1. PICK j : j = [evidence |-> r.evidence, failure |-> Tool!Diagnosis(r.log), retryable |-> Tool!Retryable(r)]
  OBVIOUS
<1>2. j \in Judgements /\ j.retryable = Tool!Retryable(r) /\ j.evidence = r.evidence
  BY <1>1 DEF Judgements, Tool!Diagnosis, Tool!Retryable, Results, Tool!Failed, Tool!Recoverable
<1>3. /\ history' = Append(history, j) /\ result' = r /\ attempt \in Nat /\ attempt > 0
      /\ Len(history) = attempt - 1 /\ history \in Seq(Judgements)
  BY <1>1 DEF Tool!Conclude, ToolTypes, AttemptsKnown, Between
<1>4. /\ history' \in Seq(Judgements) /\ Len(history') = attempt /\ history'[attempt] = j
      /\ \A i \in 1 .. Len(history) : history'[i] = history[i]
  BY <1>2, <1>3
<1>5. 1 .. attempt = (1 .. (attempt - 1)) \cup {attempt}
  BY <1>3
<1>6. 1 .. (attempt - 1) \subseteq retained /\ retained \subseteq Nat
  BY DEF AttemptsKnown, Between, ToolTypes
<1>7. \/ ~Tool!Retryable(r) /\ at' = "done" /\ retained' = retained
           /\ answer' = IF Tool!Failed(r) THEN "non_retryable" ELSE "completed"
      \/ at' = "done" /\ answer' = "exhausted" /\ retained' = retained /\ Tool!Failed(r)
      \/ /\ at' = "backoff" /\ retained' = retained \cup {attempt} /\ answer' = answer
         /\ Tool!Retryable(r)
  BY DEF Tool!Conclude, Tool!Retryable
<1>8. Tool!Retryable(r) => "cleanup_error" \notin r.evidence /\ at = "judge" /\ containers = {} /\ ~alive
  <2>1. ~Tool!Retryable(Tool!Unexplained)
    BY DEF Tool!Retryable, Tool!Recoverable, Tool!Diagnosis, Tool!Unexplained, Tool!Blank
  <2> QED BY <2>1 DEF Tool!Retryable, ContainersKnown
<1>9. ToolTypes'
  BY <1>3, <1>4, <1>6, <1>7 DEF ToolTypes
<1>10. ContainersKnown' /\ OutputsKnown'
  BY <1>7, <1>8 DEF ContainersKnown, OutputsKnown, Between
<1>11. AttemptsKnown'
  <2>1. \A i \in 1 .. Len(history) : history'[i].retryable /\ "cleanup_error" \notin history'[i].evidence
    BY <1>3, <1>4 DEF AttemptsKnown
  <2>2. CASE at' = "backoff"
    <3>1. Tool!Retryable(r) /\ retained' = retained \cup {attempt}
      BY <1>7, <2>2
    <3>2. history'[attempt].retryable /\ "cleanup_error" \notin history'[attempt].evidence
      BY <1>2, <1>4, <1>8, <3>1
    <3> QED BY <1>3, <1>4, <1>5, <1>6, <2>1, <2>2, <3>1, <3>2 DEF AttemptsKnown, Between
  <2>3. CASE at' = "done"
    BY <1>3, <1>4, <2>1, <2>3 DEF AttemptsKnown, Between
  <2> QED BY <1>7, <2>2, <2>3
<1>12. AnswerKnown'
  <2>1. CASE at' = "backoff"
    <3>1. answer' = "none"
      BY <1>7, <2>1 DEF AnswerKnown
    <3> QED BY <2>1, <3>1 DEF AnswerKnown, Tool!LeftoversTold
  <2>2. CASE at' = "done"
    <3>1. 1 .. (attempt - 1) \subseteq retained'
      BY <1>6, <1>7, <2>2
    <3>2. answer' = "completed" =>
            result'.code = "zero" /\ result'.produced /\ containers' = {} /\ ~alive'
      <4> SUFFICES ASSUME answer' = "completed"
                   PROVE result'.code = "zero" /\ result'.produced /\ containers' = {} /\ ~alive'
        OBVIOUS
      <4>1. ~Tool!Failed(r)
        BY <1>7, <2>2
      <4>2. at = "judge" /\ r = result /\ ~r.reason /\ r.code = "zero"
        BY <4>1 DEF Tool!Failed
      <4>3. result.produced
        BY <4>2 DEF OutputsKnown
      <4>4. containers = {} /\ ~alive
        BY <4>1, <4>2 DEF ContainersKnown
      <4> QED BY <1>3, <4>2, <4>3, <4>4
    <3>3. Tool!LeftoversTold'
      BY <1>3 DEF ContainersKnown, Tool!LeftoversTold
    <3> QED BY <2>2, <3>1, <3>2, <3>3 DEF AnswerKnown
  <2> QED BY <1>7, <2>1, <2>2
<1> QED BY <1>9, <1>10, <1>11, <1>12

LEMMA JudgingKeeps ==
    ASSUME ToolInv, Tool!Judge \/ Tool!Raised
    PROVE ToolInv'
<1>1. CASE Tool!Judge
  <2>1. PICK r : r = result
    OBVIOUS
  <2>2. r \in Results /\ at = "judge" /\ Tool!Conclude(r) /\ UNCHANGED <<attempt, containers, alive>>
    BY <1>1, <2>1 DEF Tool!Judge, ToolInv, ToolTypes
  <2> QED BY <2>1, <2>2, ConcludeKeeps
<1>2. CASE Tool!Raised /\ history # << >>
  <2>1. PICK r : r = Tool!Unexplained
    OBVIOUS
  <2>2. r \in Results /\ at = "raised" /\ Tool!Conclude(r) /\ UNCHANGED <<attempt, containers, alive>>
    BY <1>2, <2>1, BlankTyped DEF Tool!Raised
  <2>3. Tool!Failed(r)
    <3>1. PICK b : b = Tool!Blank
      OBVIOUS
    <3>2. b \in Results /\ r = [b EXCEPT !.reason = TRUE, !.evidence = {"execution_error"}]
      BY <2>1, <3>1, BlankTyped DEF Tool!Unexplained
    <3>3. r.reason
      BY <3>2 DEF Results
    <3> QED BY <3>3 DEF Tool!Failed
  <2> QED BY <2>1, <2>2, <2>3, ConcludeKeeps
<1>3. CASE Tool!Raised /\ history = << >>
  <2>1. /\ at = "raised" /\ at' = "done" /\ answer' = "raised"
        /\ UNCHANGED <<attempt, containers, alive, history, result, retained>>
    BY <1>3 DEF Tool!Raised
  <2>2. ToolTypes' /\ ContainersKnown' /\ OutputsKnown'
    BY <2>1 DEF ToolInv, ToolTypes, ContainersKnown, OutputsKnown, Between
  <2>3. AttemptsKnown'
    BY <2>1 DEF ToolInv, AttemptsKnown, Between
  <2>4. AnswerKnown'
    BY <2>1 DEF ToolInv, AnswerKnown, AttemptsKnown, Between, Tool!LeftoversTold
  <2> QED BY <2>2, <2>3, <2>4 DEF ToolInv
<1> QED BY <1>1, <1>2, <1>3

LEMMA ToolLeftAlone ==
    ASSUME ToolInv, UNCHANGED <<at, attempt, containers, alive, result, history, retained, answer>>
    PROVE ToolInv'
BY DEF ToolInv, ToolTypes, ContainersKnown, OutputsKnown, AttemptsKnown, AnswerKnown, Between,
       Tool!LeftoversTold

\* The inductive invariant of a tool's run: whose containers are left, what an
\* attempt has shown, and which attempts were judged.
THEOREM ToolInvariant == ToolSpec => []ToolInv
<1>1. Tool!Init => ToolInv
  <2> SUFFICES ASSUME Tool!Init PROVE ToolInv
    OBVIOUS
  <2> USE DEF Tool!Init
  <2>1. ToolTypes
    <3>1. << >> \in Seq(Judgements) /\ {} \subseteq Nat /\ 0 \in Nat
      OBVIOUS
    <3> QED BY <3>1, BlankTyped DEF ToolTypes
  <2>2. 1 .. 0 = {} /\ Len(<< >>) = 0
    OBVIOUS
  <2>3. ContainersKnown /\ OutputsKnown /\ AttemptsKnown /\ AnswerKnown
    BY <2>2 DEF ContainersKnown, OutputsKnown, AttemptsKnown, AnswerKnown, Between, Tool!LeftoversTold
  <2> QED BY <2>1, <2>3 DEF ToolInv
<1>2. ToolInv /\ [Tool!Next]_Tool!toolVars => ToolInv'
  <2> SUFFICES ASSUME ToolInv, [Tool!Next]_Tool!toolVars PROVE ToolInv'
    OBVIOUS
  <2>1. CASE Tool!Cancel \/ Tool!Expire
    BY <2>1, ToolLeftAlone DEF Tool!Cancel, Tool!Expire
  <2>2. CASE UNCHANGED Tool!toolVars
    BY <2>2, ToolLeftAlone DEF Tool!toolVars
  <2> QED BY <2>1, <2>2, ProceedKeeps, CreateKeeps, WorkKeeps, RemovalKeeps, JudgingKeeps
          DEF Tool!Next
<1> QED BY <1>1, <1>2, PTL DEF ToolSpec

\* Whatever docker command fails, and whenever the caller cancels or its deadline
\* passes: an attempt works in a fresh container, a completed job has all its
\* outputs and leaves nothing running, nothing is repeated that left a container,
\* and a container that is left over is told (execution/tools).
THEOREM ToolRunSound == ToolSpec => []Tool!ToolRunHolds
<1>1. ToolInv => Tool!ToolRunHolds
  <2> SUFFICES ASSUME ToolInv PROVE Tool!ToolRunHolds
    OBVIOUS
  <2>1. Tool!FreshWorkspace
    BY DEF ToolInv, ContainersKnown, Tool!FreshWorkspace
  <2>2. Tool!HonestAnswer /\ Tool!LeftoversTold
    BY DEF ToolInv, AttemptsKnown, AnswerKnown, Tool!HonestAnswer
  <2> QED BY <2>1, <2>2 DEF Tool!ToolRunHolds
<1> QED BY <1>1, ToolInvariant, PTL

-----------------------------------------------------------------------------
(* The conversation of a CLI                                               *)

\* Until the first launch there is nothing; whoever works then, works in the
\* conversation of the first launch, whose header is whole before another
\* session is opened beside it.
ConversationInv ==
  /\ harness \in {"codex", "claude", "kimi", "dsh", "zcode"}
  /\ IsFiniteSet(files)
  /\ files \subseteq [id : Nat, here : BOOLEAN, side : BOOLEAN, legible : BOOLEAN]
  /\ launches \in Nat /\ (launches = 0 => files = {} /\ working = None)
  /\ launches > 0 => first = Talk!Frozen
  /\ working # None => working = Talk!Frozen
  /\ started \in Seq({Talk!Frozen})
  /\ \A f \in files : f.id = Talk!Frozen => f.here /\ ~f.side
  /\ (\E f \in files : f.id # Talk!Frozen) => \E f \in files : f.id = Talk!Frozen /\ f.legible
  /\ resumed \subseteq {Talk!Frozen} /\ (launches = 0 => resumed = {})

LEMMA SameFiles == ASSUME NEW S PROVE Talk!Cardinality(S) = Cardinality(S)
BY DEF Talk!Cardinality, Cardinality

\* The session that is found is that of the first launch.
LEMMA OnlyMeans ==
    ASSUME NEW S, IsFiniteSet(S), Talk!Only(S) # None
    PROVE \E f \in S : S = {f} /\ Talk!Only(S) = f.id
<1>1. Cardinality(S) = 1
  <2>1. Talk!Only(S) = IF Cardinality(S) = 1 THEN (CHOOSE f \in S : TRUE).id ELSE None
    BY SameFiles DEF Talk!Only
  <2> QED BY <2>1
<1>2. PICK f : S = {f}
  BY <1>1, FS_Singleton
<1>3. (CHOOSE g \in S : TRUE) = f
  BY <1>2
<1> QED BY <1>1, <1>2, <1>3 DEF Talk!Only

LEMMA FoundIsFrozen ==
    ASSUME ConversationInv, Talk!session_id # None
    PROVE Talk!session_id = Talk!Frozen
<1> USE DEF ConversationInv
<1>1. \A S : S \subseteq files => IsFiniteSet(S)
  BY FS_Subset
<1>2. CASE harness = "codex"
  <2>1. PICK S : S = {f \in files : f.id = Head(started) /\ f.here /\ f.legible}
    OBVIOUS
  <2>2. started # << >> /\ Talk!session_id = Talk!Only(S)
    BY <1>2, <2>1 DEF Talk!session_id, Talk!CodexSession
  <2>3. Head(started) = Talk!Frozen
    BY <2>2
  <2>4. IsFiniteSet(S)
    BY <1>1, <2>1
  <2> QED BY <2>1, <2>2, <2>3, <2>4, OnlyMeans
<1>3. CASE harness = "claude"
  <2>1. PICK S : S = {f \in files : f.id = Talk!Frozen}
    OBVIOUS
  <2>2. Talk!session_id = Talk!Only(S)
    BY <1>3, <2>1 DEF Talk!session_id, Talk!ClaudeSession, Talk!OnlyOwn
  <2>3. IsFiniteSet(S)
    BY <1>1, <2>1
  <2> QED BY <2>1, <2>2, <2>3, OnlyMeans
<1>4. CASE harness \in {"kimi", "dsh"}
  <2>1. PICK S : S = {f \in files : Talk!Own(f)}
    OBVIOUS
  <2>2. Talk!session_id = Talk!Only(S)
    BY <1>4, <2>1 DEF Talk!session_id, Talk!WorkspaceSession
  <2>3. IsFiniteSet(S)
    BY <1>1, <2>1
  <2>4. PICK f \in S : S = {f} /\ Talk!session_id = f.id
    BY <2>2, <2>3, OnlyMeans
  <2>5. f.id = Talk!Frozen
    <3>1. SUFFICES ASSUME f.id # Talk!Frozen PROVE FALSE
      OBVIOUS
    <3>2. PICK g \in files : g.id = Talk!Frozen /\ g.legible
      BY <2>1, <3>1
    <3>3. g \in S
      BY <2>1, <3>2 DEF Talk!Own
    <3> QED BY <2>4, <3>1, <3>2, <3>3
  <2> QED BY <2>4, <2>5
<1>5. CASE harness = "zcode"
  <2>1. PICK S : S = {f \in files : ~f.side}
    OBVIOUS
  <2>2. Talk!session_id = Talk!Only(S)
    BY <1>5, <2>1 DEF Talk!session_id, Talk!ZcodeSession, Talk!OnlyOwn
  <2>3. IsFiniteSet(S)
    BY <1>1, <2>1
  <2>4. PICK f \in S : S = {f} /\ Talk!session_id = f.id
    BY <2>2, <2>3, OnlyMeans
  <2>5. f.id = Talk!Frozen
    <3>1. SUFFICES ASSUME f.id # Talk!Frozen PROVE FALSE
      OBVIOUS
    <3>2. PICK g \in files : g.id = Talk!Frozen /\ g.legible
      BY <2>1, <3>1
    <3>3. g \in S
      BY <2>1, <3>2
    <3> QED BY <2>4, <3>1, <3>2, <3>3
  <2> QED BY <2>4, <2>5
<1> QED BY <1>2, <1>3, <1>4, <1>5

SessionFiles == [id : Nat, here : BOOLEAN, side : BOOLEAN, legible : BOOLEAN]

LEMMA LaunchKeeps == ASSUME ConversationInv, Talk!Launch PROVE ConversationInv'
<1> USE DEF ConversationInv
<1>1. /\ launches' = launches + 1 /\ launches' > 0 /\ launches' \in Nat
      /\ UNCHANGED <<harness, files, started>>
  BY DEF Talk!Launch
<1>2. CASE launches = 0
  <2>1. working' = Talk!Frozen /\ first' = Talk!Frozen /\ resumed' = resumed
    BY <1>2 DEF Talk!Launch
  <2> QED BY <1>1, <2>1
<1>3. CASE launches # 0
  <2>1. /\ Talk!session_id # None /\ working' = Talk!session_id /\ first' = first
        /\ resumed' = resumed \cup {Talk!session_id}
    BY <1>3 DEF Talk!Launch
  <2>2. Talk!session_id = Talk!Frozen
    BY <2>1, FoundIsFrozen
  <2> QED BY <1>1, <1>3, <2>1, <2>2
<1> QED BY <1>2, <1>3

LEMMA AnnounceKeeps == ASSUME ConversationInv, Talk!Announce \/ Talk!Ends PROVE ConversationInv'
<1> USE DEF ConversationInv
<1>1. CASE Talk!Announce
  <2>1. started' = Append(started, Talk!Frozen) /\ started \in Seq({Talk!Frozen})
    BY <1>1 DEF Talk!Announce
  <2>2. started' \in Seq({Talk!Frozen})
    BY <2>1
  <2> QED BY <1>1, <2>2 DEF Talk!Announce
<1>2. CASE Talk!Ends
  BY <1>2 DEF Talk!Ends
<1> QED BY <1>1, <1>2

\* The first session is written before anything is opened beside it.
LEMMA WriteKeeps == ASSUME ConversationInv, NEW b \in BOOLEAN, Talk!Write(b) PROVE ConversationInv'
<1> USE DEF ConversationInv
<1>1. PICK f : f = [id |-> working, here |-> TRUE, side |-> FALSE, legible |-> b]
  OBVIOUS
<1>2. /\ working = Talk!Frozen /\ working \notin Talk!Ids /\ files' = files \cup {f}
      /\ UNCHANGED <<harness, started, launches, working, first, resumed>>
  BY <1>1 DEF Talk!Write
<1>3. f \in SessionFiles /\ f.id = Talk!Frozen /\ f.here /\ ~f.side
  BY <1>1, <1>2 DEF SessionFiles, Talk!Frozen
<1>4. \A g \in files : g.id # Talk!Frozen
  BY <1>2 DEF Talk!Ids
<1>5. files = {}
  BY <1>4
<1>6. IsFiniteSet(files')
  BY <1>2, FS_AddElement
<1>7. launches # 0
  BY <1>2 DEF Talk!Write
<1> QED BY <1>2, <1>3, <1>5, <1>6, <1>7 DEF SessionFiles

LEMMA RepairKeeps == ASSUME ConversationInv, Talk!Repair PROVE ConversationInv'
<1> USE DEF ConversationInv
<1>1. PICK mend : mend = [f \in files |-> IF f.id = working THEN [f EXCEPT !.legible = TRUE] ELSE f]
  OBVIOUS
<1>2. \A f \in files : /\ mend[f] \in SessionFiles /\ mend[f].id = f.id
                       /\ mend[f].here = f.here /\ mend[f].side = f.side
                       /\ (f.legible => mend[f].legible)
  <2> TAKE f \in files
  <2>1. f \in SessionFiles
    BY DEF SessionFiles
  <2>2. CASE f.id = working
    <3>1. mend[f] = [f EXCEPT !.legible = TRUE]
      BY <1>1, <2>2
    <3> QED BY <2>1, <3>1 DEF SessionFiles
  <2>3. CASE f.id # working
    BY <1>1, <2>1, <2>3
  <2> QED BY <2>2, <2>3
<1>3. files' = {mend[f] : f \in files}
  BY <1>1 DEF Talk!Repair
<1>4. UNCHANGED <<harness, started, launches, working, first, resumed>> /\ files # {}
  BY DEF Talk!Repair
<1>5. IsFiniteSet(files')
  <2>1. mend \in Surjection(files, files')
    BY <1>1, <1>3 DEF Surjection
  <2> QED BY <2>1, FS_Surjection
<1>6. files' \subseteq SessionFiles
  BY <1>2, <1>3
<1>7. \A g \in files' : g.id = Talk!Frozen => g.here /\ ~g.side
  BY <1>2, <1>3
<1>8. (\E g \in files' : g.id # Talk!Frozen) => \E g \in files' : g.id = Talk!Frozen /\ g.legible
  BY <1>2, <1>3
<1> QED BY <1>4, <1>5, <1>6, <1>7, <1>8 DEF SessionFiles

LEMMA OpenKeeps ==
    ASSUME ConversationInv, NEW here \in BOOLEAN, NEW side \in BOOLEAN, Talk!Open(here, side)
    PROVE ConversationInv'
<1> USE DEF ConversationInv
<1>1. PICK f : f = [id |-> 1 + Cardinality(files), here |-> here, side |-> side, legible |-> TRUE]
  OBVIOUS
<1>2. /\ files' = files \cup {f} /\ \E g \in files : g.id = working /\ g.legible
      /\ UNCHANGED <<harness, started, launches, working, first, resumed>>
  BY <1>1 DEF Talk!Open, Talk!Cardinality, Cardinality
<1>3. Cardinality(files) \in Nat /\ Cardinality(files) # 0
  BY <1>2, FS_CardinalityType, FS_EmptySet
<1>4. f \in SessionFiles /\ f.id # Talk!Frozen
  BY <1>1, <1>3 DEF SessionFiles, Talk!Frozen
<1>5. \E g \in files : g.id = Talk!Frozen /\ g.legible
  BY <1>2
<1>6. IsFiniteSet(files')
  BY <1>2, FS_AddElement
<1> QED BY <1>2, <1>4, <1>5, <1>6 DEF SessionFiles

\* The inductive invariant of a conversation: every session that is not the
\* first was opened beside a first one whose header is whole, so whatever an
\* adapter takes for the only session of its kind is the first.
THEOREM ConversationInvariant == TalkSpec => []ConversationInv
<1>1. Talk!Init => ConversationInv
  <2> SUFFICES ASSUME Talk!Init PROVE ConversationInv
    OBVIOUS
  <2>1. IsFiniteSet({}) /\ << >> \in Seq({Talk!Frozen})
    BY FS_EmptySet
  <2> QED BY <2>1 DEF Talk!Init, ConversationInv
<1>2. ConversationInv /\ [Talk!Next]_Talk!sessionVars => ConversationInv'
  <2> SUFFICES ASSUME ConversationInv, [Talk!Next]_Talk!sessionVars PROVE ConversationInv'
    OBVIOUS
  <2>1. CASE UNCHANGED Talk!sessionVars
    BY <2>1 DEF ConversationInv, Talk!sessionVars
  <2> QED BY <2>1, LaunchKeeps, AnnounceKeeps, RepairKeeps, WriteKeeps, OpenKeeps DEF Talk!Next
<1> QED BY <1>1, <1>2, PTL DEF TalkSpec

\* Whatever a dead CLI left in its home, a later launch resumes the conversation
\* of the first or is refused (the adapters' resume and session discovery).
THEOREM ConversationContinues == TalkSpec => []Talk!OneConversation
<1>1. ConversationInv => Talk!OneConversation
  BY DEF ConversationInv, Talk!OneConversation
<1> QED BY <1>1, ConversationInvariant, PTL

-----------------------------------------------------------------------------
(* Induction over numbers, by sets, and the functions it defines           *)

LEMMA LeastNatural ==
    ASSUME NEW U, U \subseteq Nat, U # {} PROVE \E n \in U : \A m \in U : n <= m
<1>1. PICK R : R = OpToRel(<, Nat)
  OBVIOUS
<1>2. \A n, m \in Nat : n < m => <<n, m>> \in R
  BY <1>1 DEF OpToRel
<1>3. IsWellFoundedOn(R, Nat)
  BY <1>1, NatLessThanWellFounded
<1>4. PICK n \in U : \A m \in U : ~(<<m, n>> \in R)
  BY <1>3, WFMin
<1>5. \A m \in U : ~(m < n)
  BY <1>2, <1>4
<1> QED BY <1>5

LEMMA NatSetInduction ==
    ASSUME NEW U, 0 \in U, \A n \in Nat : n \in U => n + 1 \in U
    PROVE Nat \subseteq U
<1>1. SUFFICES ASSUME Nat \ U # {} PROVE FALSE
  OBVIOUS
<1>2. PICK n \in Nat \ U : \A m \in Nat \ U : n <= m
  <2>1. PICK V : V = Nat \ U
    OBVIOUS
  <2> QED BY <1>1, <2>1, LeastNatural
<1>3. n # 0 /\ n - 1 \in Nat /\ n - 1 \notin Nat \ U
  BY <1>2
<1> QED BY <1>2, <1>3

\* A function on D that is given on B, and elsewhere by its value at the next
\* argument, which has a lower rank.
Descends(D, N, r, B, next) ==
  /\ N \in Nat /\ r \in [D -> Nat] /\ \A x \in D : r[x] < N
  /\ \A x \in D \ B : next[x] \in D /\ r[next[x]] < r[x]
Steps(D, V, b, c) == b \in [D -> V] /\ c \in [D \X V -> V]
Solution(F, D, V, B, next, b, c) ==
  /\ F \in [D -> V]
  /\ \A x \in D : F[x] = IF x \in B THEN b[x] ELSE c[<<x, F[next[x]]>>]

LEMMA Recursion ==
    ASSUME NEW D, NEW V, NEW N, NEW r, NEW B, NEW next, NEW b, NEW c,
           Descends(D, N, r, B, next), Steps(D, V, b, c)
    PROVE \E F : Solution(F, D, V, B, next, b, c)
<1> USE DEF Descends, Steps
<1> DEFINE Good(F, n) == \A x \in D : r[x] < n => F[x] = IF x \in B THEN b[x] ELSE c[<<x, F[next[x]]>>]
<1>1. PICK U : U = {n \in Nat : \E F \in [D -> V] : Good(F, n)}
  OBVIOUS
<1>2. 0 \in U
  <2>1. Good(b, 0)
    OBVIOUS
  <2> QED BY <1>1, <2>1
<1>3. \A n \in Nat : n \in U => n + 1 \in U
  <2> SUFFICES ASSUME NEW n \in Nat, n \in U PROVE n + 1 \in U
    OBVIOUS
  <2>1. PICK F \in [D -> V] : Good(F, n)
    BY <1>1
  <2>2. PICK H : H = [x \in D |-> IF r[x] < n THEN F[x]
                                  ELSE IF x \in B THEN b[x] ELSE c[<<x, F[next[x]]>>]]
    OBVIOUS
  <2>3. H \in [D -> V]
    <3>1. \A x \in D \ B : <<x, F[next[x]]>> \in D \X V
      OBVIOUS
    <3>2. \A x \in D \ B : c[<<x, F[next[x]]>>] \in V
      BY <3>1
    <3> QED BY <2>2, <3>2
  <2>4. \A x \in D : r[x] < n => H[x] = F[x]
    BY <2>2
  <2>5. \A x \in D : r[x] < n + 1 =>
          H[x] = IF x \in B THEN b[x] ELSE c[<<x, F[next[x]]>>]
    BY <2>1, <2>2
  <2>6. \A x \in D \ B : r[x] < n + 1 => H[next[x]] = F[next[x]]
    BY <2>4
  <2>7. Good(H, n + 1)
    BY <2>5, <2>6
  <2> QED BY <1>1, <2>3, <2>7
<1>4. N \in U
  BY <1>2, <1>3, NatSetInduction
<1>5. PICK F \in [D -> V] : Good(F, N)
  BY <1>1, <1>4
<1> QED BY <1>5 DEF Solution

-----------------------------------------------------------------------------
(* The gateway to the model                                                *)

Chosen(s) == CHOOSE x \in s : TRUE
IsSum(F, w, S) ==
  F = [s \in SUBSET S |-> IF s = {} THEN 0 ELSE w[Chosen(s)] + F[s \ {Chosen(s)}]]

LEMMA ChosenInside == \A s : s # {} => Chosen(s) \in s
BY DEF Chosen

LEMMA SmallerSubset ==
    ASSUME NEW S, IsFiniteSet(S), NEW s, s \subseteq S, s # {}
    PROVE /\ Cardinality(s) \in Nat /\ Cardinality(s) <= Cardinality(S)
          /\ Cardinality(s \ {Chosen(s)}) = Cardinality(s) - 1
          /\ Cardinality(s) > 0
<1>1. IsFiniteSet(s) /\ Cardinality(s) \in Nat /\ Cardinality(s) <= Cardinality(S)
  BY FS_Subset, FS_CardinalityType
<1>2. PICK x : x = Chosen(s)
  OBVIOUS
<1>3. x \in s
  BY <1>2, ChosenInside
<1>4. Cardinality(s \ {x}) = Cardinality(s) - 1
  BY <1>1, <1>3, FS_RemoveElement
<1>5. Cardinality(s) # 0
  BY <1>1, FS_EmptySet
<1> QED BY <1>1, <1>2, <1>4, <1>5

LEMMA SumExists ==
    ASSUME NEW S, IsFiniteSet(S), NEW w \in [S -> Int]
    PROVE \E F : F \in [SUBSET S -> Int] /\ IsSum(F, w, S)
<1>1. PICK D : D = SUBSET S
  OBVIOUS
<1>2. PICK r : r = [s \in D |-> Cardinality(s)]
  OBVIOUS
<1>3. PICK next : next = [s \in D |-> s \ {Chosen(s)}]
  OBVIOUS
<1>4. PICK b : b = [s \in D |-> 0]
  OBVIOUS
<1>5. PICK c : c = [p \in D \X Int |-> IF p[1] = {} THEN 0 ELSE w[Chosen(p[1])] + p[2]]
  OBVIOUS
<1>6. PICK N : N = Cardinality(S) + 1
  OBVIOUS
<1>7. N \in Nat /\ r \in [D -> Nat] /\ \A s \in D : r[s] < N
  <2>1. Cardinality(S) \in Nat /\ \A s \in D : Cardinality(s) \in Nat /\ Cardinality(s) <= Cardinality(S)
    BY <1>1, FS_CardinalityType, FS_Subset
  <2> QED BY <2>1, <1>2, <1>6
<1>8. \A s \in D \ {{}} : next[s] \in D /\ r[next[s]] < r[s]
  <2> TAKE s \in D \ {{}}
  <2>1. next[s] = s \ {Chosen(s)} /\ next[s] \in D
    BY <1>1, <1>3
  <2>2. r[next[s]] = Cardinality(s \ {Chosen(s)}) /\ r[s] = Cardinality(s)
    BY <2>1, <1>2
  <2>3. Cardinality(s) \in Nat /\ Cardinality(s \ {Chosen(s)}) = Cardinality(s) - 1
    BY <1>1, SmallerSubset
  <2> QED BY <2>1, <2>2, <2>3
<1>9. b \in [D -> Int] /\ c \in [D \X Int -> Int]
  <2>1. \A p \in D \X Int : p[1] # {} => w[Chosen(p[1])] + p[2] \in Int
    BY <1>1, ChosenInside
  <2> QED BY <1>4, <1>5, <2>1
<1>10. PICK F \in [D -> Int] : \A s \in D :
          F[s] = IF s \in {{}} THEN b[s] ELSE c[<<s, F[next[s]]>>]
  <2>1. PICK B, V : B = {{}} /\ V = Int
    OBVIOUS
  <2>2. Descends(D, N, r, B, next)
    BY <2>1, <1>7, <1>8 DEF Descends
  <2>3. Steps(D, V, b, c)
    BY <2>1, <1>9 DEF Steps
  <2>4. PICK F : Solution(F, D, V, B, next, b, c)
    BY <2>2, <2>3, Recursion
  <2> QED BY <2>1, <2>4 DEF Solution
<1>11. \A s \in D : F[s] = IF s = {} THEN 0 ELSE w[Chosen(s)] + F[s \ {Chosen(s)}]
  <2> TAKE s \in D
  <2>1. CASE s = {}
    BY <2>1, <1>4, <1>10
  <2>2. CASE s # {}
    <3>1. next[s] = s \ {Chosen(s)} /\ F[next[s]] \in Int
      BY <2>2, <1>1, <1>3, <1>10
    <3>2. <<s, F[next[s]]>> \in D \X Int
      BY <3>1
    <3>3. c[<<s, F[next[s]]>>] = w[Chosen(s)] + F[next[s]]
      BY <2>2, <3>2, <1>5
    <3> QED BY <2>2, <3>1, <3>3, <1>10
  <2> QED BY <2>1, <2>2
<1>12. F = [s \in SUBSET S |-> IF s = {} THEN 0 ELSE w[Chosen(s)] + F[s \ {Chosen(s)}]]
  BY <1>1, <1>10, <1>11
<1> QED BY <1>1, <1>10, <1>12 DEF IsSum

\* Two sums agree on a set on which their terms do.
LEMMA SumsAgree ==
    ASSUME NEW S, NEW Q, NEW F, NEW H, NEW w, NEW v, IsSum(F, w, S), IsSum(H, v, Q),
           NEW R, R \subseteq S, R \subseteq Q, IsFiniteSet(R), \A x \in R : w[x] = v[x]
    PROVE F[R] = H[R]
<1>1. PICK U : U = {n \in Nat : \A s \in SUBSET R : Cardinality(s) = n => F[s] = H[s]}
  OBVIOUS
<1>2. \A s \in SUBSET R : /\ F[s] = IF s = {} THEN 0 ELSE w[Chosen(s)] + F[s \ {Chosen(s)}]
                          /\ H[s] = IF s = {} THEN 0 ELSE v[Chosen(s)] + H[s \ {Chosen(s)}]
  BY DEF IsSum
<1>3. 0 \in U
  <2>1. \A s \in SUBSET R : Cardinality(s) = 0 => s = {}
    BY FS_Subset, FS_EmptySet
  <2> QED BY <1>1, <1>2, <2>1
<1>4. \A n \in Nat : n \in U => n + 1 \in U
  <2> SUFFICES ASSUME NEW n \in Nat, n \in U, NEW s \in SUBSET R, Cardinality(s) = n + 1
               PROVE F[s] = H[s]
    BY <1>1
  <2>1. s # {}
    BY FS_EmptySet
  <2>2. Cardinality(s \ {Chosen(s)}) = n /\ s \ {Chosen(s)} \in SUBSET R
    BY <2>1, SmallerSubset
  <2>3. F[s \ {Chosen(s)}] = H[s \ {Chosen(s)}]
    BY <1>1, <2>2
  <2>4. w[Chosen(s)] = v[Chosen(s)]
    BY <2>1, ChosenInside
  <2> QED BY <1>2, <2>1, <2>3, <2>4
<1>5. Cardinality(R) \in U
  BY <1>3, <1>4, NatSetInduction, FS_CardinalityType
<1> QED BY <1>1, <1>5

SeenIn(e, f) == {i \in 1 .. Len(e) : e[i].usage # None /\ e[i].usage[f] # None}
KnownIn(e, f) == Gateway!MapThenSumSet(LAMBDA i : e[i].usage[f], SeenIn(e, f))

\* What is known of the usage is the sum of the events' terms.
LEMMA KnownMeans ==
    ASSUME NEW e, NEW f, Len(e) \in Nat, \A i \in SeenIn(e, f) : e[i].usage[f] \in Int
    PROVE \E F, w : /\ w = [i \in SeenIn(e, f) |-> e[i].usage[f]]
                    /\ F \in [SUBSET SeenIn(e, f) -> Int] /\ IsSum(F, w, SeenIn(e, f))
                    /\ KnownIn(e, f) = F[SeenIn(e, f)]
<1>1. PICK S : S = SeenIn(e, f)
  OBVIOUS
<1>2. PICK w : w = [i \in S |-> e[i].usage[f]]
  OBVIOUS
<1>3. IsFiniteSet(S) /\ w \in [S -> Int]
  <2>1. S \subseteq 1 .. Len(e)
    BY <1>1 DEF SeenIn
  <2>2. IsFiniteSet(1 .. Len(e))
    BY FS_Interval
  <2>3. IsFiniteSet(S)
    BY <2>1, <2>2, FS_Subset
  <2> QED BY <1>1, <1>2, <2>3
<1>4. PICK F : F \in [SUBSET S -> Int] /\ IsSum(F, w, S)
  BY <1>3, SumExists
<1> DEFINE Solves(g) == g = [s \in SUBSET S |-> IF s = {} THEN 0
                             ELSE e[Chosen(s)].usage[f] + g[s \ {Chosen(s)}]]
<1>5. \A s \in SUBSET S : s # {} => w[Chosen(s)] = e[Chosen(s)].usage[f]
  BY <1>2, ChosenInside
<1>6. Solves(F)
  BY <1>4, <1>5 DEF IsSum
<1>7. PICK K : K = CHOOSE g : Solves(g)
  OBVIOUS
<1>8. Solves(K)
  BY <1>6, <1>7
<1>9. IsSum(K, w, S)
  BY <1>5, <1>8 DEF IsSum
<1>10. K[S] = F[S]
  BY <1>3, <1>4, <1>9, SumsAgree
<1>11. KnownIn(e, f) = K[S]
  BY <1>1, <1>7 DEF KnownIn, Gateway!MapThenSumSet, Gateway!MapThenFoldSet, Chosen
<1> QED BY <1>1, <1>2, <1>4, <1>10, <1>11

LEMMA KnownIs == \A f : Gateway!Known(f) = KnownIn(events, f) /\ Gateway!Known(f)' = KnownIn(events', f)
<1> SUFFICES ASSUME NEW f PROVE Gateway!Known(f) = KnownIn(events, f) /\ Gateway!Known(f)' = KnownIn(events', f)
  OBVIOUS
<1>1. Gateway!Known(f) = KnownIn(events, f)
  BY DEF Gateway!Known, KnownIn, SeenIn, Gateway!Observed, Gateway!MapThenSumSet, Gateway!MapThenFoldSet
<1>2. Gateway!Known(f)' = KnownIn(events', f)
  BY DEF Gateway!Known, KnownIn, SeenIn, Gateway!Observed, Gateway!MapThenSumSet, Gateway!MapThenFoldSet
<1> QED BY <1>1, <1>2

Reasons == {None} \cup Denials
Replied == [outcome : {"pending", "cancelled", "protocol_or_transport_error", "http_error"}
                        \cup {r.outcome : r \in Replies},
            usage : {None} \cup {r.usage : r \in Replies}]
ThreadRecords ==
  [at : {"idle", "arrived", "locked", "checked", "waiting", "denying", "numbered"},
   reason : Reasons, seen : Nat]

Holding == {"locked", "checked", "waiting"}
Waiting == \E t \in Threads : thread[t].at = "waiting"

GatewayTypes ==
  /\ thread \in [Threads -> ThreadRecords] /\ events \in Seq(Replied)
  /\ denied \in Nat /\ unrecorded \in Nat
  /\ deniedEvents \in Seq([reason : Reasons, sequence : Nat])
OneHolder == \A t \in Threads : thread[t].at \in Holding => lock = t
PendingKnown ==
  /\ Waiting => events # << >> /\ events[Len(events)].outcome = "pending"
  /\ Cardinality(Gateway!Pending) <= IF Waiting THEN unrecorded + 1 ELSE unrecorded
LimitKnown == Gateway!TokenBudgetReached => limitReached
StopKnown == (stop # "no" => stopped) /\ (stop = "clean" => lock = None)

\* The request of the thread that holds the lock is the only one that may change
\* what the report reads, and none gets the lock once the flag is up.
GatewayInv == GatewayTypes /\ OneHolder /\ PendingKnown /\ LimitKnown /\ StopKnown

PendingIn(e) == {i \in 1 .. Len(e) : e[i].outcome = "pending"}

LEMMA PendingIsIn == Gateway!Pending = PendingIn(events) /\ Gateway!Pending' = PendingIn(events')
BY DEF Gateway!Pending, PendingIn

LEMMA SameCardinality == ASSUME NEW S PROVE Gateway!Cardinality(S) = Cardinality(S)
BY DEF Gateway!Cardinality, Cardinality

LEMMA PendingFinite ==
    ASSUME NEW e \in Seq(Replied)
    PROVE IsFiniteSet(PendingIn(e)) /\ Cardinality(PendingIn(e)) \in Nat
<1>1. IsFiniteSet(1 .. Len(e)) /\ PendingIn(e) \subseteq 1 .. Len(e)
  BY FS_Interval DEF PendingIn
<1> QED BY <1>1, FS_Subset, FS_CardinalityType

LEMMA PendingAppended ==
    ASSUME NEW e \in Seq(Replied), NEW x \in Replied, x.outcome = "pending"
    PROVE Cardinality(PendingIn(Append(e, x))) = Cardinality(PendingIn(e)) + 1
<1>1. PICK a : a = Append(e, x)
  OBVIOUS
<1>2. /\ Len(a) = Len(e) + 1 /\ a[Len(e) + 1] = x /\ Len(e) \in Nat
      /\ \A i \in 1 .. Len(e) : a[i] = e[i]
  BY <1>1
<1>3. PendingIn(a) = PendingIn(e) \cup {Len(e) + 1}
  BY <1>2 DEF PendingIn
<1>4. PICK n : n = Len(e) + 1
  OBVIOUS
<1>5. n \notin PendingIn(e)
  BY <1>2, <1>4 DEF PendingIn
<1> QED BY <1>1, <1>3, <1>4, <1>5, PendingFinite, FS_AddElement

LEMMA PendingAnswered ==
    ASSUME NEW e \in Seq(Replied), NEW x \in Replied, x.outcome # "pending",
           e # << >>, e[Len(e)].outcome = "pending"
    PROVE Cardinality(PendingIn([e EXCEPT ![Len(e)] = x])) = Cardinality(PendingIn(e)) - 1
<1>1. PICK a, n : a = [e EXCEPT ![Len(e)] = x] /\ n = Len(e)
  OBVIOUS
<1>2. /\ Len(a) = n /\ n \in 1 .. n /\ a[n] = x
      /\ \A i \in 1 .. n : i # n => a[i] = e[i]
  BY <1>1
<1>3. PendingIn(a) = PendingIn(e) \ {n} /\ n \in PendingIn(e)
  BY <1>1, <1>2 DEF PendingIn
<1> QED BY <1>1, <1>3, PendingFinite, FS_RemoveElement

\* Known usage is a number, which a request without usage leaves alone.
LEMMA KnownNumber ==
    ASSUME GatewayConfigured, NEW e \in Seq(Replied), NEW f \in DOMAIN Limit
    PROVE KnownIn(e, f) \in Int
<1>1. Len(e) \in Nat /\ \A i \in 1 .. Len(e) : e[i] \in Replied
  OBVIOUS
<1>2. \A i \in SeenIn(e, f) : e[i].usage[f] \in Int
  BY <1>1 DEF SeenIn, Replied, GatewayConfigured
<1>3. PICK F : F \in [SUBSET SeenIn(e, f) -> Int] /\ KnownIn(e, f) = F[SeenIn(e, f)]
  BY <1>1, <1>2, KnownMeans
<1> QED BY <1>3

LEMMA KnownStays ==
    ASSUME GatewayConfigured, NEW e \in Seq(Replied), NEW f \in DOMAIN Limit,
           NEW x \in Replied, x.usage = None
    PROVE KnownIn(Append(e, x), f) = KnownIn(e, f)
<1>1. PICK a : a = Append(e, x)
  OBVIOUS
<1>2. /\ Len(a) = Len(e) + 1 /\ a[Len(e) + 1] = x /\ Len(e) \in Nat
      /\ \A i \in 1 .. Len(e) : a[i] = e[i] /\ e[i] \in Replied
  BY <1>1
<1>3. PICK S : S = SeenIn(e, f)
  OBVIOUS
<1>4. SeenIn(a, f) = S
  BY <1>2, <1>3 DEF SeenIn
<1>5. \A i \in S : a[i].usage[f] = e[i].usage[f] /\ e[i].usage[f] \in Int
  BY <1>2, <1>3 DEF SeenIn, Replied, GatewayConfigured
<1>6. PICK F, w : /\ w = [i \in S |-> e[i].usage[f]] /\ IsSum(F, w, S)
                  /\ KnownIn(e, f) = F[S]
  <2>1. Len(e) \in Nat /\ \A i \in SeenIn(e, f) : e[i].usage[f] \in Int
    BY <1>2, <1>3, <1>5
  <2> QED BY <2>1, <1>3, KnownMeans
<1>7. \A i \in SeenIn(a, f) : a[i].usage[f] \in Int
  BY <1>4, <1>5
<1>8. PICK H, v : /\ v = [i \in S |-> a[i].usage[f]] /\ IsSum(H, v, S)
                  /\ KnownIn(a, f) = H[S]
  <2>1. Len(a) \in Nat
    BY <1>2
  <2> QED BY <2>1, <1>4, <1>7, KnownMeans
<1>9. IsFiniteSet(S)
  <2>1. IsFiniteSet(1 .. Len(e)) /\ S \subseteq 1 .. Len(e)
    BY <1>2, <1>3, FS_Interval DEF SeenIn
  <2> QED BY <2>1, FS_Subset
<1>10. \A i \in S : w[i] = v[i]
  BY <1>5, <1>6, <1>8
<1>11. F[S] = H[S]
  BY <1>6, <1>8, <1>9, <1>10, SumsAgree
<1> QED BY <1>1, <1>6, <1>8, <1>11

\* Room in every budget, and none once a token budget is reached.
LEMMA BudgetKnown ==
    ASSUME GatewayConfigured, GatewayTypes
    PROVE /\ Gateway!TokenBudgetReached <=> \E f \in DOMAIN Limit : KnownIn(events, f) >= Limit[f]
          /\ ~Gateway!TokenBudgetReached => \A f \in DOMAIN Limit : Gateway!Known(f) < Limit[f]
<1>1. \A f \in DOMAIN Limit : Gateway!Known(f) = KnownIn(events, f) /\ KnownIn(events, f) \in Int
  BY KnownIs, KnownNumber DEF GatewayTypes
<1> QED BY <1>1 DEF Gateway!TokenBudgetReached, GatewayConfigured

\* A step of a thread that neither forwards nor answers.
LEMMA ThreadSteps ==
    ASSUME GatewayConfigured, GatewayInv, NEW t \in Threads, NEW y \in ThreadRecords,
           thread' = [thread EXCEPT ![t] = y], thread[t].at # "waiting", y.at # "waiting",
           y.at \in Holding => lock' = t,
           \/ lock' = lock
           \/ lock = t /\ lock' = None
           \/ lock = None /\ lock' = t /\ ~stopped,
           limitReached => limitReached',
           denied' \in Nat, deniedEvents' \in Seq([reason : Reasons, sequence : Nat]),
           UNCHANGED <<events, stopped, stop, unrecorded>>
    PROVE GatewayInv'
<1> USE DEF GatewayInv
<1>1. \A u \in Threads : thread'[u] = IF u = t THEN y ELSE thread[u]
  BY DEF GatewayTypes
<1>2. GatewayTypes'
  BY DEF GatewayTypes
<1>3. OneHolder'
  <2> SUFFICES ASSUME NEW u \in Threads, thread'[u].at \in Holding PROVE lock' = u
    BY DEF OneHolder
  <2>1. CASE u = t
    BY <2>1, <1>1
  <2>2. CASE u # t
    <3>1. lock = u /\ u # None
      BY <2>2, <1>1 DEF OneHolder, GatewayConfigured
    <3> QED BY <2>2, <3>1
  <2> QED BY <2>1, <2>2
<1>4. Waiting' <=> Waiting
  BY <1>1 DEF Waiting
<1>5. PendingKnown'
  BY <1>4, PendingIsIn DEF PendingKnown
<1>6. LimitKnown'
  <2>1. Gateway!TokenBudgetReached' <=> Gateway!TokenBudgetReached
    BY KnownIs DEF Gateway!TokenBudgetReached
  <2> QED BY <2>1 DEF LimitKnown
<1>7. StopKnown'
  BY DEF StopKnown
<1> QED BY <1>2, <1>3, <1>5, <1>6, <1>7

\* The holder of the lock is the only thread that may be waiting.
LEMMA HolderAlone ==
    ASSUME GatewayConfigured, GatewayInv, NEW t \in Threads, thread[t].at \in Holding
    PROVE lock = t /\ lock # None /\ \A u \in Threads : thread[u].at \in Holding => u = t
BY DEF GatewayInv, OneHolder, GatewayConfigured

\* A step of the holder that goes on, or leaves, with other events.
LEMMA HolderSteps ==
    ASSUME GatewayConfigured, GatewayInv, NEW t \in Threads, thread[t].at \in Holding,
           NEW y \in ThreadRecords, thread' = [thread EXCEPT ![t] = y],
           \/ y.at = "waiting" /\ lock' = lock
           \/ y.at = "idle" /\ lock' = None,
           events' \in Seq(Replied), unrecorded' \in Nat, LimitKnown',
           y.at = "waiting" => events' # << >> /\ events'[Len(events')].outcome = "pending",
           Cardinality(PendingIn(events')) <= IF y.at = "waiting" THEN unrecorded' + 1 ELSE unrecorded',
           UNCHANGED <<denied, deniedEvents, stopped, stop>>
    PROVE GatewayInv'
<1> USE DEF GatewayInv
<1>1. \A u \in Threads : thread'[u] = IF u = t THEN y ELSE thread[u]
  BY DEF GatewayTypes
<1>2. GatewayTypes'
  BY DEF GatewayTypes
<1>3. OneHolder'
  BY <1>1, HolderAlone DEF OneHolder, Holding
<1>4. Waiting' <=> y.at = "waiting"
  BY <1>1, HolderAlone DEF Waiting, Holding
<1>5. PendingKnown'
  BY <1>4, PendingIsIn DEF PendingKnown
<1>6. StopKnown'
  BY HolderAlone DEF StopKnown
<1> QED BY <1>2, <1>3, <1>5, <1>6

LEMMA HolderPending ==
    ASSUME GatewayConfigured, GatewayInv, NEW t \in Threads, thread[t].at \in Holding
    PROVE /\ thread[t].at = "waiting" =>
               events # << >> /\ events[Len(events)].outcome = "pending"
          /\ Cardinality(PendingIn(events)) <=
               IF thread[t].at = "waiting" THEN unrecorded + 1 ELSE unrecorded
          /\ Cardinality(PendingIn(events)) \in Nat /\ unrecorded \in Nat /\ events \in Seq(Replied)
<1> USE DEF GatewayInv
<1>1. Waiting <=> thread[t].at = "waiting"
  BY HolderAlone DEF Waiting, Holding
<1> QED BY <1>1, PendingIsIn, PendingFinite DEF PendingKnown, GatewayTypes

LEMMA ForwardedGrows ==
    ASSUME GatewayConfigured, GatewayInv
    PROVE /\ Gateway!Forwarded \in Seq(Replied) /\ Gateway!Forwarded # << >>
          /\ Len(Gateway!Forwarded) = Len(events) + 1
          /\ Gateway!Forwarded[Len(Gateway!Forwarded)].outcome = "pending"
          /\ Cardinality(PendingIn(Gateway!Forwarded)) = Cardinality(PendingIn(events)) + 1
          /\ \A f \in DOMAIN Limit : KnownIn(Gateway!Forwarded, f) = KnownIn(events, f)
<1>1. PICK x : x = [outcome |-> "pending", usage |-> None]
  OBVIOUS
<1>2. x \in Replied /\ x.outcome = "pending" /\ x.usage = None
  BY <1>1 DEF Replied
<1>3. events \in Seq(Replied) /\ Gateway!Forwarded = Append(events, x)
  BY <1>1 DEF GatewayInv, GatewayTypes, Gateway!Forwarded
<1>4. /\ Append(events, x) \in Seq(Replied) /\ Len(Append(events, x)) = Len(events) + 1
      /\ Append(events, x) # << >> /\ Append(events, x)[Len(events) + 1] = x
  BY <1>2, <1>3
<1> QED BY <1>2, <1>3, <1>4, PendingAppended, KnownStays

\* Same usage known, same limit announced.
LEMMA LimitStays ==
    ASSUME GatewayConfigured, GatewayInv, limitReached' = limitReached,
           \A f \in DOMAIN Limit : KnownIn(events', f) = KnownIn(events, f)
    PROVE LimitKnown'
<1>1. Gateway!TokenBudgetReached' <=> Gateway!TokenBudgetReached
  BY KnownIs DEF Gateway!TokenBudgetReached
<1> QED BY <1>1 DEF LimitKnown, GatewayInv

LEMMA ForwardKeeps ==
    ASSUME GatewayConfigured, GatewayInv, NEW t \in Threads, Gateway!Forward(t)
    PROVE GatewayInv'
<1> USE DEF GatewayInv
<1>1. PICK y : y = [thread[t] EXCEPT !.at = "waiting"]
  OBVIOUS
<1>2. thread[t] \in ThreadRecords /\ thread[t].at = "checked" /\ thread[t].at \in Holding
  BY DEF Gateway!Forward, Gateway!At, GatewayTypes, Holding
<1>3. y \in ThreadRecords /\ y.at = "waiting"
  BY <1>1, <1>2 DEF ThreadRecords
<1>4. /\ thread' = [thread EXCEPT ![t] = y] /\ events' = Gateway!Forwarded
      /\ UNCHANGED <<lock, denied, deniedEvents, limitReached, stopped, stop, unrecorded>>
  BY <1>1 DEF Gateway!Forward, Gateway!Goto, GatewayTypes
<1>5. LimitKnown'
  BY <1>4, ForwardedGrows, LimitStays
<1>6. Cardinality(PendingIn(events')) <= unrecorded + 1
  BY <1>2, <1>4, ForwardedGrows, HolderPending
<1>7. events' \in Seq(Replied) /\ events' # << >> /\ events'[Len(events')].outcome = "pending"
  BY <1>4, ForwardedGrows
<1> QED BY <1>2, <1>3, <1>4, <1>5, <1>6, <1>7, HolderSteps, HolderPending

LEMMA RestingRecord == Gateway!Resting \in ThreadRecords /\ Gateway!Resting.at = "idle"
BY DEF Gateway!Resting, ThreadRecords, Reasons

LEMMA UnrecordedKeeps ==
    ASSUME GatewayConfigured, GatewayInv, NEW t \in Threads, Gateway!Unrecorded(t)
    PROVE GatewayInv'
<1> USE DEF GatewayInv
<1>1. PICK y : y = Gateway!Resting
  OBVIOUS
<1>2. y \in ThreadRecords /\ y.at = "idle"
  BY <1>1, RestingRecord
<1>3. /\ thread' = [thread EXCEPT ![t] = y] /\ lock' = IF lock = t THEN None ELSE lock
      /\ unrecorded' = unrecorded + 1
      /\ UNCHANGED <<denied, deniedEvents, limitReached, stopped, stop>>
      /\ \/ thread[t].at = "checked" /\ events' = Gateway!Forwarded
         \/ thread[t].at = "waiting" /\ events' = events
  BY <1>1 DEF Gateway!Unrecorded, Gateway!Leave, Gateway!Release, Gateway!At
<1>4. thread[t].at \in Holding /\ lock' = None
  BY <1>3, HolderAlone DEF Holding
<1>5. LimitKnown'
  BY <1>3, ForwardedGrows, LimitStays
<1>6. /\ Cardinality(PendingIn(events')) <= unrecorded' /\ unrecorded' \in Nat
      /\ events' \in Seq(Replied)
  BY <1>3, <1>4, ForwardedGrows, HolderPending
<1> QED BY <1>2, <1>3, <1>4, <1>5, <1>6, HolderSteps

LEMMA AnswerKeeps ==
    ASSUME GatewayConfigured, GatewayInv, NEW t \in Threads, Gateway!Answer(t)
    PROVE GatewayInv'
<1> USE DEF GatewayInv
<1>1. PICK y : y = Gateway!Resting
  OBVIOUS
<1>2. y \in ThreadRecords /\ y.at = "idle"
  BY <1>1, RestingRecord
<1>3. PICK r \in Replies :
        events' = [events EXCEPT ![Len(events)] = [outcome |-> Gateway!Outcome(r), usage |-> Gateway!Usage(r)]]
  BY DEF Gateway!Answer
<1>4. PICK x : x = [outcome |-> Gateway!Outcome(r), usage |-> Gateway!Usage(r)]
  OBVIOUS
<1>5. x \in Replied /\ x.outcome # "pending"
  <2>1. /\ Gateway!Outcome(r) \in {"cancelled", "protocol_or_transport_error", "http_error", r.outcome}
        /\ Gateway!Usage(r) \in {None, r.usage}
    BY DEF Gateway!Outcome, Gateway!Usage
  <2>2. r.outcome # "pending"
    BY DEF GatewayConfigured
  <2> QED BY <1>4, <2>1, <2>2 DEF Replied
<1>6. /\ thread[t].at = "waiting" /\ thread' = [thread EXCEPT ![t] = y]
      /\ lock' = IF lock = t THEN None ELSE lock
      /\ limitReached' = (limitReached \/ Gateway!TokenBudgetReached')
      /\ UNCHANGED <<denied, deniedEvents, stopped, stop, unrecorded>>
  BY <1>1 DEF Gateway!Answer, Gateway!Leave, Gateway!Release, Gateway!At
<1>7. thread[t].at \in Holding /\ lock' = None
  BY <1>6, HolderAlone DEF Holding
<1>8. LimitKnown'
  BY <1>6 DEF LimitKnown
<1>9. /\ events \in Seq(Replied) /\ events # << >> /\ events[Len(events)].outcome = "pending"
      /\ Cardinality(PendingIn(events)) <= unrecorded + 1
      /\ Cardinality(PendingIn(events)) \in Nat /\ unrecorded \in Nat
  BY <1>6, <1>7, HolderPending
<1>10. Cardinality(PendingIn(events')) <= unrecorded' /\ events' \in Seq(Replied)
  <2>1. events' = [events EXCEPT ![Len(events)] = x]
    BY <1>3, <1>4
  <2>2. Cardinality(PendingIn(events')) = Cardinality(PendingIn(events)) - 1
    BY <2>1, <1>5, <1>9, PendingAnswered
  <2>3. events' \in Seq(Replied)
    BY <2>1, <1>5, <1>9
  <2> QED BY <2>2, <2>3, <1>6, <1>9
<1>11. unrecorded' \in Nat
  BY <1>6, <1>9
<1> QED BY <1>2, <1>6, <1>7, <1>8, <1>10, <1>11, HolderSteps

LEMMA QuietThreadKeeps ==
    ASSUME GatewayConfigured, GatewayInv, NEW t \in Threads,
           \/ Gateway!Connect(t) \/ Gateway!Arrive(t) \/ Gateway!Recheck(t) \/ Gateway!Refuse(t)
           \/ Gateway!CountDenial(t) \/ Gateway!ListDenial(t)
    PROVE GatewayInv'
<1>1. /\ thread \in [Threads -> ThreadRecords] /\ thread[t] \in ThreadRecords
      /\ denied \in Nat /\ deniedEvents \in Seq([reason : Reasons, sequence : Nat])
      /\ Len(deniedEvents) + 1 \in Nat
  BY DEF GatewayInv, GatewayTypes
\* A denial takes any reason, and does not wait.
<1>2. \A why \in Reasons : Gateway!Deny(t, why) =>
        \E y \in ThreadRecords : thread' = [thread EXCEPT ![t] = y] /\ y.at = "denying"
  <2> SUFFICES ASSUME NEW why \in Reasons, Gateway!Deny(t, why)
               PROVE \E y \in ThreadRecords : thread' = [thread EXCEPT ![t] = y] /\ y.at = "denying"
    OBVIOUS
  <2>1. PICK y : y = [at |-> "denying", reason |-> why, seen |-> denied]
    OBVIOUS
  <2>2. y \in ThreadRecords /\ y.at = "denying"
    BY <2>1, <1>1 DEF ThreadRecords
  <2> QED BY <2>1, <2>2 DEF Gateway!Deny
<1>3. \A place \in {"arrived", "locked", "checked"} : Gateway!Goto(t, place) =>
        \E y \in ThreadRecords : thread' = [thread EXCEPT ![t] = y] /\ y.at = place
  <2> SUFFICES ASSUME NEW place \in {"arrived", "locked", "checked"}, Gateway!Goto(t, place)
               PROVE \E y \in ThreadRecords : thread' = [thread EXCEPT ![t] = y] /\ y.at = place
    OBVIOUS
  <2>1. PICK y : y = [thread[t] EXCEPT !.at = place]
    OBVIOUS
  <2>2. y \in ThreadRecords /\ y.at = place
    BY <2>1, <1>1 DEF ThreadRecords
  <2>3. thread' = [thread EXCEPT ![t] = y]
    BY <2>1, <1>1 DEF Gateway!Goto
  <2> QED BY <2>2, <2>3
<1>4. CASE Gateway!Connect(t)
  <2>1. PICK y \in ThreadRecords : thread' = [thread EXCEPT ![t] = y] /\ y.at = "arrived"
    BY <1>3, <1>4 DEF Gateway!Connect
  <2>2. /\ thread[t].at = "idle"
        /\ UNCHANGED <<lock, events, denied, deniedEvents, limitReached, stopped, stop, unrecorded>>
    BY <1>4 DEF Gateway!Connect, Gateway!At
  <2> QED BY <2>1, <2>2, <1>1, ThreadSteps DEF Holding
<1>5. CASE Gateway!Arrive(t)
  <2>1. /\ thread[t].at = "arrived"
        /\ UNCHANGED <<events, denied, deniedEvents, limitReached, stopped, stop, unrecorded>>
    BY <1>5 DEF Gateway!Arrive, Gateway!At
  <2>2. CASE \E why \in Reasons : Gateway!Deny(t, why) /\ UNCHANGED lock
    <3>1. PICK y \in ThreadRecords : thread' = [thread EXCEPT ![t] = y] /\ y.at = "denying"
      BY <2>2, <1>2
    <3> QED BY <2>1, <2>2, <3>1, <1>1, ThreadSteps DEF Holding
  <2>3. CASE ~stopped /\ lock = None /\ lock' = t /\ Gateway!Goto(t, "locked")
    <3>1. PICK y \in ThreadRecords : thread' = [thread EXCEPT ![t] = y] /\ y.at = "locked"
      BY <2>3, <1>3
    <3>2. /\ thread[t].at # "waiting" /\ y.at # "waiting" /\ lock = None /\ lock' = t /\ ~stopped
          /\ (limitReached => limitReached') /\ denied' \in Nat
          /\ deniedEvents' \in Seq([reason : Reasons, sequence : Nat])
      BY <2>1, <2>3, <3>1, <1>1
    <3>3. UNCHANGED <<events, stopped, stop, unrecorded>>
      BY <2>1
    <3> QED BY <3>1, <3>2, <3>3, ThreadSteps
  <2> QED BY <1>5, <2>2, <2>3 DEF Gateway!Arrive, Reasons, Denials
<1>6. CASE Gateway!Recheck(t)
  <2>1. /\ thread[t].at = "locked" /\ lock = t
        /\ UNCHANGED <<lock, events, denied, deniedEvents, limitReached, stopped, stop, unrecorded>>
    BY <1>6, HolderAlone DEF Gateway!Recheck, Gateway!At, Holding
  <2>2. \E y \in ThreadRecords : thread' = [thread EXCEPT ![t] = y] /\ y.at \in {"denying", "checked"}
    <3>1. CASE Gateway!Deny(t, "session_stopped")
      BY <3>1, <1>2 DEF Reasons, Denials
    <3>2. CASE Gateway!Goto(t, "checked")
      BY <3>2, <1>3
    <3> QED BY <1>6, <3>1, <3>2 DEF Gateway!Recheck
  <2>3. PICK y \in ThreadRecords : thread' = [thread EXCEPT ![t] = y] /\ y.at \in {"denying", "checked"}
    BY <2>2
  <2> QED BY <2>1, <2>3, <1>1, ThreadSteps DEF Holding
<1>7. CASE Gateway!Refuse(t)
  <2>1. /\ thread[t].at = "checked" /\ (limitReached => limitReached')
        /\ UNCHANGED <<lock, events, denied, deniedEvents, stopped, stop, unrecorded>>
    BY <1>7 DEF Gateway!Refuse, Gateway!At
  <2>2. \E why \in Reasons : Gateway!Deny(t, why)
    <3>1. Gateway!Refusal \in Reasons
        BY DEF Gateway!Refusal, Reasons, Denials
    <3>2. \/ Gateway!Deny(t, "request_too_large") \/ Gateway!Deny(t, Gateway!Refusal) \/ Gateway!Deny(t, "invalid_request")
      BY <1>7 DEF Gateway!Refuse
    <3>3. "request_too_large" \in Reasons /\ "invalid_request" \in Reasons
      BY DEF Reasons, Denials
    <3>4. PICK why : why = Gateway!Refusal
      OBVIOUS
    <3> QED BY <3>1, <3>2, <3>3, <3>4
  <2>3. PICK y \in ThreadRecords : thread' = [thread EXCEPT ![t] = y] /\ y.at = "denying"
    BY <2>2, <1>2
  <2> QED BY <2>1, <2>3, <1>1, ThreadSteps DEF Holding
<1>8. CASE Gateway!CountDenial(t)
  <2>1. PICK y : y = [thread[t] EXCEPT !.at = "numbered", !.seen = Len(deniedEvents) + 1]
    OBVIOUS
  <2>2. y \in ThreadRecords /\ y.at = "numbered"
    BY <2>1, <1>1 DEF ThreadRecords
  <2>4. thread' = [thread EXCEPT ![t] = y]
    <3>1. thread' = [[thread EXCEPT ![t].at = "numbered"] EXCEPT ![t].seen = Len(deniedEvents) + 1]
      BY <1>8 DEF Gateway!CountDenial
    <3>2. PICK z, m : z = [thread[t] EXCEPT !.at = "numbered"] /\ m = [thread EXCEPT ![t] = z]
      OBVIOUS
    <3>3. m[t] = z /\ thread' = [m EXCEPT ![t] = y]
      BY <3>1, <3>2, <2>1, <1>1
    <3> QED BY <3>2, <3>3, <1>1
  <2>3. /\ thread[t].at = "denying" /\ denied' \in Nat
        /\ UNCHANGED <<lock, events, deniedEvents, limitReached, stopped, stop, unrecorded>>
    BY <2>1, <1>1, <1>8 DEF Gateway!CountDenial, Gateway!At, ThreadRecords
  <2> QED BY <2>2, <2>3, <2>4, <1>1, ThreadSteps DEF Holding
<1>9. CASE Gateway!ListDenial(t)
  <2>1. PICK y : y = Gateway!Resting
    OBVIOUS
  <2>2. y \in ThreadRecords /\ y.at = "idle"
    BY <2>1, RestingRecord
  <2>3. PICK d : d = [reason |-> thread[t].reason, sequence |-> thread[t].seen]
    OBVIOUS
  <2>4. d \in [reason : Reasons, sequence : Nat]
    BY <2>3, <1>1 DEF ThreadRecords
  <2>5. /\ thread[t].at = "numbered" /\ thread' = [thread EXCEPT ![t] = y]
        /\ deniedEvents' = Append(deniedEvents, d) /\ lock' = IF lock = t THEN None ELSE lock
        /\ UNCHANGED <<events, denied, limitReached, stopped, stop, unrecorded>>
    BY <2>1, <2>3, <1>9 DEF Gateway!ListDenial, Gateway!Leave, Gateway!Release, Gateway!At
  <2>6. deniedEvents' \in Seq([reason : Reasons, sequence : Nat])
    BY <2>4, <2>5, <1>1
  <2> QED BY <2>2, <2>5, <2>6, <1>1, ThreadSteps DEF Holding
<1> QED BY <1>4, <1>5, <1>6, <1>7, <1>8, <1>9

LEMMA StopKeeps ==
    ASSUME GatewayConfigured, GatewayInv,
           \/ Gateway!Expire \/ Gateway!StopFlag \/ Gateway!StopDeadline \/ Gateway!StopServer \/ Gateway!StopJoin
           \/ UNCHANGED Gateway!gatewayVars
    PROVE GatewayInv'
<1> USE DEF GatewayInv
<1>1. /\ UNCHANGED <<lock, thread, events, denied, deniedEvents, limitReached, unrecorded>>
      /\ \/ UNCHANGED <<stop, stopped>>
         \/ stop = "no" /\ stop' = "flagged" /\ stopped'
         \/ stop \notin {"no", "clean"} /\ UNCHANGED stopped /\ stop' # "no" /\ (stop' = "clean" => lock = None)
  BY DEF Gateway!Expire, Gateway!StopFlag, Gateway!StopDeadline, Gateway!StopServer, Gateway!StopJoin, Gateway!gatewayVars
<1>2. GatewayTypes' /\ OneHolder' /\ (Waiting' <=> Waiting)
  BY <1>1 DEF GatewayTypes, OneHolder, Waiting
<1>3. PendingKnown'
  BY <1>1, <1>2, PendingIsIn DEF PendingKnown
<1>4. LimitKnown'
  BY <1>1, LimitStays
<1>5. StopKnown'
  BY <1>1 DEF StopKnown
<1> QED BY <1>2, <1>3, <1>4, <1>5

LEMMA GatewayStarts == ASSUME GatewayConfigured, Gateway!Init PROVE GatewayInv
<1> USE DEF Gateway!Init
<1>1. GatewayTypes
  <2>1. << >> \in Seq(Replied) /\ << >> \in Seq([reason : Reasons, sequence : Nat])
    OBVIOUS
  <2> QED BY <2>1, RestingRecord DEF GatewayTypes
<1>2. OneHolder /\ ~Waiting
  BY RestingRecord DEF OneHolder, Waiting, Holding
<1>3. Gateway!Pending = {} /\ Cardinality({}) = 0
  BY FS_EmptySet DEF Gateway!Pending
<1>4. PendingKnown
  BY <1>2, <1>3 DEF PendingKnown
<1>5. \A f \in DOMAIN Limit : KnownIn(events, f) = 0
  <2> SUFFICES ASSUME NEW f \in DOMAIN Limit PROVE KnownIn(events, f) = 0
    OBVIOUS
  <2>1. SeenIn(events, f) = {}
    BY DEF SeenIn
  <2>2. Len(events) \in Nat /\ \A i \in SeenIn(events, f) : events[i].usage[f] \in Int
    BY <2>1
  <2>3. PICK e : e = events
    OBVIOUS
  <2>4. PICK F, w : IsSum(F, w, SeenIn(e, f)) /\ KnownIn(e, f) = F[SeenIn(e, f)]
    BY <2>2, <2>3, KnownMeans
  <2> QED BY <2>1, <2>3, <2>4 DEF IsSum
<1>6. LimitKnown
  BY <1>1, <1>5, BudgetKnown DEF LimitKnown, GatewayConfigured
<1> QED BY <1>1, <1>2, <1>4, <1>6 DEF GatewayInv, StopKnown

\* The inductive invariant of the gateway: one thread at most holds the lock and
\* has a request pending, the limit is told from the events unless the holder is
\* about to, and an orderly stop waited for it.
THEOREM GatewayInvariant == GatewaySpec => []GatewayInv
<1> USE GatewayAssumption
<1>1. Gateway!Init => GatewayInv
  BY GatewayStarts
<1>2. GatewayInv /\ [Gateway!Next]_Gateway!gatewayVars => GatewayInv'
  <2> SUFFICES ASSUME GatewayInv, [Gateway!Next]_Gateway!gatewayVars PROVE GatewayInv'
    OBVIOUS
  <2>1. CASE \E t \in Threads : Gateway!Forward(t) \/ Gateway!Unrecorded(t) \/ Gateway!Answer(t)
    BY <2>1, ForwardKeeps, UnrecordedKeeps, AnswerKeeps
  <2>2. CASE \E t \in Threads : \/ Gateway!Connect(t) \/ Gateway!Arrive(t) \/ Gateway!Recheck(t) \/ Gateway!Refuse(t)
                                \/ Gateway!CountDenial(t) \/ Gateway!ListDenial(t)
    BY <2>2, QuietThreadKeeps
  <2> QED BY <2>1, <2>2, StopKeeps DEF Gateway!Next
<1> QED BY <1>1, <1>2, PTL DEF GatewaySpec

\* A request is forwarded only with room in every budget, with no other in
\* flight but those the recorder lost, and never after an orderly stop
\* (InferenceGateway.request).
THEOREM BudgetRespected == GatewaySpec => Gateway!ForwardedWithinBudget
<1> USE GatewayAssumption
<1> DEFINE Within == Len(events') > Len(events) =>
       /\ Len(events) < MaxRequests /\ \A f \in DOMAIN Limit : Gateway!Known(f) < Limit[f]
       /\ Gateway!Cardinality(Gateway!Pending) <= unrecorded
       /\ stop # "clean"
<1>1. GatewayInv /\ [Gateway!Next]_Gateway!gatewayVars => [Within]_Gateway!gatewayVars
  <2> SUFFICES ASSUME GatewayInv, [Gateway!Next]_Gateway!gatewayVars, Len(events') > Len(events)
               PROVE Within
    OBVIOUS
  <2>1. events \in Seq(Replied) /\ Len(events) \in Nat
    BY DEF GatewayInv, GatewayTypes
  <2>2. events' # events
    BY <2>1
  <2>3. \A t \in Threads : ~Gateway!Answer(t)
    <3> SUFFICES ASSUME NEW t \in Threads, Gateway!Answer(t) PROVE FALSE
      OBVIOUS
    <3>1. Len(events') = Len(events)
      BY <2>1 DEF Gateway!Answer
    <3> QED BY <2>1, <3>1
  <2>4. PICK t \in Threads : thread[t].at = "checked" /\ Gateway!Refusal = None
    BY <2>2, <2>3 DEF Gateway!Next, Gateway!gatewayVars, Gateway!Connect, Gateway!Arrive, Gateway!Recheck, Gateway!Refuse, Gateway!Forward,
       Gateway!Unrecorded, Gateway!CountDenial, Gateway!ListDenial, Gateway!Expire, Gateway!StopFlag, Gateway!StopDeadline,
       Gateway!StopServer, Gateway!StopJoin, Gateway!At
  <2>5. ~(Len(events) >= MaxRequests) /\ ~Gateway!TokenBudgetReached
    BY <2>4 DEF Gateway!Refusal, GatewayConfigured, Denials
  <2>6. /\ Cardinality(PendingIn(events)) <= unrecorded /\ lock # None
    BY <2>4, HolderPending, HolderAlone DEF Holding
  <2>7. stop # "clean"
    BY <2>6 DEF GatewayInv, StopKnown
  <2>8. Gateway!Cardinality(Gateway!Pending) <= unrecorded
    <3>1. PICK S : S = Gateway!Pending
      OBVIOUS
    <3> QED BY <3>1, <2>6, PendingIsIn, SameCardinality
  <2>9. Len(events) < MaxRequests
    BY <2>1, <2>5 DEF GatewayConfigured
  <2>10. \A f \in DOMAIN Limit : Gateway!Known(f) < Limit[f]
    BY <2>5, BudgetKnown DEF GatewayInv
  <2> QED BY <2>7, <2>8, <2>9, <2>10
<1> QED BY <1>1, GatewayInvariant, PTL DEF GatewaySpec, Gateway!ForwardedWithinBudget

\* A token budget that is used up is announced by the time the lock is free.
THEOREM ExhaustionAnnounced == GatewaySpec => []Gateway!LimitAnnounced
<1> USE GatewayAssumption
<1>1. GatewayInv => Gateway!LimitAnnounced
  BY DEF GatewayInv, LimitKnown, Gateway!LimitAnnounced
<1> QED BY <1>1, GatewayInvariant, PTL

\* After an orderly stop() no request is pending but the unrecorded ones, and
\* what the report read of the events and the limit stays true.
THEOREM StopIsQuiet == GatewaySpec => Gateway!QuietAfterStop
<1> USE GatewayAssumption
<1>1. GatewayInv => (stop = "clean" => Gateway!Cardinality(Gateway!Pending) <= unrecorded)
  <2> SUFFICES ASSUME GatewayInv, stop = "clean" PROVE Gateway!Cardinality(Gateway!Pending) <= unrecorded
    OBVIOUS
  <2>1. ~Waiting
    BY HolderAlone DEF GatewayInv, StopKnown, OneHolder, Waiting, Holding, GatewayConfigured
  <2>2. PICK S : S = Gateway!Pending
    OBVIOUS
  <2> QED BY <2>1, <2>2, SameCardinality DEF GatewayInv, PendingKnown
<1>2. GatewayInv /\ [Gateway!Next]_Gateway!gatewayVars
        => [stop = "clean" => events' = events /\ limitReached' = limitReached]_Gateway!gatewayVars
  <2> SUFFICES ASSUME GatewayInv, [Gateway!Next]_Gateway!gatewayVars, stop = "clean"
               PROVE events' = events /\ limitReached' = limitReached
    OBVIOUS
  <2>1. \A t \in Threads : thread[t].at \notin Holding
    BY DEF GatewayInv, StopKnown, OneHolder, GatewayConfigured
  <2> QED BY <2>1 DEF Gateway!Next, Gateway!gatewayVars, Gateway!Connect, Gateway!Arrive, Gateway!Recheck, Gateway!Refuse, Gateway!Forward,
       Gateway!Unrecorded, Gateway!Answer, Gateway!CountDenial, Gateway!ListDenial, Gateway!Expire, Gateway!StopFlag, Gateway!StopDeadline,
       Gateway!StopServer, Gateway!StopJoin, Gateway!At, Holding
<1> QED BY <1>1, <1>2, GatewayInvariant, PTL DEF GatewaySpec, Gateway!QuietAfterStop

\* The gateway keeps what it promises, for every configuration, every reply and
\* any number of connections.
THEOREM GatewaySound == GatewaySpec => Gateway!GatewayHolds
BY BudgetRespected, ExhaustionAnnounced, StopIsQuiet, PTL DEF Gateway!GatewayHolds

-----------------------------------------------------------------------------
(* A participant's login                                                   *)

\* A record of refreshes: who issued numbers them, and each refreshes an earlier.
Record(p, n) == /\ n \in Nat /\ p \in [1 .. n -> (1 .. n) \cup {None}]
                /\ \A d \in 1 .. n : p[d] # None => p[d] < d

LineOf(p, c) ==
  LET up[d \in DOMAIN p] == {d} \cup IF p[d] = None THEN {} ELSE up[p[d]] IN up[c]

LEMMA LineExists ==
    ASSUME NEW p, NEW n, Record(p, n)
    PROVE \E F : F = [d \in 1 .. n |-> {d} \cup IF p[d] = None THEN {} ELSE F[p[d]]]
<1> USE DEF Record
<1>1. PICK D, V, M : D = 1 .. n /\ V = SUBSET D /\ M = n + 1
  OBVIOUS
<1>2. PICK r : r = [d \in D |-> d]
  OBVIOUS
<1>3. PICK B : B = {d \in D : p[d] = None}
  OBVIOUS
<1>4. PICK b : b = [d \in D |-> {d}]
  OBVIOUS
<1>5. PICK c : c = [x \in D \X V |-> {x[1]} \cup x[2]]
  OBVIOUS
<1>6. Descends(D, M, r, B, p)
  BY <1>1, <1>2, <1>3 DEF Descends
<1>7. Steps(D, V, b, c)
  BY <1>1, <1>4, <1>5 DEF Steps
<1>8. PICK F : Solution(F, D, V, B, p, b, c)
  BY <1>6, <1>7, Recursion
<1>9. \A d \in D : F[d] = {d} \cup IF p[d] = None THEN {} ELSE F[p[d]]
  <2> TAKE d \in D
  <2>1. CASE p[d] = None
    BY <2>1, <1>3, <1>4, <1>8 DEF Solution
  <2>2. CASE p[d] # None
    <3>1. F[d] = c[<<d, F[p[d]]>>] /\ p[d] \in D /\ F[p[d]] \in V
      BY <2>2, <1>1, <1>3, <1>8 DEF Solution
    <3>2. <<d, F[p[d]]>> \in D \X V
      BY <3>1
    <3> QED BY <2>2, <3>1, <3>2, <1>5
  <2> QED BY <2>1, <2>2
<1>10. F = [d \in D |-> {d} \cup IF p[d] = None THEN {} ELSE F[p[d]]]
  BY <1>8, <1>9 DEF Solution
<1> QED BY <1>1, <1>10

\* A credential descends from itself and from what it was refreshed from.
LEMMA LineGoesUp ==
    ASSUME NEW p, NEW n, Record(p, n)
    PROVE \A c \in 1 .. n :
            LineOf(p, c) = {c} \cup IF p[c] = None THEN {} ELSE LineOf(p, p[c])
<1> DEFINE Solves(g) == g = [d \in 1 .. n |-> {d} \cup IF p[d] = None THEN {} ELSE g[p[d]]]
<1>1. \E F : Solves(F)
  BY LineExists
<1>2. PICK K : K = CHOOSE g : Solves(g)
  OBVIOUS
<1>3. Solves(K)
  BY <1>1, <1>2
<1>4. DOMAIN p = 1 .. n
  BY DEF Record
<1>5. \A c : LineOf(p, c) = K[c]
  BY <1>2, <1>4 DEF LineOf
<1> QED BY <1>3, <1>5

\* A new credential changes nobody's line.
LEMMA LinesStay ==
    ASSUME NEW p, NEW n, Record(p, n), NEW q, Record(q, n + 1), \A d \in 1 .. n : q[d] = p[d]
    PROVE \A c \in 1 .. n : LineOf(q, c) = LineOf(p, c)
<1>1. PICK U : U = {m \in Nat : \A c \in 1 .. n : c <= m => LineOf(q, c) = LineOf(p, c)}
  OBVIOUS
<1>2. 0 \in U
  BY <1>1
<1>3. \A m \in Nat : m \in U => m + 1 \in U
  <2> SUFFICES ASSUME NEW m \in Nat, m \in U, NEW c \in 1 .. n, c <= m + 1
               PROVE LineOf(q, c) = LineOf(p, c)
    BY <1>1
  <2>1. q[c] = p[c] /\ c \in 1 .. (n + 1) /\ n \in Nat
    BY DEF Record
  <2>2. p[c] # None => LineOf(q, p[c]) = LineOf(p, p[c])
    BY <1>1 DEF Record
  <2>3. LineOf(p, c) = {c} \cup IF p[c] = None THEN {} ELSE LineOf(p, p[c])
    BY LineGoesUp
  <2>4. LineOf(q, c) = {c} \cup IF q[c] = None THEN {} ELSE LineOf(q, q[c])
    BY <2>1, LineGoesUp
  <2> QED BY <2>1, <2>2, <2>3, <2>4
<1>4. n \in U
  BY <1>2, <1>3, NatSetInduction DEF Record
<1> QED BY <1>1, <1>4

LEMMA AncestorsAreLines ==
    \A c : Login!Ancestors(c) = LineOf(parent, c) /\ Login!Ancestors(c)' = LineOf(parent', c)
BY DEF Login!Ancestors, LineOf, Login!Issued

Latest == Cardinality(DOMAIN parent)
Known == (1 .. Latest) \cup {None}

LoginTypes ==
  /\ Record(parent, Latest)
  /\ source \in Known /\ read \in Known /\ unlocked \subseteq Known /\ wronged = {}
  /\ target \in [Attempts -> Known] /\ seed \in [Attempts -> Known]
  /\ step \in [Attempts -> {"idle", "staging", "run", "sync", "write", "record"}]

\* Whoever is about to write holds the lock, and the lock is for what it read.
LockKnown ==
  \A a \in Attempts :
    /\ step[a] \in {"staging", "write", "record"} => sourceLock = a
    /\ step[a] = "staging" => seed[a] = read /\ read # None /\ target[a] = None
    /\ step[a] \in {"run", "sync", "write", "record"} => target[a] # None
\* Until the holder has written, the source is one of its copy's own line, or
\* was changed by a user who knows no lock.
SourceKnown ==
  \A a \in Attempts : step[a] = "write" =>
    source \in {None} \cup unlocked \cup LineOf(parent, target[a])
CopiesKnown ==
  \A a \in Attempts : target[a] # None => seed[a] # None /\ seed[a] \in LineOf(parent, target[a])

LoginInv == LoginTypes /\ LockKnown /\ SourceKnown /\ CopiesKnown

LEMMA SameLogins == ASSUME NEW S PROVE Login!Cardinality(S) = Cardinality(S)
BY DEF Login!Cardinality, Cardinality

LEMMA SelfDescends ==
    ASSUME LoginInv PROVE \A c \in 1 .. Latest : c \in LineOf(parent, c)
BY LineGoesUp DEF LoginInv, LoginTypes

LEMMA StageKeeps ==
    ASSUME NoNone, LoginInv, NEW a \in Attempts, Login!Stage(a) \/ Login!Publish(a)
    PROVE LoginInv'
<1> USE DEF LoginInv
<1>1. /\ step[a] \in {"idle", "staging"}
      /\ UNCHANGED <<source, synced, parent, unlocked, wronged>>
  BY DEF Login!Stage, Login!Publish, Login!At
<1>2. CASE Login!Stage(a) /\ target[a] = None
  <2>1. /\ sourceLock = None /\ source # None /\ step' = [step EXCEPT ![a] = "staging"]
        /\ sourceLock' = a /\ read' = source /\ seed' = [seed EXCEPT ![a] = source] /\ target' = target
    BY <1>2 DEF Login!Stage, Login!At
  <2>2. LoginTypes'
    BY <1>1, <2>1 DEF LoginTypes, Latest, Known
  <2>3. \A c \in Attempts : step[c] \notin {"staging", "write", "record"}
    BY <2>1 DEF LockKnown, NoNone
  <2>4. LockKnown' /\ SourceKnown' /\ CopiesKnown'
    BY <1>1, <1>2, <2>1, <2>3 DEF LockKnown, SourceKnown, CopiesKnown, LoginTypes
  <2> QED BY <2>2, <2>4
<1>3. CASE Login!Stage(a) /\ target[a] # None
  <2>1. /\ step' = [step EXCEPT ![a] = "run"] /\ UNCHANGED <<sourceLock, read, seed, target>>
    BY <1>3 DEF Login!Stage, Login!At
  <2>2. LoginTypes'
    BY <1>1, <2>1 DEF LoginTypes, Latest, Known
  <2>3. LockKnown' /\ SourceKnown' /\ CopiesKnown'
    BY <1>1, <1>3, <2>1 DEF LockKnown, SourceKnown, CopiesKnown, LoginTypes
  <2> QED BY <2>2, <2>3
<1>4. CASE Login!Publish(a)
  <2>1. /\ step[a] = "staging" /\ step' = [step EXCEPT ![a] = "run"] /\ sourceLock' = None
        /\ target' = [target EXCEPT ![a] = read] /\ UNCHANGED <<seed, read>>
    BY <1>4 DEF Login!Publish, Login!At
  <2>2. seed[a] = read /\ read # None /\ read \in 1 .. Latest /\ sourceLock = a
    BY <2>1 DEF LockKnown, LoginTypes, Known
  <2>3. LoginTypes'
    BY <1>1, <2>1 DEF LoginTypes, Latest, Known
  <2>4. \A c \in Attempts : c # a => step[c] \notin {"staging", "write", "record"}
    BY <2>2 DEF LockKnown
  <2>5. LockKnown' /\ SourceKnown'
    BY <1>1, <2>1, <2>2, <2>4 DEF LockKnown, SourceKnown, LoginTypes
  <2>6. CopiesKnown'
    BY <1>1, <2>1, <2>2, SelfDescends DEF CopiesKnown, LoginTypes
  <2> QED BY <2>3, <2>5, <2>6
<1> QED BY <1>2, <1>3, <1>4

\* The provider's new credential: a login, or what a copy is refreshed to.
LEMMA IssuedGrows ==
    ASSUME NoNone, LoginTypes, NEW from \in Known, Login!Issue(from)
    PROVE /\ Latest \in Nat /\ Latest' = Latest + 1 /\ Login!Next1 = Latest + 1
          /\ Record(parent', Latest + 1) /\ parent'[Latest + 1] = from
          /\ \A c \in 1 .. Latest : LineOf(parent', c) = LineOf(parent, c)
<1>1. /\ DOMAIN parent = 1 .. Latest /\ Latest \in Nat
  BY DEF LoginTypes, Record
<1>2. PICK d : d = DOMAIN parent
  OBVIOUS
<1>3. Login!Next1 = Latest + 1
  BY <1>2, SameLogins DEF Login!Next1, Login!Issued, Latest
<1>4. parent' = [c \in (1 .. Latest) \cup {Latest + 1} |-> IF c = Latest + 1 THEN from ELSE parent[c]]
  BY <1>1, <1>3 DEF Login!Issue, Login!Issued
<1>5. (1 .. Latest) \cup {Latest + 1} = 1 .. (Latest + 1)
  BY <1>1
<1>6. DOMAIN parent' = 1 .. (Latest + 1)
  BY <1>4, <1>5
<1>7. Latest' = Latest + 1
  BY <1>1, <1>6, FS_Interval DEF Latest
<1>8. Record(parent', Latest + 1)
  BY <1>1, <1>4, <1>5 DEF Record, Known, LoginTypes, NoNone
<1>9. \A c \in 1 .. Latest : parent'[c] = parent[c]
  BY <1>1, <1>4, <1>5
<1> QED BY <1>1, <1>3, <1>4, <1>5, <1>7, <1>8, <1>9, LinesStay DEF LoginTypes

LEMMA RefreshKeeps ==
    ASSUME NoNone, LoginInv, NEW a \in Attempts, Login!Refresh(a) PROVE LoginInv'
<1> USE DEF LoginInv
<1>1. /\ step[a] = "run" /\ Login!Issue(target[a]) /\ target' = [target EXCEPT ![a] = Login!Next1]
      /\ UNCHANGED <<source, seed, step, sourceLock, read, unlocked, wronged>>
  BY DEF Login!Refresh
<1>2. target[a] \in 1 .. Latest /\ target[a] \in Known
  BY <1>1 DEF LockKnown, LoginTypes, Known
<1>3. /\ Latest \in Nat /\ Latest' = Latest + 1 /\ Login!Next1 = Latest + 1
      /\ Record(parent', Latest + 1) /\ parent'[Latest + 1] = target[a]
      /\ \A c \in 1 .. Latest : LineOf(parent', c) = LineOf(parent, c)
  BY <1>1, <1>2, IssuedGrows
<1>4. Known \subseteq Known' /\ Latest + 1 \in Known'
  BY <1>3 DEF Known
<1>5. LoginTypes'
  BY <1>1, <1>3, <1>4 DEF LoginTypes
<1>6. LockKnown'
  BY <1>1, <1>3 DEF LockKnown, LoginTypes, NoNone
<1>7. SourceKnown'
  BY <1>1, <1>3 DEF SourceKnown, LoginTypes, LockKnown, Known
<1>8. CopiesKnown'
  <2> SUFFICES ASSUME NEW c \in Attempts, target'[c] # None
               PROVE seed'[c] # None /\ seed'[c] \in LineOf(parent', target'[c])
    BY DEF CopiesKnown
  <2>1. CASE c = a
    <3>1. target'[c] = Latest + 1 /\ Latest + 1 \in 1 .. (Latest + 1) /\ target[a] # None
      BY <2>1, <1>1, <1>2, <1>3 DEF LoginTypes, NoNone
    <3>2. LineOf(parent', Latest + 1) = {Latest + 1} \cup LineOf(parent', target[a])
      BY <3>1, <1>3, LineGoesUp
    <3>3. seed[a] # None /\ seed[a] \in LineOf(parent, target[a])
      BY <3>1 DEF CopiesKnown
    <3> QED BY <2>1, <3>1, <3>2, <3>3, <1>1, <1>2, <1>3
  <2>2. CASE c # a
    <3>1. target'[c] = target[c] /\ target[c] \in 1 .. Latest
      BY <2>2, <1>1 DEF LoginTypes, Known
    <3> QED BY <3>1, <1>1, <1>3 DEF CopiesKnown
  <2> QED BY <2>1, <2>2
<1> QED BY <1>5, <1>6, <1>7, <1>8

LEMMA UserKeeps ==
    ASSUME NoNone, LoginInv, Login!Login \/ Login!Logout PROVE LoginInv'
<1> USE DEF LoginInv
<1>1. CASE Login!Login
  <2>1. /\ Login!Issue(None) /\ source' = Login!Next1
        /\ unlocked' = IF sourceLock = None THEN unlocked ELSE unlocked \cup {Login!Next1}
        /\ UNCHANGED <<target, seed, step, sourceLock, read, wronged>>
    BY <1>1 DEF Login!Login
  <2>2. /\ Latest \in Nat /\ Latest' = Latest + 1 /\ Login!Next1 = Latest + 1
        /\ Record(parent', Latest + 1)
        /\ \A c \in 1 .. Latest : LineOf(parent', c) = LineOf(parent, c)
    BY <2>1, IssuedGrows DEF Known
  <2>3. Known \subseteq Known' /\ Latest + 1 \in Known'
    BY <2>2 DEF Known
  <2>4. LoginTypes'
    BY <2>1, <2>2, <2>3 DEF LoginTypes
  <2>5. LockKnown'
    BY <2>1 DEF LockKnown
  <2>6. SourceKnown'
    BY <2>1, <2>2 DEF SourceKnown, LockKnown, NoNone
  <2>7. CopiesKnown'
    BY <2>1, <2>2 DEF CopiesKnown, LoginTypes, Known
  <2> QED BY <2>4, <2>5, <2>6, <2>7
<1>2. CASE Login!Logout
  <2>1. source' = None /\ UNCHANGED <<target, seed, step, sourceLock, read, parent, unlocked, wronged>>
    BY <1>2 DEF Login!Logout
  <2> QED BY <2>1 DEF LoginTypes, Latest, Known, LockKnown, SourceKnown, CopiesKnown
<1> QED BY <1>1, <1>2

LEMMA SyncKeeps ==
    ASSUME NoNone, LoginInv, NEW a \in Attempts, Login!Sync(a) PROVE LoginInv'
<1> USE DEF LoginInv
<1>1. /\ sourceLock = None /\ read' = source /\ step[a] = "sync"
      /\ UNCHANGED <<source, target, parent, wronged>>
  BY DEF Login!Sync, Login!At
<1>2. \A c \in Attempts : step[c] \notin {"staging", "write", "record"}
  BY <1>1 DEF LockKnown, NoNone
<1>3. target[a] # None /\ target[a] \in 1 .. Latest
  BY <1>1 DEF LockKnown, LoginTypes, Known
<1>4. CASE Login!Found(a) = "refreshed"
  <2>1. /\ step' = [step EXCEPT ![a] = "write"] /\ sourceLock' = a /\ unlocked' = {} /\ seed' = seed
    BY <1>4 DEF Login!Sync, Login!At
  <2>2. source = seed[a]
    BY <1>4 DEF Login!Found
  <2>3. LoginTypes'
    BY <1>1, <2>1 DEF LoginTypes, Latest, Known
  <2>4. LockKnown'
    BY <1>1, <1>2, <1>3, <2>1 DEF LockKnown, LoginTypes
  <2>5. SourceKnown' /\ CopiesKnown'
    BY <1>1, <1>2, <1>3, <2>1, <2>2 DEF SourceKnown, CopiesKnown, LoginTypes
  <2> QED BY <2>3, <2>4, <2>5
<1>5. CASE Login!Found(a) # "refreshed"
  <2>1. /\ step' = [step EXCEPT ![a] = "idle"] /\ UNCHANGED <<sourceLock, unlocked>>
        /\ seed' = IF Login!Found(a) = "unchanged" THEN [seed EXCEPT ![a] = source] ELSE seed
    BY <1>5 DEF Login!Sync, Login!At
  <2>2. Login!Found(a) = "unchanged" => source = target[a]
    BY DEF Login!Found
  <2>3. LoginTypes'
    BY <1>1, <2>1 DEF LoginTypes, Latest, Known
  <2>4. LockKnown' /\ SourceKnown'
    BY <1>1, <1>2, <2>1 DEF LockKnown, SourceKnown, LoginTypes
  <2>5. CopiesKnown'
    BY <1>1, <1>3, <2>1, <2>2, SelfDescends DEF CopiesKnown, LoginTypes
  <2> QED BY <2>3, <2>4, <2>5
<1> QED BY <1>4, <1>5

LEMMA WriteBackKeeps ==
    ASSUME NoNone, LoginInv, NEW a \in Attempts, Login!WriteBack(a) \/ Login!Record(a)
    PROVE LoginInv'
<1> USE DEF LoginInv
<1>1. step[a] \in {"write", "record"} /\ sourceLock = a /\ target[a] # None /\ target[a] \in 1 .. Latest
  BY DEF Login!WriteBack, Login!Record, Login!At, LockKnown, LoginTypes, Known
<1>2. \A c \in Attempts : c # a => step[c] \notin {"staging", "write", "record"}
  BY <1>1 DEF LockKnown
<1>3. CASE Login!WriteBack(a)
  <2>1. /\ step[a] = "write" /\ step' = [step EXCEPT ![a] = "record"] /\ source' = target[a]
        /\ UNCHANGED <<target, seed, sourceLock, read, parent, unlocked>>
        /\ wronged' = wronged \cup ({source} \ ({None} \cup LineOf(parent, target[a]) \cup unlocked))
    BY <1>3, AncestorsAreLines DEF Login!WriteBack, Login!At
  <2>2. wronged' = {}
    BY <2>1 DEF SourceKnown, LoginTypes
  <2>3. LoginTypes'
    BY <1>1, <2>1, <2>2 DEF LoginTypes, Latest, Known
  <2>4. LockKnown' /\ SourceKnown' /\ CopiesKnown'
    BY <1>1, <1>2, <2>1 DEF LockKnown, SourceKnown, CopiesKnown, LoginTypes
  <2> QED BY <2>3, <2>4
<1>4. CASE Login!Record(a)
  <2>1. /\ step[a] = "record" /\ step' = [step EXCEPT ![a] = "idle"] /\ sourceLock' = None
        /\ seed' = [seed EXCEPT ![a] = target[a]]
        /\ UNCHANGED <<source, target, read, parent, unlocked, wronged>>
    BY <1>4 DEF Login!Record, Login!At
  <2>2. LoginTypes'
    BY <2>1 DEF LoginTypes, Latest, Known
  <2>3. LockKnown' /\ SourceKnown'
    BY <1>2, <2>1 DEF LockKnown, SourceKnown, LoginTypes
  <2>4. CopiesKnown'
    BY <1>1, <2>1, SelfDescends DEF CopiesKnown, LoginTypes
  <2> QED BY <2>2, <2>3, <2>4
<1> QED BY <1>3, <1>4

LEMMA EndsKeeps ==
    ASSUME NoNone, LoginInv, NEW a \in Attempts, Login!Ends(a) \/ Login!Crash(a)
    PROVE LoginInv'
<1> USE DEF LoginInv
<1>1. UNCHANGED <<source, target, seed, read, parent, unlocked, wronged>>
  BY DEF Login!Ends, Login!Crash
<1>2. CASE Login!Ends(a)
  <2>1. step[a] = "run" /\ step' = [step EXCEPT ![a] = "sync"] /\ sourceLock' = sourceLock
    BY <1>2 DEF Login!Ends, Login!At
  <2> QED BY <1>1, <2>1 DEF LoginTypes, Latest, Known, LockKnown, SourceKnown, CopiesKnown
<1>3. CASE Login!Crash(a)
  <2>1. step' = [step EXCEPT ![a] = "idle"] /\ sourceLock' = IF sourceLock = a THEN None ELSE sourceLock
    BY <1>3 DEF Login!Crash
  <2> QED BY <1>1, <2>1 DEF LoginTypes, Latest, Known, LockKnown, SourceKnown, CopiesKnown
<1> QED BY <1>2, <1>3

\* The inductive invariant of a shared login.
THEOREM LoginInvariant == LoginSpec => []LoginInv
<1> USE LoginAssumption
<1>1. Login!Init => LoginInv
  <2> SUFFICES ASSUME Login!Init PROVE LoginInv
    OBVIOUS
  <2> USE DEF Login!Init
  <2>1. DOMAIN parent = 1 .. 1 /\ Latest = 1
    <3>1. DOMAIN parent = {1} /\ {1} = 1 .. 1
      OBVIOUS
    <3>2. Cardinality({1}) = 1
      BY FS_Singleton
    <3> QED BY <3>1, <3>2 DEF Latest
  <2>2. Record(parent, Latest)
    BY <2>1 DEF Record
  <2>3. LoginTypes
    BY <2>1, <2>2 DEF LoginTypes, Known
  <2> QED BY <2>3 DEF LoginInv, LockKnown, SourceKnown, CopiesKnown
<1>2. LoginInv /\ [Login!Next]_Login!credentialVars => LoginInv'
  <2> SUFFICES ASSUME LoginInv, [Login!Next]_Login!credentialVars PROVE LoginInv'
    OBVIOUS
  <2>1. CASE UNCHANGED Login!credentialVars
    BY <2>1 DEF Login!credentialVars, LoginInv, LoginTypes, Latest, Known, LockKnown, SourceKnown, CopiesKnown
  <2> QED BY <2>1, StageKeeps, RefreshKeeps, UserKeeps, SyncKeeps, WriteBackKeeps, EndsKeeps
          DEF Login!Next
<1> QED BY <1>1, <1>2, PTL DEF LoginSpec

\* Whatever attempts refresh one login at once, crash between two writes, or
\* find it removed: a write back replaces nothing but what its own copy descends
\* from (or what the user changed without the lock), and every copy descends
\* from the credential its record names (stage_file, sync_files).
THEOREM LoginSound == LoginSpec => []Login!CredentialsHold
<1> USE LoginAssumption
<1>1. LoginInv => Login!CredentialsHold
  BY AncestorsAreLines DEF LoginInv, LoginTypes, CopiesKnown, Login!CredentialsHold
<1> QED BY <1>1, LoginInvariant, PTL

-----------------------------------------------------------------------------
(* The end of a process tree                                               *)

ProcessRecords == [start : Nat, parent : Pids \cup {Stopper}, kin : BOOLEAN, fresh : BOOLEAN,
                   lost : BOOLEAN, doomed : BOOLEAN]

Children(owners) == {p \in Tree!Used : table[p].parent \in owners}

\* N rounds, each of which adds to a set of Q what k says of it.
Rounds(N, Q, k, owners) == N \in Nat /\ k \in [SUBSET Q -> SUBSET Q] /\ owners \in SUBSET Q
Grows(g, N, Q, k, owners) ==
  /\ g \in [0 .. N -> SUBSET Q]
  /\ \A n \in 0 .. N : g[n] = IF n = 0 THEN owners ELSE g[n - 1] \cup k[g[n - 1]]

LEMMA GrowthExists ==
    ASSUME NEW N, NEW Q, NEW k, NEW owners, Rounds(N, Q, k, owners)
    PROVE \E F : Grows(F, N, Q, k, owners)
<1> USE DEF Rounds
<1>1. PICK D, V, M, B : D = 0 .. N /\ V = SUBSET Q /\ M = N + 1 /\ B = {0}
  OBVIOUS
<1>2. PICK r : r = [n \in D |-> n]
  OBVIOUS
<1>3. PICK next : next = [n \in D |-> n - 1]
  OBVIOUS
<1>4. PICK b : b = [n \in D |-> owners]
  OBVIOUS
<1>5. PICK c : c = [x \in D \X V |-> x[2] \cup k[x[2]]]
  OBVIOUS
<1>6. Descends(D, M, r, B, next)
  BY <1>1, <1>2, <1>3 DEF Descends
<1>7. Steps(D, V, b, c)
  BY <1>1, <1>4, <1>5 DEF Steps
<1>8. PICK F : Solution(F, D, V, B, next, b, c)
  BY <1>6, <1>7, Recursion
<1>9. \A n \in D : F[n] = IF n = 0 THEN owners ELSE F[n - 1] \cup k[F[n - 1]]
  <2> TAKE n \in D
  <2>1. CASE n = 0
    BY <2>1, <1>1, <1>4, <1>8 DEF Solution
  <2>2. CASE n # 0
    <3>1. F[n] = c[<<n, F[n - 1]>>] /\ n - 1 \in D /\ F[n - 1] \in V
      BY <2>2, <1>1, <1>3, <1>8 DEF Solution
    <3>2. <<n, F[n - 1]>> \in D \X V
      BY <3>1
    <3> QED BY <2>2, <3>1, <3>2, <1>5
  <2> QED BY <2>1, <2>2
<1> QED BY <1>1, <1>8, <1>9 DEF Solution, Grows

\* Enough rounds reach everyone: a round that adds nobody is the last, and there
\* are no more rounds than numbers.
LEMMA GrowthCloses ==
    ASSUME NEW N, NEW Q, NEW k, NEW owners, NEW g, IsFiniteSet(Q), N = Cardinality(Q),
           Rounds(N, Q, k, owners), Grows(g, N, Q, k, owners)
    PROVE owners \subseteq g[N] /\ k[g[N]] \subseteq g[N]
<1> DEFINE Fine(s, n) == owners \subseteq s /\ (k[s] \subseteq s \/ Cardinality(s) >= n)
<1>1. N \in Nat /\ k \in [SUBSET Q -> SUBSET Q] /\ owners \in SUBSET Q
  BY DEF Rounds
<1>2. PICK U : U = {n \in Nat : n <= N => Fine(g[n], n)}
  OBVIOUS
<1>3. 0 \in U
  <2>1. Cardinality(owners) \in Nat
    BY <1>1, FS_Subset, FS_CardinalityType
  <2>2. g[0] = owners
    BY <1>1 DEF Grows
  <2> QED BY <1>2, <2>1, <2>2
<1>4. \A n \in Nat : n \in U => n + 1 \in U
  <2> TAKE n \in Nat
  <2> HAVE n \in U
  <2>1. SUFFICES ASSUME n + 1 <= N PROVE Fine(g[n + 1], n + 1)
    <3> HIDE DEF Fine
    <3> QED BY <1>2
  <2>2. PICK s, t : s = g[n] /\ t = g[n + 1]
    OBVIOUS
  <2>3. n \in 0 .. N /\ n + 1 \in 0 .. N /\ n + 1 # 0 /\ (n + 1) - 1 = n /\ n <= N
    BY <1>1, <2>1
  <2>4. t = s \cup k[s] /\ s \in SUBSET Q /\ t \in SUBSET Q
    BY <2>2, <2>3 DEF Grows
  <2>5. Fine(s, n)
    BY <1>2, <2>2, <2>3
  <2>6. CASE k[s] \subseteq s
    <3>1. t = s
      BY <2>4, <2>6
    <3> QED BY <2>2, <2>5, <2>6, <3>1
  <2>7. CASE ~(k[s] \subseteq s)
    <3>1. IsFiniteSet(t) /\ s \in SUBSET t /\ s # t
      BY <2>4, <2>7, FS_Subset
    <3>2. Cardinality(s) <= Cardinality(t) /\ Cardinality(s) # Cardinality(t)
      BY <3>1, FS_Subset
    <3>3. Cardinality(s) \in Nat /\ Cardinality(t) \in Nat
      BY <2>4, FS_Subset, FS_CardinalityType
    <3>4. Cardinality(t) >= n + 1
      BY <2>5, <2>7, <3>2, <3>3
    <3>5. owners \subseteq t
      BY <2>4, <2>5
    <3> QED BY <2>2, <3>4, <3>5
  <2> QED BY <2>6, <2>7
<1>5. N \in U
  BY <1>1, <1>3, <1>4, NatSetInduction
<1>6. PICK s : s = g[N]
  OBVIOUS
<1>7. owners \subseteq s /\ s \in SUBSET Q /\ (k[s] \subseteq s \/ Cardinality(s) >= N)
  BY <1>1, <1>2, <1>5, <1>6 DEF Grows
<1>8. Cardinality(s) >= N => s = Q
  BY <1>1, <1>7, FS_Subset, FS_CardinalityType
<1>9. k[s] \subseteq s
  BY <1>1, <1>7, <1>8
<1> QED BY <1>6, <1>7, <1>9

LEMMA SamePids == ASSUME NEW S PROVE Tree!Cardinality(S) = Cardinality(S)
BY DEF Tree!Cardinality, Cardinality

\* Whoever is a child of a descendant is one; and nobody else is than owners and
\* processes of the table whose parent is one.
LEMMA DescendantsClosed ==
    ASSUME PidsKnown, NEW owners \in SUBSET Pids
    PROVE /\ owners \subseteq Tree!Descendants(owners) /\ Tree!Descendants(owners) \subseteq Pids
          /\ Children(Tree!Descendants(owners)) \subseteq Tree!Descendants(owners)
          /\ \A S \in SUBSET Pids : owners \subseteq S /\ Children(S) \subseteq S
               => Tree!Descendants(owners) \subseteq S
<1>1. PICK N : N = Cardinality(Pids)
  OBVIOUS
<1>2. N \in Nat /\ N = Tree!Cardinality(Pids) /\ IsFiniteSet(Pids)
  BY <1>1, SamePids, FS_CardinalityType DEF PidsKnown
<1>3. PICK k : k = [s \in SUBSET Pids |-> Children(s)]
  OBVIOUS
<1>4. k \in [SUBSET Pids -> SUBSET Pids]
  BY <1>3 DEF Children, Tree!Used
<1> DEFINE Solves(g) ==
      g = [n \in 0 .. N |-> IF n = 0 THEN owners
           ELSE g[n - 1] \cup {p \in Tree!Used : table[p].parent \in g[n - 1]}]
<1>5. \E F : Solves(F)
  <2>1. PICK F : Grows(F, N, Pids, k, owners)
    BY <1>2, <1>4, GrowthExists DEF Rounds
  <2>2. \A n \in 0 .. N : n # 0 => k[F[n - 1]] = Children(F[n - 1])
    <3> SUFFICES ASSUME NEW n \in 0 .. N, n # 0 PROVE k[F[n - 1]] = Children(F[n - 1])
      OBVIOUS
    <3>1. F[n - 1] \in SUBSET Pids
      BY <1>2, <2>1 DEF Grows
    <3>2. PICK s : s = F[n - 1]
      OBVIOUS
    <3> QED BY <3>1, <3>2, <1>3
  <2>3. \A n \in 0 .. N : F[n] = IF n = 0 THEN owners
           ELSE F[n - 1] \cup {p \in Tree!Used : table[p].parent \in F[n - 1]}
    BY <2>1, <2>2 DEF Children, Grows
  <2>4. F = [n \in 0 .. N |-> F[n]]
    BY <2>1 DEF Grows
  <2>5. Solves(F)
    BY <2>3, <2>4
  <2> QED BY <2>5
<1>6. PICK K : K = CHOOSE g : Solves(g)
  OBVIOUS
<1>7. Solves(K)
  BY <1>5, <1>6
<1>8. Tree!Descendants(owners) = K[N]
  BY <1>2, <1>6 DEF Tree!Descendants
<1>9. /\ \A n \in 0 .. N : K[n] = IF n = 0 THEN owners
           ELSE K[n - 1] \cup {p \in Tree!Used : table[p].parent \in K[n - 1]}
      /\ DOMAIN K = 0 .. N
      /\ K = [n \in 0 .. N |-> K[n]]
  BY <1>7
<1> HIDE DEF Solves
<1>10. K[0] = owners /\ \A n \in Nat : n + 1 <= N => K[n + 1] = K[n] \cup Children(K[n])
  <2>1. K[0] = owners
    BY <1>2, <1>9
  <2>2. ASSUME NEW n \in Nat, n + 1 <= N PROVE K[n + 1] = K[n] \cup Children(K[n])
    <3>1. PICK m : m = n + 1
      OBVIOUS
    <3>2. m \in 0 .. N /\ m # 0 /\ m - 1 = n
      BY <2>2, <3>1, <1>2
    <3>3. K[m] = K[m - 1] \cup {p \in Tree!Used : table[p].parent \in K[m - 1]}
      BY <3>2, <1>9
    <3> QED BY <3>1, <3>2, <3>3 DEF Children
  <2> QED BY <2>1, <2>2
<1>11. \A S \in SUBSET Pids : owners \subseteq S /\ Children(S) \subseteq S
         => \A n \in 0 .. N : K[n] \subseteq S
  <2> SUFFICES ASSUME NEW S \in SUBSET Pids, owners \subseteq S, Children(S) \subseteq S
               PROVE \A n \in 0 .. N : K[n] \subseteq S
    OBVIOUS
  <2>1. PICK U : U = {n \in Nat : n <= N => K[n] \subseteq S}
    OBVIOUS
  <2>2. 0 \in U
    BY <1>10, <2>1
  <2>3. \A n \in Nat : n \in U => n + 1 \in U
    <3> SUFFICES ASSUME NEW n \in Nat, n \in U, n + 1 <= N PROVE K[n + 1] \subseteq S
      BY <2>1
    <3>1. K[n] \subseteq S /\ K[n + 1] = K[n] \cup Children(K[n])
      BY <1>2, <1>10, <2>1
    <3> QED BY <3>1 DEF Children
  <2>4. Nat \subseteq U
    BY <2>2, <2>3, NatSetInduction
  <2> QED BY <1>2, <2>1, <2>4
<1>12. Children(Pids) \subseteq Pids
  BY DEF Children, Tree!Used
<1>13. \A n \in 0 .. N : K[n] \in SUBSET Pids
  BY <1>11, <1>12
<1>14. Grows(K, N, Pids, k, owners)
  <2> SUFFICES ASSUME NEW n \in 0 .. N
               PROVE K[n] = IF n = 0 THEN owners ELSE K[n - 1] \cup k[K[n - 1]]
    BY <1>9, <1>13 DEF Grows
  <2>1. CASE n = 0
    BY <2>1, <1>10
  <2>2. CASE n # 0
    <3>1. PICK m : m = n - 1
      OBVIOUS
    <3>2. m \in Nat /\ m \in 0 .. N /\ m + 1 = n /\ m + 1 <= N
      BY <2>2, <3>1, <1>2
    <3>3. PICK s : s = K[m]
      OBVIOUS
    <3>4. k[s] = Children(s)
      BY <1>3, <1>13, <3>2, <3>3
    <3>5. K[m + 1] = K[m] \cup Children(K[m])
      BY <1>10, <3>2
    <3> QED BY <2>2, <3>1, <3>2, <3>3, <3>4, <3>5
  <2> QED BY <2>1, <2>2
<1>16. owners \subseteq K[N] /\ k[K[N]] \subseteq K[N]
  <2>1. Rounds(N, Pids, k, owners)
    BY <1>2, <1>4 DEF Rounds
  <2> QED BY <1>1, <1>2, <1>14, <2>1, GrowthCloses
<1>17. PICK s : s = K[N]
  OBVIOUS
<1>18. s \in SUBSET Pids /\ k[s] = Children(s)
  BY <1>2, <1>3, <1>13, <1>17
<1> QED BY <1>2, <1>8, <1>11, <1>16, <1>17, <1>18

TreeTypes ==
  /\ table \in [Pids -> ProcessRecords] /\ starts \in Nat /\ starts >= 1
  /\ DOMAIN known \subseteq Pids /\ \A p \in DOMAIN known : known[p] \in 1 .. starts
  /\ reached \subseteq {TRUE}
  /\ stopAt \in {"begin", "not_running", "term", "scan", "look", "kill", "wait", "stopped", "timed_out"}
StartsCounted ==
  \A p \in Tree!Used : table[p].start \in 1 .. starts /\ (table[p].start = 1 => p = Owner /\ table[p].kin)
ParentsKept ==
  \A p, u \in Pids : p \in Tree!Used /\ table[p].parent = u =>
    /\ u \in Tree!Used /\ table[u].start < table[p].start /\ table[u].kin = table[p].kin
    /\ (table[u].lost => table[p].lost)
FamilyKnown ==
  /\ \A p \in DOMAIN known : Tree!Same(p) => table[p].kin
  /\ stopAt \notin {"begin", "not_running"} => Owner \in DOMAIN known
\* The processes the code has to find: it knows them, or their parents.
Tracked(p) == p \in Tree!Used /\ table[p].kin /\ ~table[p].lost
Rooted(p) == IF stopAt = "begin" THEN p = Owner /\ table[p].start = 1
             ELSE p \in DOMAIN known /\ Tree!Same(p)
Traced ==
  stopAt # "not_running" =>
    \A p \in Pids : Tracked(p) => Rooted(p) \/ (table[p].fresh /\ table[p].parent \in Pids)
StoppedEmpty == stopAt = "stopped" => Tree!Live = {}
TreeInv == TreeTypes /\ StartsCounted /\ ParentsKept /\ FamilyKnown /\ Traced /\ StoppedEmpty

LEMMA UsedStarts ==
    ASSUME PidsKnown, TreeTypes, StartsCounted
    PROVE \A p \in Pids : /\ p \in Tree!Used <=> table[p].start # 0
                          /\ p \in Tree!Used <=> table[p] # Tree!Free
BY DEF PidsKnown, TreeTypes, ProcessRecords, StartsCounted, Tree!Used, Tree!Free, Tree!Process

\* A set of processes that has those the code knows, and the children of each,
\* has all it must find.
LEMMA TrackedFound ==
    ASSUME PidsKnown, TreeInv, stopAt # "not_running",
           NEW S \in SUBSET Pids, \A p \in Pids : Tracked(p) /\ Rooted(p) => p \in S,
           Children(S) \subseteq S
    PROVE \A p \in Pids : Tracked(p) => p \in S
<1> SUFFICES ASSUME \E p \in Pids : Tracked(p) /\ p \notin S PROVE FALSE
  OBVIOUS
<1>1. PICK U : U = {table[p].start : p \in {x \in Pids : Tracked(x) /\ x \notin S}}
  OBVIOUS
<1>2. U # {} /\ U \subseteq Nat
  BY <1>1 DEF TreeInv, TreeTypes, ProcessRecords
<1>3. PICK n \in U : \A m \in U : n <= m
  BY <1>2, LeastNatural
<1>4. PICK p \in Pids : Tracked(p) /\ p \notin S /\ table[p].start = n
  BY <1>1, <1>3
<1>5. table[p].parent \in Pids /\ p \in Tree!Used
  BY <1>4 DEF TreeInv, Traced, Tracked
<1>6. PICK u \in Pids : u = table[p].parent
  BY <1>5
<1>7. Tracked(u) /\ table[u].start < table[p].start
  BY <1>4, <1>5, <1>6 DEF TreeInv, ParentsKept, Tracked
<1>8. u \in S
  <2> SUFFICES ASSUME u \notin S PROVE FALSE
    OBVIOUS
  <2>1. table[u].start \in U /\ table[u].start \in Nat /\ table[p].start \in Nat
    BY <1>1, <1>7 DEF TreeInv, TreeTypes, ProcessRecords
  <2> QED BY <1>3, <1>4, <1>7, <2>1
<1>9. p \in S
  BY <1>5, <1>6, <1>8 DEF Children
<1> QED BY <1>4, <1>9

LEMMA TreeInitially == ASSUME PidsKnown, Tree!Init PROVE TreeInv
<1> USE DEF Tree!Init, Tree!Process, Tree!Free, PidsKnown
<1>1. PICK o : o = Tree!Process(1, Stopper, TRUE, FALSE)
  OBVIOUS
<1>2. PICK f : f = Tree!Free
  OBVIOUS
<1>3. o \in ProcessRecords /\ f \in ProcessRecords /\ o # f /\ o.start = 1 /\ o.kin
      /\ o.parent \notin Pids /\ f.parent \notin Pids
  BY <1>1, <1>2 DEF ProcessRecords
<1>4. table = [p \in Pids |-> IF p = Owner THEN o ELSE f]
  BY <1>1, <1>2
<1> HIDE DEF Tree!Process, Tree!Free
<1>5. Tree!Used = {Owner}
  BY <1>2, <1>3, <1>4 DEF Tree!Used
<1>a. DOMAIN known = {} /\ starts = 1 /\ stopAt = "begin" /\ reached = {} /\ Owner \in Pids
  OBVIOUS
<1> HIDE DEF Tree!Init, PidsKnown
<1>6. TreeTypes
  <2>1. table \in [Pids -> ProcessRecords]
    BY <1>3, <1>4
  <2>2. \A p \in DOMAIN known : known[p] \in 1 .. starts
    BY <1>a
  <2> QED BY <1>a, <2>1, <2>2 DEF TreeTypes
<1>7. StartsCounted /\ ParentsKept
  <2>1. table[Owner] = o /\ starts = 1 /\ 1 \in 1 .. 1
    BY <1>4, <1>a
  <2>2. StartsCounted
    BY <1>3, <1>5, <2>1 DEF StartsCounted
  <2>3. \A p, u \in Pids : p \in Tree!Used => table[p].parent # u
    BY <1>3, <1>5, <2>1
  <2> QED BY <2>2, <2>3 DEF ParentsKept
<1>8. FamilyKnown /\ StoppedEmpty
  BY <1>a DEF FamilyKnown, StoppedEmpty
<1>9. Traced
  BY <1>a, <1>3, <1>4, <1>5 DEF Traced, Tracked, Rooted
<1> QED BY <1>6, <1>7, <1>8, <1>9 DEF TreeInv

\* What one of the family that has its number from before is.
LEMMA SameProcess ==
    ASSUME PidsKnown, TreeInv
    PROVE \A p \in DOMAIN known : Tree!Same(p) => p \in Pids /\ table[p].kin /\ p \in Tree!Used
BY DEF TreeInv, TreeTypes, FamilyKnown, Tree!Same

\* A new process with a number nobody has.
Born(q, r) ==
  /\ q \in Pids /\ q \notin Tree!Used /\ Tree!Running
  /\ r \in ProcessRecords /\ r.start = starts + 1 /\ r.fresh
  /\ table' = [table EXCEPT ![q] = r]
  /\ \/ r.parent \notin Pids /\ ~r.kin
     \/ \E p \in Tree!Used : r.parent = p /\ r.kin = table[p].kin /\ r.lost = table[p].lost
LEMMA BirthKeeps ==
    ASSUME PidsKnown, TreeInv, NEW q, NEW r, Born(q, r), starts' = starts + 1,
           UNCHANGED <<stopAt, known, reached>>
    PROVE TreeInv'
<1>1. /\ q \in Pids /\ q \notin Tree!Used /\ r \in ProcessRecords /\ r.start = starts + 1 /\ r.fresh
      /\ stopAt \notin {"stopped", "not_running", "timed_out"}
  BY DEF Born, Tree!Running
<1>2. table' \in [Pids -> ProcessRecords] /\ table'[q] = r
      /\ \A p \in Pids : p # q => table'[p] = table[p]
  BY <1>1 DEF Born, TreeInv, TreeTypes
<1>3. TreeTypes'
  <2>1. starts \in Nat /\ \A n \in 1 .. starts : n \in 1 .. (starts + 1)
    BY DEF TreeInv, TreeTypes
  <2>2. \A p \in DOMAIN known : known[p] \in 1 .. starts'
    BY <2>1 DEF TreeInv, TreeTypes
  <2>4. stopAt' = stopAt /\ known' = known /\ reached' = reached
    OBVIOUS
  <2>3. DOMAIN known' \subseteq Pids /\ reached' \subseteq {TRUE} /\ starts' \in Nat /\ starts' >= 1
    <3>1. starts' \in Nat /\ starts' >= 1
      BY <2>1 DEF TreeInv, TreeTypes
    <3> QED BY <2>4, <3>1 DEF TreeInv, TreeTypes
  <2>5. \A p \in DOMAIN known' : known'[p] \in 1 .. starts'
    BY <2>2, <2>4
  <2> QED BY <1>2, <2>3, <2>4, <2>5 DEF TreeInv, TreeTypes
<1>4. starts \in Nat /\ starts >= 1 /\ r.start # 0 /\ r.start # 1
  BY <1>1 DEF TreeInv, TreeTypes
<1>5. r # Tree!Free
  BY <1>1, <1>4 DEF Tree!Free, Tree!Process
<1>6. Tree!Used' = Tree!Used \cup {q}
  <2>1. \A p \in Pids : p \in Tree!Used' <=> table'[p] # Tree!Free
    BY DEF Tree!Used, Tree!Free, Tree!Process
  <2> QED BY <1>1, <1>2, <1>5, <2>1 DEF Tree!Used
<1>7. StartsCounted'
  <2> SUFFICES ASSUME NEW p \in Tree!Used'
               PROVE table'[p].start \in 1 .. starts' /\ (table'[p].start = 1 => p = Owner /\ table'[p].kin)
    BY DEF StartsCounted
  <2>1. CASE p = q
    BY <2>1, <1>1, <1>2, <1>4
  <2>2. CASE p # q
    <3>1. p \in Tree!Used /\ p \in Pids /\ table'[p] = table[p]
      BY <2>2, <1>2, <1>6 DEF Tree!Used
    <3> QED BY <3>1, <1>4 DEF TreeInv, StartsCounted
  <2> QED BY <2>1, <2>2
<1>8. \A p \in Tree!Used : p \in Pids /\ p # q /\ table[p].start \in 1 .. starts /\ table'[p] = table[p]
  BY <1>1, <1>2 DEF Tree!Used, TreeInv, StartsCounted
<1>9. \A p \in Pids : p \in Tree!Used /\ table[p].parent \in Pids => table[p].parent # q
  BY <1>1 DEF TreeInv, ParentsKept
<1>10. ParentsKept'
  <2> SUFFICES ASSUME NEW p \in Pids, NEW u \in Pids, p \in Tree!Used', table'[p].parent = u
               PROVE /\ u \in Tree!Used' /\ table'[u].start < table'[p].start
                     /\ table'[u].kin = table'[p].kin /\ (table'[u].lost => table'[p].lost)
    BY DEF ParentsKept
  <2>1. CASE p = q
    <3>1. u \in Tree!Used /\ r.kin = table[u].kin /\ r.lost = table[u].lost
      BY <2>1, <1>2 DEF Born
    <3> QED BY <2>1, <3>1, <1>1, <1>2, <1>4, <1>6, <1>8
  <2>2. CASE p # q
    <3>1. p \in Tree!Used /\ table'[p] = table[p]
      BY <2>2, <1>2, <1>6
    <3>2. u # q /\ u \in Tree!Used /\ table'[u] = table[u]
      BY <3>1, <1>8, <1>9 DEF TreeInv, ParentsKept
    <3> QED BY <3>1, <3>2, <1>6 DEF TreeInv, ParentsKept
  <2> QED BY <2>1, <2>2
<1>11. \A p \in DOMAIN known : Tree!Same(p)' <=> Tree!Same(p)
  <2> SUFFICES ASSUME NEW p \in DOMAIN known PROVE Tree!Same(p)' <=> Tree!Same(p)
    OBVIOUS
  <2>1. CASE p = q
    <3>1. known[p] \in 1 .. starts
      BY DEF TreeInv, TreeTypes
    <3> QED BY <2>1, <3>1, <1>1, <1>2, <1>4 DEF Tree!Same
  <2>2. CASE p # q
    <3>1. p \in Pids
      BY DEF TreeInv, TreeTypes
    <3> QED BY <2>2, <3>1, <1>2, <1>6 DEF Tree!Same
  <2> QED BY <2>1, <2>2
<1>12. FamilyKnown'
  <2> SUFFICES ASSUME NEW p \in DOMAIN known, Tree!Same(p)' PROVE table'[p].kin
    BY DEF FamilyKnown, TreeInv
  <2> QED BY <1>8, <1>11, SameProcess
<1>13. Traced'
  <2> SUFFICES ASSUME NEW p \in Pids, Tracked(p)'
               PROVE Rooted(p)' \/ (table'[p].fresh /\ table'[p].parent \in Pids)
    BY DEF Traced
  <2>1. CASE p = q
    BY <2>1, <1>1, <1>2 DEF Tracked, Born, Tree!Used
  <2>2. CASE p # q
    <3>1. Tracked(p) /\ table'[p] = table[p]
      BY <2>2, <1>2, <1>6 DEF Tracked
    <3>2. Rooted(p) <=> Rooted(p)'
      BY <3>1, <1>11 DEF Rooted
    <3> QED BY <3>1, <3>2, <1>1 DEF TreeInv, Traced
  <2> QED BY <2>1, <2>2
<1>14. StoppedEmpty'
  BY <1>1 DEF StoppedEmpty
<1> QED BY <1>3, <1>7, <1>10, <1>12, <1>13, <1>14 DEF TreeInv

LEMMA ForkKeeps ==
    ASSUME PidsKnown, TreeInv, NEW p \in Pids, NEW q \in Pids, Tree!Fork(p, q) PROVE TreeInv'
<1>1. PICK r : r = Tree!Process(starts + 1, p, table[p].kin, table[p].lost)
  OBVIOUS
<1>2. r \in ProcessRecords /\ r.start = starts + 1 /\ r.fresh /\ r.parent = p
      /\ r.kin = table[p].kin /\ r.lost = table[p].lost
  <2>1. starts \in Nat /\ table[p] \in ProcessRecords
    BY DEF TreeInv, TreeTypes
  <2>2. table[p].kin \in BOOLEAN /\ table[p].lost \in BOOLEAN /\ starts + 1 \in Nat
    BY <2>1 DEF ProcessRecords
  <2> QED BY <1>1, <2>2 DEF ProcessRecords, Tree!Process
<1>3. Born(q, r)
  BY <1>1, <1>2 DEF Tree!Fork, Born
<1>4. starts' = starts + 1 /\ UNCHANGED <<stopAt, known, reached>>
  BY DEF Tree!Fork
<1> QED BY <1>3, <1>4, BirthKeeps

LEMMA StrangerKeeps ==
    ASSUME PidsKnown, TreeInv, NEW q \in Pids, Tree!Stranger(q) PROVE TreeInv'
<1>1. PICK r : r = Tree!Process(starts + 1, Stopper, FALSE, FALSE)
  OBVIOUS
<1>2. r \in ProcessRecords /\ r.start = starts + 1 /\ r.fresh /\ r.parent \notin Pids /\ ~r.kin
  <2>1. starts + 1 \in Nat
    BY DEF TreeInv, TreeTypes
  <2> QED BY <1>1, <2>1 DEF ProcessRecords, Tree!Process, PidsKnown
<1>3. Born(q, r)
  BY <1>1, <1>2 DEF Tree!Stranger, Born
<1>4. starts' = starts + 1 /\ UNCHANGED <<stopAt, known, reached>>
  BY DEF Tree!Stranger
<1> QED BY <1>3, <1>4, BirthKeeps

\* The end of p: its children get another parent, and those among which are
\* new, and whoever descends from them, are lost.
Orphans(p) == {q \in Children({p}) : table[q].fresh}
Gone(p, lost) ==
  /\ p \in Tree!Used /\ lost \in SUBSET Tree!Used
  /\ Orphans(p) \subseteq lost /\ Children(lost) \subseteq lost
  /\ table' \in [Pids -> ProcessRecords] /\ Tree!Used' = Tree!Used \ {p}
  /\ \A q \in Pids \ {p} :
       /\ table'[q].start = table[q].start /\ table'[q].kin = table[q].kin
       /\ table'[q].fresh = table[q].fresh /\ (table'[q].lost <=> table[q].lost \/ q \in lost)
       /\ table'[q].parent = IF q \in Children({p}) THEN Stopper ELSE table[q].parent

LEMMA ExitLeaves ==
    ASSUME PidsKnown, TreeInv, NEW p \in Pids, Tree!Exit(p) PROVE \E lost : Gone(p, lost)
<1>1. p \in Tree!Used
  BY DEF Tree!Exit
<1>2. PICK c : c = {q \in Tree!Used : table[q].parent = p}
  OBVIOUS
<1>3. c = Children({p}) /\ c \in SUBSET Pids
  BY <1>2 DEF Children, Tree!Used
<1>4. PICK o : o = {q \in c : table[q].fresh}
  OBVIOUS
<1>5. PICK lost : lost = Tree!Descendants(o)
  OBVIOUS
<1>6. o = Orphans(p) /\ o \in SUBSET Tree!Used
  BY <1>2, <1>3, <1>4 DEF Orphans
<1>7. /\ o \subseteq lost /\ Children(lost) \subseteq lost
      /\ \A S \in SUBSET Pids : o \subseteq S /\ Children(S) \subseteq S => lost \subseteq S
  <2>1. o \in SUBSET Pids
    BY <1>3, <1>4
  <2> QED BY <1>5, <2>1, DescendantsClosed
<1>8. lost \in SUBSET Tree!Used
  <2>1. PICK S : S = Tree!Used
    OBVIOUS
  <2>2. S \in SUBSET Pids /\ o \subseteq S /\ Children(S) \subseteq S
    BY <1>6, <2>1 DEF Children, Tree!Used
  <2> QED BY <1>7, <2>1, <2>2
<1>9. table' = [q \in Pids |->
         IF q = p THEN Tree!Free
         ELSE [table[q] EXCEPT !.parent = IF q \in c THEN Stopper ELSE @,
                               !.lost = @ \/ q \in lost]]
  BY <1>2, <1>4, <1>5 DEF Tree!Exit
<1>10. \A q \in Pids : table[q] \in ProcessRecords
  BY DEF TreeInv, TreeTypes
<1>11. Tree!Free \in ProcessRecords
  BY DEF Tree!Free, Tree!Process, ProcessRecords
<1>12. ASSUME NEW q \in Pids, q # p
       PROVE /\ table'[q] \in ProcessRecords
             /\ table'[q].start = table[q].start /\ table'[q].kin = table[q].kin
             /\ table'[q].fresh = table[q].fresh /\ (table'[q].lost <=> table[q].lost \/ q \in lost)
             /\ table'[q].parent = IF q \in c THEN Stopper ELSE table[q].parent
             /\ (q \notin Tree!Used => table'[q] = Tree!Free)
  <2>1. PICK r : r = table[q]
    OBVIOUS
  <2>2. r \in ProcessRecords
    BY <1>10, <2>1
  <2>3. PICK u, l : u = (IF q \in c THEN Stopper ELSE r.parent) /\ l = (r.lost \/ q \in lost)
    OBVIOUS
  <2>4. table'[q] = [r EXCEPT !.parent = u, !.lost = l]
    BY <1>9, <1>12, <2>1, <2>3
  <2>5. u \in Pids \cup {Stopper} /\ l \in BOOLEAN
    BY <2>2, <2>3 DEF ProcessRecords
  <2>6. table'[q] = [start |-> r.start, parent |-> u, kin |-> r.kin, fresh |-> r.fresh,
                     lost |-> l, doomed |-> r.doomed]
    BY <2>2, <2>4 DEF ProcessRecords
  <2>7. table'[q] \in ProcessRecords
    BY <2>2, <2>5, <2>6 DEF ProcessRecords
  <2>8. /\ table'[q].start = r.start /\ table'[q].kin = r.kin
        /\ table'[q].fresh = r.fresh /\ table'[q].lost = l /\ table'[q].parent = u
    BY <2>6
  <2>9. q \notin Tree!Used => table'[q] = Tree!Free
    <3> SUFFICES ASSUME q \notin Tree!Used PROVE table'[q] = Tree!Free
      OBVIOUS
    <3>1. r = Tree!Free /\ q \notin c /\ q \notin lost
      BY <1>2, <1>8, <2>1 DEF Tree!Used
    <3> QED BY <2>3, <2>6, <3>1 DEF Tree!Free, Tree!Process
  <2> QED BY <2>1, <2>3, <2>7, <2>8, <2>9
<1>13. table'[p] = Tree!Free
  BY <1>9
<1>14. \A q \in Pids : q \in Tree!Used' <=> table'[q] # Tree!Free
  BY DEF Tree!Used, Tree!Free, Tree!Process
<1>15. StartsCounted /\ TreeTypes
  BY DEF TreeInv
<1>16. Tree!Used' = Tree!Used \ {p}
  <2>1. \A q \in Pids \ {p} : q \in Tree!Used => table'[q] # Tree!Free
    <3> SUFFICES ASSUME NEW q \in Pids \ {p}, q \in Tree!Used PROVE table'[q] # Tree!Free
      OBVIOUS
    <3>1. table'[q].start = table[q].start /\ table[q].start # 0
      BY <1>12, <1>15, UsedStarts
    <3> QED BY <3>1 DEF Tree!Free, Tree!Process
  <2>2. Tree!Used' \subseteq Pids /\ Tree!Used \subseteq Pids
    BY DEF Tree!Used
  <2> QED BY <1>12, <1>13, <1>14, <2>1, <2>2
<1>17. table' \in [Pids -> ProcessRecords]
  <2>1. table' = [q \in Pids |-> table'[q]]
    BY <1>9
  <2>2. \A q \in Pids : table'[q] \in ProcessRecords
    BY <1>11, <1>12, <1>13
  <2> QED BY <2>1, <2>2
<1>18. \A q \in Pids \ {p} :
       /\ table'[q].start = table[q].start /\ table'[q].kin = table[q].kin
       /\ table'[q].fresh = table[q].fresh /\ (table'[q].lost <=> table[q].lost \/ q \in lost)
       /\ table'[q].parent = IF q \in Children({p}) THEN Stopper ELSE table[q].parent
  BY <1>3, <1>12
<1>19. Gone(p, lost)
  BY <1>1, <1>6, <1>7, <1>8, <1>16, <1>17, <1>18 DEF Gone
<1> QED BY <1>19

LEMMA ExitKeeps == ASSUME PidsKnown, TreeInv, NEW p \in Pids, Tree!Exit(p) PROVE TreeInv'
<1>1. PICK lost : Gone(p, lost)
  BY ExitLeaves
<1>2. UNCHANGED <<starts, stopAt, known, reached>> /\ stopAt \notin {"stopped", "not_running", "timed_out"}
  BY DEF Tree!Exit, Tree!Running
<1>3. /\ p \in Tree!Used /\ lost \in SUBSET Tree!Used
      /\ Orphans(p) \subseteq lost /\ Children(lost) \subseteq lost
      /\ table' \in [Pids -> ProcessRecords] /\ Tree!Used' = Tree!Used \ {p}
  BY <1>1 DEF Gone
<1>4. \A q \in Tree!Used' :
       /\ q \in Tree!Used /\ q \in Pids /\ q # p
       /\ table'[q].start = table[q].start /\ table'[q].kin = table[q].kin
       /\ table'[q].fresh = table[q].fresh /\ (table'[q].lost <=> table[q].lost \/ q \in lost)
       /\ table'[q].parent = IF table[q].parent = p THEN Stopper ELSE table[q].parent
  <2>1. \A q \in Tree!Used : q \in Pids /\ (q \in Children({p}) <=> table[q].parent = p)
    BY DEF Tree!Used, Children
  <2> QED BY <1>1, <1>3, <2>1 DEF Gone
<1>5. TreeTypes'
  <2>1. known' = known /\ starts' = starts /\ stopAt' = stopAt /\ reached' = reached
    BY <1>2
  <2> QED BY <1>3, <2>1 DEF TreeInv, TreeTypes
<1>6. StartsCounted'
  <2>1. starts' = starts
    BY <1>2
  <2> QED BY <1>4, <2>1 DEF TreeInv, StartsCounted
<1>7. ParentsKept'
  <2> SUFFICES ASSUME NEW q \in Pids, NEW u \in Pids, q \in Tree!Used', table'[q].parent = u
               PROVE /\ u \in Tree!Used' /\ table'[u].start < table'[q].start
                     /\ table'[u].kin = table'[q].kin /\ (table'[u].lost => table'[q].lost)
    BY DEF ParentsKept
  <2>1. table[q].parent = u /\ u # p /\ q \in Tree!Used
    BY <1>4 DEF PidsKnown
  <2>2. u \in Tree!Used' /\ table[u].start < table[q].start /\ table[u].kin = table[q].kin
        /\ (table[u].lost => table[q].lost)
    BY <1>3, <2>1 DEF TreeInv, ParentsKept
  <2>3. u \in lost => q \in lost
    BY <1>3, <2>1 DEF Children
  <2> QED BY <1>4, <2>2, <2>3
<1>8. \A q \in DOMAIN known : Tree!Same(q)' => Tree!Same(q) /\ table'[q].kin = table[q].kin
  BY <1>2, <1>4 DEF Tree!Same
<1>9. FamilyKnown'
  <2>1. known' = known /\ stopAt' = stopAt
    BY <1>2
  <2> QED BY <1>8, <2>1 DEF TreeInv, FamilyKnown
<1>10. Traced'
  <2> SUFFICES ASSUME NEW q \in Pids, Tracked(q)'
               PROVE Rooted(q)' \/ (table'[q].fresh /\ table'[q].parent \in Pids)
    BY DEF Traced
  <2>1. q \in Tree!Used' /\ Tracked(q) /\ q \notin lost
    BY <1>4 DEF Tracked
  <2>2. CASE Rooted(q)
    <3>1. known' = known /\ stopAt' = stopAt
      BY <1>2
    <3>2. Rooted(q)'
      BY <1>4, <2>1, <2>2, <3>1 DEF Rooted, Tree!Same
    <3> QED BY <3>2
  <2>3. CASE ~Rooted(q)
    <3>1. table[q].fresh /\ table[q].parent \in Pids
      BY <1>2, <2>1, <2>3 DEF TreeInv, Traced
    <3>2. table[q].parent # p
      BY <1>3, <1>4, <2>1, <3>1 DEF Orphans, Children
    <3> QED BY <1>4, <2>1, <3>1, <3>2
  <2> QED BY <2>2, <2>3
<1>11. StoppedEmpty'
  BY <1>2 DEF StoppedEmpty
<1> QED BY <1>5, <1>6, <1>7, <1>9, <1>10, <1>11 DEF TreeInv

\* A reading of the table and a signal change nothing of who is whose child.
Alike ==
  /\ table' \in [Pids -> ProcessRecords] /\ Tree!Used' = Tree!Used /\ starts' = starts
  /\ \A p \in Pids :
       /\ table'[p].start = table[p].start /\ table'[p].parent = table[p].parent
       /\ table'[p].kin = table[p].kin /\ table'[p].lost = table[p].lost
LEMMA AlikeKeeps == ASSUME PidsKnown, TreeInv, Alike PROVE StartsCounted' /\ ParentsKept'
<1>1. \A p \in Tree!Used : p \in Pids
  BY DEF Tree!Used
<1>2. StartsCounted'
  BY <1>1 DEF TreeInv, StartsCounted, Alike
<1>3. ParentsKept'
  BY <1>1 DEF TreeInv, ParentsKept, Alike
<1> QED BY <1>2, <1>3

LEMMA ReadAlike ==
    ASSUME PidsKnown, TreeInv, Tree!Read, starts' = starts
    PROVE Alike /\ \A p \in Tree!Used : ~table'[p].fresh
<1>1. Tree!Free \in ProcessRecords
  BY DEF Tree!Free, Tree!Process, ProcessRecords
<1>2. ASSUME NEW p \in Pids
      PROVE /\ table'[p] \in ProcessRecords
            /\ table'[p].start = table[p].start /\ table'[p].parent = table[p].parent
            /\ table'[p].kin = table[p].kin /\ table'[p].lost = table[p].lost
            /\ (p \in Tree!Used => ~table'[p].fresh)
  <2>1. PICK r : r = table[p]
    OBVIOUS
  <2>2. r \in ProcessRecords
    BY <2>1 DEF TreeInv, TreeTypes
  <2>3. CASE p \in Tree!Used
    <3>1. table'[p] = [r EXCEPT !.fresh = FALSE]
      BY <2>1, <2>3 DEF Tree!Read
    <3> QED BY <2>1, <2>2, <3>1 DEF ProcessRecords
  <2>4. CASE p \notin Tree!Used
    <3>1. table'[p] = Tree!Free /\ r = Tree!Free
      BY <2>1, <2>4 DEF Tree!Read, Tree!Used
    <3> QED BY <1>1, <2>1, <2>4, <3>1
  <2> QED BY <2>3, <2>4
<1>3. table' \in [Pids -> ProcessRecords]
  <2>1. table' = [p \in Pids |-> table'[p]]
    BY DEF Tree!Read
  <2> QED BY <1>2, <2>1
<1>4. Tree!Used' = Tree!Used
  <2>1. \A p \in Pids : p \in Tree!Used' <=> table'[p] # Tree!Free
    BY DEF Tree!Used, Tree!Free, Tree!Process
  <2>2. TreeTypes /\ StartsCounted
    BY DEF TreeInv
  <2>3. \A p \in Pids : p \in Tree!Used => table'[p] # Tree!Free
    <3> SUFFICES ASSUME NEW p \in Pids, p \in Tree!Used PROVE table'[p] # Tree!Free
      OBVIOUS
    <3>1. table'[p].start # 0
      BY <1>2, <2>2, UsedStarts
    <3> QED BY <3>1 DEF Tree!Free, Tree!Process
  <2>4. \A p \in Pids : p \notin Tree!Used => table'[p] = Tree!Free
    BY DEF Tree!Read
  <2>5. Tree!Used' \subseteq Pids /\ Tree!Used \subseteq Pids
    BY DEF Tree!Used
  <2> QED BY <2>1, <2>3, <2>4, <2>5
<1>5. \A p \in Tree!Used : ~table'[p].fresh
  BY <1>2 DEF Tree!Used
<1> QED BY <1>2, <1>3, <1>4, <1>5 DEF Alike

\* The descendants of processes of the family are of the family, and running.
LEMMA FamilyClosed ==
    ASSUME PidsKnown, TreeInv, NEW owners, \A p \in owners : p \in Tree!Used /\ table[p].kin
    PROVE \A p \in Tree!Descendants(owners) : p \in Tree!Used /\ p \in Pids /\ table[p].kin
<1>1. PICK S : S = {p \in Tree!Used : table[p].kin}
  OBVIOUS
<1>2. S \in SUBSET Pids /\ owners \subseteq S /\ owners \in SUBSET Pids
  BY <1>1 DEF Tree!Used
<1>3. Children(S) \subseteq S
  <2> SUFFICES ASSUME NEW p \in Children(S) PROVE p \in S
    OBVIOUS
  <2>1. p \in Tree!Used /\ p \in Pids /\ table[p].parent \in S
    BY DEF Children, Tree!Used
  <2>2. PICK u \in Pids : u = table[p].parent /\ u \in S
    BY <1>2, <2>1
  <2>3. table[u].kin = table[p].kin
    BY <2>1, <2>2 DEF TreeInv, ParentsKept
  <2> QED BY <1>1, <2>1, <2>2, <2>3
<1>4. Tree!Descendants(owners) \subseteq S
  BY <1>2, <1>3, DescendantsClosed
<1> QED BY <1>1, <1>2, <1>4

\* What a reading has to do: everyone the code must find is known as it is now,
\* and whoever is known as it is now is of the family.
Finds(found) ==
  /\ Tree!Read /\ starts' = starts /\ reached' = reached /\ stopAt # "not_running"
  /\ stopAt' \in {"term", "look"} /\ Owner \in DOMAIN known'
  /\ \A p \in found : p \in Tree!Used /\ p \in Pids /\ table[p].kin
  /\ \A p \in Pids : Tracked(p) => p \in found
  /\ DOMAIN known' \subseteq Pids /\ found \subseteq DOMAIN known'
  /\ \A p \in found : known'[p] = table[p].start
  /\ \A p \in DOMAIN known' : p \notin found =>
       p \in DOMAIN known /\ known'[p] = known[p] /\ ~Tree!Same(p)
LEMMA FindingKeeps == ASSUME PidsKnown, TreeInv, NEW found, Finds(found) PROVE TreeInv'
<1>1. Alike /\ \A p \in Tree!Used : ~table'[p].fresh
  BY ReadAlike DEF Finds
<1>2. StartsCounted' /\ ParentsKept'
  BY <1>1, AlikeKeeps
<1>3. TreeTypes'
  <2>1. \A p \in DOMAIN known' : known'[p] \in 1 .. starts'
    BY DEF Finds, TreeInv, TreeTypes, StartsCounted
  <2> QED BY <1>1, <2>1 DEF Finds, TreeInv, TreeTypes, Alike
<1>4. \A p \in DOMAIN known' : Tree!Same(p)' <=> p \in found
  <2> SUFFICES ASSUME NEW p \in DOMAIN known' PROVE Tree!Same(p)' <=> p \in found
    OBVIOUS
  <2>1. p \in Pids
    BY DEF Finds
  <2>2. CASE p \in found
    BY <1>1, <2>1, <2>2 DEF Finds, Alike, Tree!Same
  <2>3. CASE p \notin found
    BY <1>1, <2>1, <2>3 DEF Finds, Alike, Tree!Same
  <2> QED BY <2>2, <2>3
<1>5. FamilyKnown'
  <2>1. \A p \in found : table'[p].kin
    BY <1>1 DEF Finds, Alike
  <2> QED BY <1>4, <2>1 DEF Finds, FamilyKnown
<1>6. Traced'
  <2> SUFFICES ASSUME NEW p \in Pids, Tracked(p)' PROVE Rooted(p)'
    BY DEF Traced
  <2>1. Tracked(p)
    BY <1>1 DEF Tracked, Alike
  <2>2. p \in found /\ p \in DOMAIN known' /\ stopAt' # "begin"
    BY <2>1 DEF Finds
  <2> QED BY <1>4, <2>2 DEF Rooted
<1>7. StoppedEmpty'
  BY DEF Finds, StoppedEmpty
<1> QED BY <1>2, <1>3, <1>5, <1>6, <1>7 DEF TreeInv

LEMMA BeginKeeps == ASSUME PidsKnown, TreeInv, Tree!Begin PROVE TreeInv'
<1>1. CASE ~Tree!OwnerSame
  <2>1. stopAt' = "not_running" /\ UNCHANGED <<table, known, starts, reached>>
    BY <1>1 DEF Tree!Begin
  <2>2. Tree!Used' = Tree!Used
    BY <2>1 DEF Tree!Used, Tree!Free, Tree!Process
  <2>3. TreeTypes'
    BY <2>1 DEF TreeInv, TreeTypes
  <2>4. StartsCounted' /\ ParentsKept'
    BY <2>1, <2>2 DEF TreeInv, StartsCounted, ParentsKept
  <2>5. FamilyKnown'
    BY <2>1, <2>2 DEF TreeInv, FamilyKnown, Tree!Same
  <2> QED BY <2>1, <2>3, <2>4, <2>5 DEF TreeInv, Traced, StoppedEmpty
<1>2. CASE Tree!OwnerSame
  <2>1. PICK owners, found : owners = {Owner} /\ found = Tree!Descendants(owners)
    OBVIOUS
  <2>2. stopAt = "begin" /\ stopAt' = "term" /\ Tree!Read /\ UNCHANGED <<starts, reached>>
        /\ known' = [p \in found |-> table[p].start]
    BY <1>2, <2>1 DEF Tree!Begin
  <2>3. Owner \in Pids /\ Owner \in Tree!Used /\ table[Owner].kin
    BY <1>2 DEF PidsKnown, Tree!OwnerSame, TreeInv, StartsCounted
  <2>4. \A p \in found : p \in Tree!Used /\ p \in Pids /\ table[p].kin
    BY <2>1, <2>3, FamilyClosed
  <2>5. owners \subseteq found /\ found \in SUBSET Pids /\ Children(found) \subseteq found
    BY <2>1, <2>3, DescendantsClosed
  <2>6. \A p \in Pids : Tracked(p) => p \in found
    <3>1. \A p \in Pids : Tracked(p) /\ Rooted(p) => p \in found
      BY <2>1, <2>2, <2>5 DEF Rooted
    <3> QED BY <2>2, <2>5, <3>1, TrackedFound
  <2>7. Finds(found)
    BY <2>1, <2>2, <2>4, <2>5, <2>6 DEF Finds
  <2> QED BY <2>7, FindingKeeps
<1> QED BY <1>1, <1>2

LEMMA ScanKeeps == ASSUME PidsKnown, TreeInv, Tree!Scan PROVE TreeInv'
<1>1. PICK owners, found : owners = Tree!Owners /\ found = Tree!Descendants(owners)
  OBVIOUS
<1>2. /\ stopAt = "scan" /\ stopAt' = "look" /\ Tree!Read /\ UNCHANGED <<starts, reached>>
      /\ known' = [p \in DOMAIN known \cup found |-> IF p \in found THEN table[p].start ELSE known[p]]
  BY <1>1 DEF Tree!Scan, Tree!Captured
<1>3. \A p \in owners : p \in Tree!Used /\ p \in Pids /\ table[p].kin
  BY <1>1, SameProcess DEF Tree!Owners
<1>4. \A p \in found : p \in Tree!Used /\ p \in Pids /\ table[p].kin
  BY <1>1, <1>3, FamilyClosed
<1>5. owners \subseteq found /\ found \in SUBSET Pids /\ Children(found) \subseteq found
  BY <1>1, <1>3, DescendantsClosed
<1>6. \A p \in Pids : Tracked(p) => p \in found
  <2>1. \A p \in Pids : Tracked(p) /\ Rooted(p) => p \in found
    BY <1>1, <1>2, <1>5 DEF Rooted, Tree!Owners
  <2> QED BY <1>2, <1>5, <2>1, TrackedFound
<1>7. DOMAIN known \subseteq Pids /\ Owner \in DOMAIN known
  BY <1>2 DEF TreeInv, TreeTypes, FamilyKnown
<1>8. \A p \in DOMAIN known' : p \notin found =>
        p \in DOMAIN known /\ known'[p] = known[p] /\ ~Tree!Same(p)
  BY <1>1, <1>2, <1>5 DEF Tree!Owners
<1>9. Finds(found)
  BY <1>2, <1>4, <1>5, <1>6, <1>7, <1>8 DEF Finds
<1> QED BY <1>9, FindingKeeps

\* A step that changes nothing of who is who, and signals those it knows.
Goes ==
  /\ Alike /\ known' = known /\ stopAt # "not_running" /\ stopAt # "begin"
  /\ \A p \in Pids : table'[p].fresh = table[p].fresh
  /\ \E ps : ps \subseteq DOMAIN known /\ (Tree!Reach(ps) \/ reached' = reached)
  /\ stopAt' \in {"scan", "kill", "wait", "stopped", "timed_out"}
  /\ stopAt' = "stopped" => Tree!Live = {}
LEMMA GoingKeeps == ASSUME PidsKnown, TreeInv, Goes PROVE TreeInv'
<1>1. StartsCounted' /\ ParentsKept'
  BY AlikeKeeps DEF Goes
<1>2. reached' \subseteq {TRUE}
  <2>1. PICK ps : ps \subseteq DOMAIN known /\ (Tree!Reach(ps) \/ reached' = reached)
    BY DEF Goes
  <2>2. \A p \in ps : Tree!Same(p) => table[p].kin
    BY <2>1, SameProcess
  <2>3. reached \subseteq {TRUE} /\ \A p \in Pids : table[p].kin \in BOOLEAN
    BY DEF TreeInv, TreeTypes, ProcessRecords
  <2>4. CASE Tree!Reach(ps)
    <3>1. PICK R : R = {table[p].kin : p \in {x \in ps : Tree!Same(x)}}
      OBVIOUS
    <3>2. \A b \in R : b = TRUE
      <4> SUFFICES ASSUME NEW b \in R PROVE b = TRUE
        OBVIOUS
      <4>1. PICK p \in ps : Tree!Same(p) /\ b = table[p].kin
        BY <3>1
      <4>2. p \in Pids /\ table[p].kin
        BY <2>1, <4>1, SameProcess
      <4>3. b \in BOOLEAN /\ b
        BY <2>3, <4>1, <4>2
      <4> QED BY <4>3
    <3>3. reached' = reached \cup R
      BY <2>4, <3>1 DEF Tree!Reach
    <3> QED BY <2>3, <3>2, <3>3
  <2> QED BY <2>1, <2>3, <2>4
<1>3. TreeTypes'
  BY <1>2 DEF Goes, TreeInv, TreeTypes, Alike
<1>4. \A p \in DOMAIN known : p \in Pids /\ (Tree!Same(p)' <=> Tree!Same(p))
  BY DEF Goes, Alike, Tree!Same, TreeInv, TreeTypes
<1>5. FamilyKnown'
  <2>1. \A p \in DOMAIN known : Tree!Same(p)' => table'[p].kin
    BY <1>4, SameProcess DEF Goes, Alike
  <2>2. Owner \in DOMAIN known
    BY DEF Goes, TreeInv, FamilyKnown
  <2> QED BY <2>1, <2>2 DEF Goes, FamilyKnown
<1>6. Traced'
  <2> SUFFICES ASSUME NEW p \in Pids, Tracked(p)'
               PROVE Rooted(p)' \/ (table'[p].fresh /\ table'[p].parent \in Pids)
    BY DEF Traced
  <2>1. Tracked(p) /\ table'[p].fresh = table[p].fresh /\ table'[p].parent = table[p].parent
    BY DEF Goes, Alike, Tracked
  <2>2. Rooted(p) => Rooted(p)'
    BY <1>4 DEF Goes, Rooted
  <2> QED BY <2>1, <2>2 DEF Goes, TreeInv, Traced
<1>7. StoppedEmpty'
  BY <1>4 DEF Goes, StoppedEmpty, Tree!Live
<1> QED BY <1>1, <1>3, <1>5, <1>6, <1>7 DEF TreeInv

LEMMA SameAlike ==
    ASSUME TreeInv, UNCHANGED <<table, starts>>
    PROVE Alike /\ \A p \in Pids : table'[p].fresh = table[p].fresh
BY DEF TreeInv, TreeTypes, Alike, Tree!Used, Tree!Free, Tree!Process

LEMMA TermKeeps == ASSUME PidsKnown, TreeInv, Tree!Term PROVE TreeInv'
<1>1. Alike /\ \A p \in Pids : table'[p].fresh = table[p].fresh
  BY SameAlike DEF Tree!Term
<1>2. {Owner} \subseteq DOMAIN known /\ Tree!Reach({Owner})
  BY DEF TreeInv, FamilyKnown, Tree!Term
<1>3. Goes
  BY <1>1, <1>2 DEF Goes, Tree!Term
<1> QED BY <1>3, GoingKeeps

LEMMA LookKeeps == ASSUME PidsKnown, TreeInv, Tree!Look PROVE TreeInv'
<1>1. Alike /\ \A p \in Pids : table'[p].fresh = table[p].fresh
  BY SameAlike DEF Tree!Look
<1>2. PICK ps : ps = Tree!Live \ interrupted
  OBVIOUS
<1>3. ps \subseteq DOMAIN known /\ (Tree!Reach(ps) \/ reached' = reached)
  BY <1>2 DEF Tree!Look, Tree!Live
<1>4. Goes
  BY <1>1, <1>3 DEF Goes, Tree!Look
<1> QED BY <1>4, GoingKeeps

LEMMA KillKeeps == ASSUME PidsKnown, TreeInv, Tree!Kill PROVE TreeInv'
<1>1. TreeTypes /\ StartsCounted /\ \A p \in Pids : table[p] \in ProcessRecords
  BY DEF TreeInv, TreeTypes
<1>2. \A p \in Tree!Live : p \in Tree!Used
  BY DEF Tree!Live, Tree!Same
<1>3. ASSUME NEW p \in Pids
      PROVE /\ table'[p] \in ProcessRecords
            /\ table'[p].start = table[p].start /\ table'[p].parent = table[p].parent
            /\ table'[p].kin = table[p].kin /\ table'[p].lost = table[p].lost
            /\ table'[p].fresh = table[p].fresh
            /\ (p \in Tree!Used' <=> p \in Tree!Used)
  <2>1. PICK r : r = table[p]
    OBVIOUS
  <2>2. r \in ProcessRecords
    BY <1>1, <2>1
  <2>3. p \in Tree!Used' <=> table'[p] # Tree!Free
    BY DEF Tree!Used, Tree!Free, Tree!Process
  <2>4. p \in Tree!Used <=> r # Tree!Free
    BY <2>1 DEF Tree!Used
  <2>5. CASE p \in Tree!Live
    <3>1. table'[p] = [r EXCEPT !.doomed = TRUE]
      BY <2>1, <2>5 DEF Tree!Kill
    <3>2. /\ table'[p] \in ProcessRecords
          /\ table'[p].start = r.start /\ table'[p].parent = r.parent
          /\ table'[p].kin = r.kin /\ table'[p].lost = r.lost /\ table'[p].fresh = r.fresh
      BY <2>2, <3>1 DEF ProcessRecords
    <3>3. r.start # 0 /\ p \in Tree!Used
      BY <1>1, <1>2, <2>1, <2>5, UsedStarts
    <3>4. table'[p] # Tree!Free
      BY <3>2, <3>3 DEF Tree!Free, Tree!Process
    <3> QED BY <2>1, <2>3, <3>2, <3>3, <3>4
  <2>6. CASE p \notin Tree!Live
    <3>1. table'[p] = r
      BY <2>1, <2>6 DEF Tree!Kill
    <3> QED BY <2>1, <2>2, <2>3, <2>4, <3>1
  <2> QED BY <2>5, <2>6
<1>4. Tree!Used' = Tree!Used
  <2>1. Tree!Used' \subseteq Pids /\ Tree!Used \subseteq Pids
    BY DEF Tree!Used
  <2> QED BY <1>3, <2>1
<1>5. table' = [p \in Pids |-> table'[p]]
  BY DEF Tree!Kill
<1>6. Alike
  <2>1. table' \in [Pids -> ProcessRecords]
    BY <1>3, <1>5
  <2>2. starts' = starts
    BY DEF Tree!Kill
  <2> QED BY <1>3, <1>4, <2>1, <2>2 DEF Alike
<1>7. PICK ps : ps = Tree!Live
  OBVIOUS
<1>8. ps \subseteq DOMAIN known /\ Tree!Reach(ps)
  BY <1>7 DEF Tree!Kill, Tree!Live
<1>9. stopAt = "kill" /\ stopAt' = "wait" /\ known' = known
  BY DEF Tree!Kill
<1>10. Goes
  BY <1>3, <1>6, <1>8, <1>9 DEF Goes
<1> QED BY <1>10, GoingKeeps

LEMMA WaitKeeps == ASSUME PidsKnown, TreeInv, Tree!Wait PROVE TreeInv'
<1>1. Alike /\ \A p \in Pids : table'[p].fresh = table[p].fresh
  BY SameAlike DEF Tree!Wait
<1>2. Goes
  BY <1>1 DEF Goes, Tree!Wait
<1> QED BY <1>2, GoingKeeps

LEMMA TreeStutters == ASSUME TreeInv, UNCHANGED Tree!treeVars PROVE TreeInv'
<1>1. Tree!Used' = Tree!Used
  BY DEF Tree!treeVars, Tree!Used, Tree!Free, Tree!Process
<1>2. UNCHANGED <<table, starts, stopAt, known, reached>>
  BY DEF Tree!treeVars
<1>3. TreeTypes' /\ StartsCounted' /\ ParentsKept'
  BY <1>1, <1>2 DEF TreeInv, TreeTypes, StartsCounted, ParentsKept
<1>4. FamilyKnown' /\ Traced' /\ StoppedEmpty'
  BY <1>1, <1>2 DEF TreeInv, FamilyKnown, Traced, StoppedEmpty, Tracked, Rooted, Tree!Same, Tree!Live
<1> QED BY <1>3, <1>4 DEF TreeInv

\* The inductive invariant of a tree that is being stopped: a process the code
\* has to find is one it knows by number and start, or is newer than the last
\* reading and has a parent that is such; and whoever it knows is of the family.
THEOREM TreeInvariant == TreeSpec => []TreeInv
<1> USE TreeAssumption
<1>1. Tree!Init => TreeInv
  BY TreeInitially
<1>2. TreeInv /\ [Tree!Next]_Tree!treeVars => TreeInv'
  <2> SUFFICES ASSUME TreeInv, [Tree!Next]_Tree!treeVars PROVE TreeInv'
    OBVIOUS
  <2>1. CASE UNCHANGED Tree!treeVars
    BY <2>1, TreeStutters
  <2>2. CASE Tree!Next
    <3>1. ASSUME NEW p \in Pids, NEW q \in Pids, Tree!Fork(p, q) PROVE TreeInv'
      BY <3>1, ForkKeeps
    <3>2. ASSUME NEW p \in Pids, Tree!Stranger(p) PROVE TreeInv'
      BY <3>2, StrangerKeeps
    <3>3. ASSUME NEW p \in Pids, Tree!Exit(p) PROVE TreeInv'
      BY <3>3, ExitKeeps
    <3>4. Tree!Begin \/ Tree!Term \/ Tree!Scan => TreeInv'
      BY BeginKeeps, TermKeeps, ScanKeeps
    <3>5. Tree!Look \/ Tree!Kill \/ Tree!Wait => TreeInv'
      BY LookKeeps, KillKeeps, WaitKeeps
    <3> QED BY <2>2, <3>1, <3>2, <3>3, <3>4, <3>5 DEF Tree!Next
  <2> QED BY <2>1, <2>2
<1> QED BY <1>1, <1>2, PTL DEF TreeSpec

\* stop_process_tree signals processes of the coordinator's family only, whoever
\* has their numbers by now; and of a tree it calls stopped nobody is left whom a
\* reading of the table could still have traced.
THEOREM TreeSound == TreeSpec => []Tree!TreeHolds
<1> USE TreeAssumption
<1>1. TreeInv => Tree!TreeHolds
  <2> SUFFICES ASSUME TreeInv PROVE Tree!FamilyOnly /\ Tree!SurvivorsLost
    BY DEF Tree!TreeHolds
  <2>1. Tree!FamilyOnly
    BY DEF TreeInv, TreeTypes, Tree!FamilyOnly
  <2>2. Tree!SurvivorsLost
    <3> SUFFICES ASSUME stopAt = "stopped", NEW p \in Tree!Used, table[p].kin, ~table[p].lost PROVE FALSE
      BY DEF Tree!SurvivorsLost
    <3>1. PICK S : S = {x \in Pids : FALSE}
      OBVIOUS
    <3>2. S \in SUBSET Pids /\ Children(S) \subseteq S /\ \A x \in Pids : Tracked(x) /\ Rooted(x) => x \in S
      BY <3>1 DEF TreeInv, StoppedEmpty, Rooted, Tree!Live, Children
    <3>3. p \in Pids /\ Tracked(p)
      BY DEF Tracked, Tree!Used
    <3>4. p \in S
      BY <3>2, <3>3, TrackedFound
    <3> QED BY <3>1, <3>4
  <2> QED BY <2>1, <2>2
<1> QED BY <1>1, TreeInvariant, PTL
==============================================================================
