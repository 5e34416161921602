--------------------------- MODULE LeaderboardRun ---------------------------
(***************************************************************************)
(* The life of one leaderboard run directory: bench/leaderboard/run.py and *)
(* the evaluation retry loop of bench/leaderboard/evaluate.py.             *)
(*                                                                         *)
(* A session is one call of run_experiment.  It starts fresh, resumes the  *)
(* directory or clears it by force, and then works through its plan, one   *)
(* attempt per key, appending a row to attempts.jsonl and rewriting        *)
(* experiment.json after each.  A session may be interrupted, may fail and *)
(* may be killed between any two steps; what is on disk is all the next    *)
(* session has.                                                            *)
(***************************************************************************)
EXTENDS Integers, Sequences, FiniteSets

CONSTANTS
  Keys,          \* attempt keys (local_task_id, skill_mode, rep_index)
  Plans,         \* the key sequences a selection can expand to
  Models,        \* values of --model
  Modes,         \* how the user may start a session
  EvalVerdicts,  \* verdicts one evaluation may return
  IfRetries,     \* --if-retries
  KillPoints     \* program points at which the process may be killed

Verdicts == {"BC", "BF", "CF", "IF"}
Stages == {"generation", "format", "evaluation"}
\* The points inside the try block of run_experiment.
LoopPoints == {"open", "scan", "generate", "evaluate", "append", "count"}
Points == LoopPoints \cup
          {"idle", "clear", "load", "truncate", "rewrite", "describe", "finish"}

ASSUME PlansAssumption == Plans \subseteq Seq(Keys)
ASSUME ModesAssumption == Modes \subseteq {"fresh", "resume", "force"}
ASSUME VerdictsAssumption == EvalVerdicts \subseteq Verdicts
ASSUME RetriesAssumption == IfRetries \in Nat
ASSUME KillAssumption == KillPoints \subseteq Points \ {"idle"}

VARIABLES
  attempts,    \* disk: the complete rows of attempts.jsonl
  torn,        \* disk: attempts.jsonl ends in an incomplete row
  experiment,  \* disk: {} or {the record that experiment.json holds}
  used,        \* disk: the run directory is not empty
  pc,          \* the session's program point
  mode,        \* how the (last) session was started
  request,     \* its model and plan
  loaded,      \* the rows a resumed session read
  pos,         \* rewrite loop: index in loaded; main loop: index in the plan
  written, skipped,
  tries,       \* evaluations of the current attempt so far
  pending      \* {} or {the row about to be appended}

disk == <<attempts, torn, experiment, used>>
memory == <<loaded, pos, written, skipped, tries, pending>>
vars == <<disk, pc, mode, request, memory>>

Row == [key: Keys, model: Models, stage: Stages, retries: 0..IfRetries,
        result: Verdicts]
Request == [model: Models, plan: Plans]
Experiment == [status: {"running", "interrupted", "failed", "complete"},
               model: Models, plan: Plans,
               written: Nat, skipped: Nat, missing: Nat, requeued: Nat]

Plan == request.plan
Conclusive(row) == row.result # "IF"
KeySet(plan) == {plan[i] : i \in DOMAIN plan}
KeysOf(rows) == {rows[i].key : i \in DOMAIN rows}
HasDuplicate(rows) ==
  \E i, j \in DOMAIN rows : i < j /\ rows[i].key = rows[j].key
Inconclusive(rows) == {i \in DOMAIN rows : ~Conclusive(rows[i])}
\* Mutant: inconclusive rows count as done although the rewrite drops them.
Existing_CountsInconclusive == KeysOf(loaded)
\* Mutant: a file that has to be rewritten leaves nothing done.
Existing_NoneAfterRewrite ==
  IF Inconclusive(loaded) # {} THEN {} ELSE KeysOf(loaded)
\* existing_attempts: the keys a resumed session will not attempt again.
Existing == {loaded[i].key : i \in DOMAIN loaded \ Inconclusive(loaded)}
PositionsIn(plan, keys) == Cardinality({i \in DOMAIN plan : plan[i] \in keys})
NonNegative(n) == IF n > 0 THEN n ELSE 0

Report(status, w, s, missing) ==
  {[status |-> status, model |-> request.model, plan |-> Plan,
    written |-> w, skipped |-> s, missing |-> missing,
    requeued |-> Cardinality(Inconclusive(loaded))]}
\* _update_attempt_counts followed by _write_experiment
Counted(status, w, s) ==
  Report(status, w, s, NonNegative(Len(Plan) - w - s))

Forget ==
  /\ loaded' = <<>> /\ pos' = 1 /\ written' = 0 /\ skipped' = 0
  /\ tries' = 0 /\ pending' = {}
End == pc' = "idle" /\ Forget /\ UNCHANGED <<mode, request>>

Init ==
  /\ attempts = <<>> /\ torn = FALSE /\ experiment = {} /\ used = FALSE
  /\ pc = "idle" /\ mode \in Modes /\ request \in Request
  /\ loaded = <<>> /\ pos = 1 /\ written = 0 /\ skipped = 0
  /\ tries = 0 /\ pending = {}

-----------------------------------------------------------------------------
(* Opening a session *)

\* A directory in use is refused unless the session resumes it or clears it.
Begin(m, req) ==
  /\ pc = "idle"
  /\ m = "fresh" => ~used
  /\ pc' = CASE m = "fresh" -> "describe"
             [] m = "resume" -> "load"
             [] m = "force" -> "clear"
  /\ mode' = m /\ request' = req /\ used' = TRUE
  /\ UNCHANGED <<attempts, torn, experiment, memory>>

\* --force deletes the owned files one by one, in the order of a Python set.
ClearAttempts ==
  /\ pc = "clear" /\ (attempts # <<>> \/ torn)
  /\ attempts' = <<>> /\ torn' = FALSE
  /\ UNCHANGED <<experiment, used, pc, mode, request, memory>>
ClearExperiment ==
  /\ pc = "clear" /\ experiment # {}
  /\ experiment' = {}
  /\ UNCHANGED <<attempts, torn, used, pc, mode, request, memory>>
Cleared ==
  /\ pc = "clear" /\ attempts = <<>> /\ ~torn /\ experiment = {}
  /\ pc' = "describe"
  /\ UNCHANGED <<disk, mode, request, memory>>

\* Mutant: the file is not rewritten without its inconclusive rows.
Load_KeepsInconclusive ==
  /\ pc = "load" /\ ~torn /\ ~HasDuplicate(attempts)
  /\ loaded' = attempts /\ pc' = "describe"
  /\ UNCHANGED <<disk, mode, request, pos, written, skipped, tries, pending>>

\* A resumed session reads every row; inconclusive ones are to be attempted
\* again, so the file is rewritten without them when there are any.
Load ==
  /\ pc = "load" /\ ~torn /\ ~HasDuplicate(attempts)
  /\ loaded' = attempts
  /\ pc' = IF Inconclusive(attempts) # {} THEN "truncate" ELSE "describe"
  /\ UNCHANGED <<disk, mode, request, pos, written, skipped, tries, pending>>
\* An incomplete or duplicate row is a ConfigError: nothing is repaired.
LoadRefused ==
  /\ pc = "load" /\ (torn \/ HasDuplicate(attempts))
  /\ End /\ UNCHANGED disk

Truncate ==
  /\ pc = "truncate"
  /\ attempts' = <<>> /\ pc' = "rewrite"
  /\ UNCHANGED <<torn, experiment, used, mode, request, memory>>
RewriteRow ==
  /\ pc = "rewrite" /\ pos <= Len(loaded)
  /\ attempts' = IF Conclusive(loaded[pos])
                 THEN Append(attempts, loaded[pos]) ELSE attempts
  /\ pos' = pos + 1
  /\ UNCHANGED <<torn, experiment, used, pc, mode, request, loaded, written,
                 skipped, tries, pending>>
\* Mutant: the rewrite stops one row early.
Rewritten_OneShort ==
  /\ pc = "rewrite" /\ pos >= Len(loaded)
  /\ pos' = 1 /\ pc' = "describe"
  /\ UNCHANGED <<disk, mode, request, loaded, written, skipped, tries, pending>>
Rewritten ==
  /\ pc = "rewrite" /\ pos > Len(loaded)
  /\ pos' = 1 /\ pc' = "describe"
  /\ UNCHANGED <<disk, mode, request, loaded, written, skipped, tries, pending>>

\* Mutant: the completed keys are counted before the inconclusive are dropped.
Describe_CountsDropped ==
  LET done == PositionsIn(Plan, KeysOf(loaded))
  IN /\ pc = "describe"
     /\ experiment' = Report("running", 0, done, Len(Plan) - done)
     /\ pc' = "open"
     /\ UNCHANGED <<attempts, torn, used, mode, request, memory>>

\* The first experiment.json of the session counts the plan's keys that the
\* kept rows already answer.
Describe ==
  LET done == PositionsIn(Plan, Existing)
  IN /\ pc = "describe"
     /\ experiment' = Report("running", 0, done, Len(Plan) - done)
     /\ pc' = "open"
     /\ UNCHANGED <<attempts, torn, used, mode, request, memory>>

\* Mutant: a resumed run opens its file with "w".
Open_Truncates ==
  /\ pc = "open"
  /\ attempts' = <<>> /\ torn' = FALSE /\ pc' = "scan"
  /\ UNCHANGED <<experiment, used, mode, request, memory>>

\* open(mode): "a" keeps the rows of a resumed run, "w" drops what is there.
Open ==
  /\ pc = "open"
  /\ attempts' = IF mode = "resume" THEN attempts ELSE <<>>
  /\ torn' = (mode = "resume" /\ torn)
  /\ pc' = "scan"
  /\ UNCHANGED <<experiment, used, mode, request, memory>>

-----------------------------------------------------------------------------
(* The loop over the plan *)

Skip ==
  /\ pc = "scan" /\ pos <= Len(Plan) /\ Plan[pos] \in Existing
  /\ skipped' = skipped + 1 /\ pos' = pos + 1
  /\ UNCHANGED <<disk, pc, mode, request, loaded, written, tries, pending>>
Attempt ==
  /\ pc = "scan" /\ pos <= Len(Plan) /\ Plan[pos] \notin Existing
  /\ pc' = "generate"
  /\ UNCHANGED <<disk, mode, request, memory>>

Ready(stage, retries, result) ==
  /\ pending' = {[key |-> Plan[pos], model |-> request.model, stage |-> stage,
                  retries |-> retries, result |-> result]}
  /\ pc' = "append" /\ tries' = 0
  /\ UNCHANGED <<disk, mode, request, loaded, pos, written, skipped>>

\* ProviderFailure: the retries of the provider call are exhausted.
GenerationFails == pc = "generate" /\ Ready("generation", 0, "IF")
\* The response holds no submission in the demanded format.
FormatFails == pc = "generate" /\ Ready("format", 0, "CF")
Generated ==
  /\ pc = "generate" /\ pc' = "evaluate"
  /\ UNCHANGED <<disk, mode, request, memory>>

\* evaluate_source stops at the first conclusive verdict ...
EvaluationEnds ==
  /\ pc = "evaluate"
  /\ \E verdict \in EvalVerdicts :
       /\ verdict # "IF" \/ tries = IfRetries
       /\ Ready("evaluation", tries, verdict)
\* Mutant: the retries are not bounded by --if-retries.
EvaluationRetries_Unbounded ==
  /\ pc = "evaluate" /\ "IF" \in EvalVerdicts
  /\ tries' = tries + 1
  /\ UNCHANGED <<disk, pc, mode, request, loaded, pos, written, skipped, pending>>
\* ... and evaluates the same submission again after an inconclusive one.
EvaluationRetries ==
  /\ pc = "evaluate" /\ "IF" \in EvalVerdicts /\ tries < IfRetries
  /\ tries' = tries + 1
  /\ UNCHANGED <<disk, pc, mode, request, loaded, pos, written, skipped, pending>>

AppendRow ==
  /\ pc = "append"
  /\ \E row \in pending : attempts' = Append(attempts, row)
  /\ pending' = {} /\ pc' = "count"
  /\ UNCHANGED <<torn, experiment, used, mode, request, loaded, pos, written,
                 skipped, tries>>
Count ==
  /\ pc = "count"
  /\ written' = written + 1 /\ pos' = pos + 1 /\ pc' = "scan"
  /\ experiment' = Counted("running", written + 1, skipped)
  /\ UNCHANGED <<attempts, torn, used, mode, request, loaded, skipped, tries,
                 pending>>

LoopDone ==
  /\ pc = "scan" /\ pos > Len(Plan)
  /\ pc' = "finish"
  /\ UNCHANGED <<disk, mode, request, memory>>
\* Mutant: the final status is not recorded.
Finish_Unrecorded ==
  /\ pc = "finish"
  /\ experiment' = Counted("running", written, skipped)
  /\ End /\ UNCHANGED <<attempts, torn, used>>
Finish ==
  /\ pc = "finish"
  /\ experiment' = Counted("complete", written, skipped)
  /\ End /\ UNCHANGED <<attempts, torn, used>>

-----------------------------------------------------------------------------
(* How a session ends early *)

\* Control-C, or an exception the loop does not turn into a row (a ConfigError
\* for a rejected API key, a full disk): the except clauses record the status.
Interrupt ==
  /\ pc \in LoopPoints
  /\ experiment' = Counted("interrupted", written, skipped)
  /\ End /\ UNCHANGED <<attempts, torn, used>>
Fail ==
  /\ pc \in LoopPoints
  /\ experiment' = Counted("failed", written, skipped)
  /\ End /\ UNCHANGED <<attempts, torn, used>>

\* The process is killed, or raises outside the try block.  A file that is
\* being written is left incomplete.
Kill ==
  /\ pc \in KillPoints
  /\ torn' \in IF pc \in {"rewrite", "append"} THEN {torn, TRUE} ELSE {torn}
  /\ experiment' \in IF pc \in {"describe", "count", "finish"}
                     THEN {experiment, {}} ELSE {experiment}
  /\ End /\ UNCHANGED <<attempts, used>>

Opening ==
  \/ ClearAttempts \/ ClearExperiment \/ Cleared
  \/ Load \/ LoadRefused \/ Truncate \/ RewriteRow \/ Rewritten
  \/ Describe \/ Open
Looping ==
  \/ Skip \/ Attempt
  \/ GenerationFails \/ FormatFails \/ Generated
  \/ EvaluationEnds \/ EvaluationRetries
  \/ AppendRow \/ Count \/ LoopDone \/ Finish
Step == Opening \/ Looping
Disturbance == Interrupt \/ Fail \/ Kill
Next ==
  \/ \E m \in Modes, req \in Request : Begin(m, req)
  \/ Opening \/ Looping \/ Disturbance

Spec == Init /\ [][Next]_vars

\* A running session keeps running, and the user keeps resuming the run.
Resume == \E req \in Request : Begin("resume", req)
FairSpec == Spec /\ WF_vars(Step) /\ WF_vars(Resume)
-----------------------------------------------------------------------------
(* Properties *)

TypeOK ==
  /\ attempts \in Seq(Row) /\ torn \in BOOLEAN /\ used \in BOOLEAN
  /\ experiment \in SUBSET Experiment
  /\ pc \in Points /\ mode \in Modes /\ request \in Request
  /\ loaded \in Seq(Row) /\ pos \in Nat \ {0}
  /\ written \in Nat /\ skipped \in Nat
  /\ tries \in 0..IfRetries /\ pending \in SUBSET Row

\* No two rows of attempts.jsonl answer the same key, whatever is killed,
\* interrupted or resumed: a duplicate would be counted twice by the reports,
\* and _load_existing_attempts refuses to resume a directory that has one.
NoDuplicateRows == ~HasDuplicate(attempts)

Unanswered(plan) == {i \in DOMAIN plan : plan[i] \notin KeysOf(attempts)}

\* A directory whose record says "complete" is missing no row of the plan the
\* record names (_finalize_experiment after the loop).
CompleteMeansAnswered ==
  pc = "idle" =>
    \A e \in experiment :
      e.status = "complete" => Unanswered(e.plan) = {} /\ e.missing = 0

\* attempts_missing may overstate what is left (rows not yet passed count as
\* missing during a resume), but a reader never sees too few.
MissingNeverUnderstated ==
  pc \in (LoopPoints \ {"open"}) \cup {"idle", "finish"} =>
    \A e \in experiment : Cardinality(Unanswered(e.plan)) <= e.missing

\* A session that resumes never deletes a conclusive row: the rows are there
\* again, at the latest, when the session is over.
ConclusiveKept ==
  [][pc # "clear" /\ pc' = "idle" =>
       \A i \in DOMAIN loaded : Conclusive(loaded[i]) =>
         \E j \in DOMAIN attempts' : attempts'[j] = loaded[i]]_vars

Complete == \E e \in experiment : e.status = "complete"
\* A user who keeps resuming finishes the run once nothing disturbs it, unless a
\* kill left an incomplete row: that one makes every resume refuse.
EventuallyComplete ==
  <>[][~Disturbance]_vars /\ <>[](~torn) => []<>Complete

\* The directory is an AttemptLog: a rewrite in progress stands for its result.
RowSet(rows) == {rows[i] : i \in DOMAIN rows}
Log == INSTANCE AttemptLog WITH
  Rows <- Row,
  Plans <- {KeySet(p) : p \in Plans},
  rows <- IF pc = "rewrite" THEN {r \in RowSet(loaded) : Conclusive(r)}
          ELSE RowSet(attempts),
  status <- IF pc = "clear" THEN "wiping" ELSE IF pc # "idle" THEN "running"
            ELSE IF Complete THEN "complete" ELSE "idle",
  plan <- KeySet(Plan)
ImplementsAttemptLog == Log!Spec
=============================================================================
