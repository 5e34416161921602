----------------------------- MODULE StagedBuild -----------------------------
(***************************************************************************)
(* build_case of bench/runner.py for the staged builds (ESP-IDF, Zephyr):  *)
(* the submission is copied into a staging directory named after its case, *)
(* built there and its firmware is copied back.  The directory belongs to  *)
(* the user's cache, so every harness process of the host shares it; the   *)
(* compile step runs under BuildLock when that is switched on.             *)
(***************************************************************************)
EXTENDS BuildLock

CONSTANTS
  Cases,    \* case ids
  Zephyr,   \* those built by west; the others by idf.py
  CaseOf,   \* CaseOf[p]: the case that process p evaluates
  Sources,  \* submissions
  Broken    \* submissions that never compile

ASSUME CasesAssumption == Zephyr \subseteq Cases /\ CaseOf \in [Procs -> Cases]
ASSUME SourcesAssumption == Broken \subseteq Sources

VARIABLES
  app,      \* app[c]: {} or {the submission staged for c}
  built,    \* built[c]: {} or {the submission whose firmware the stage holds}
  step,     \* step[p]: where p is within the compile step
  source,   \* source[p]: the submission p was asked to evaluate
  firmware, \* firmware[p]: {} or {what the firmware in p's case was built from}
  verdict,  \* verdict[p]: how p's build came out
  tried     \* history: tried[p]: what p's failing compile command was given

stage == <<app, built>>
result == <<firmware, verdict, tried>>
vars == <<lockVars, stage, step, source, result>>

Steps == {"none", "remove", "copy", "configure", "compile", "back", "done"}

TypeOK ==
  /\ LockTypeOK
  /\ app \in [Cases -> SUBSET Sources] /\ built \in [Cases -> SUBSET Sources]
  /\ step \in [Procs -> Steps] /\ source \in [Procs -> Sources]
  /\ firmware \in [Procs -> SUBSET Sources] /\ tried \in [Procs -> SUBSET Sources]
  /\ verdict \in [Procs -> {"none", "built", "CF", "IF"}]

Init ==
  /\ LockInit
  /\ app = [c \in Cases |-> {}] /\ built = [c \in Cases |-> {}]
  /\ step = [p \in Procs |-> "none"] /\ source \in [Procs -> Sources]
  /\ firmware = [p \in Procs |-> {}] /\ verdict = [p \in Procs |-> "none"]
  /\ tried = [p \in Procs |-> {}]

\* clean_build_dir empties the case's own build directory first.
Start(p) ==
  /\ Enter(p)
  /\ \E s \in Sources : source' = [source EXCEPT ![p] = s]
  /\ step' = [step EXCEPT ![p] = "remove"]
  /\ firmware' = [firmware EXCEPT ![p] = {}] /\ tried' = [tried EXCEPT ![p] = {}]
  /\ verdict' = [verdict EXCEPT ![p] = "none"]
  /\ UNCHANGED stage

At(p, s) == at[p] = "build" /\ step[p] = s /\ UNCHANGED <<lockVars, source>>
Then(p, s) == step' = [step EXCEPT ![p] = s]
Judge(p, v) == verdict' = [verdict EXCEPT ![p] = v] /\ Then(p, "done")

\* Mutant: what an earlier build left in the stage stays there.
Remove_Skipped(p) ==
  /\ At(p, "remove")
  /\ app' = [app EXCEPT ![CaseOf[p]] = {}]
  /\ Then(p, "copy") /\ UNCHANGED <<built, result>>
\* shutil.rmtree(stage)
Remove(p) ==
  /\ At(p, "remove")
  /\ app' = [app EXCEPT ![CaseOf[p]] = {}]
  /\ built' = [built EXCEPT ![CaseOf[p]] = {}]
  /\ Then(p, "copy") /\ UNCHANGED result

\* shutil.copytree refuses a directory that exists.
CopySketch(p) ==
  /\ At(p, "copy") /\ app[CaseOf[p]] = {}
  /\ app' = [app EXCEPT ![CaseOf[p]] = {source[p]}]
  /\ Then(p, IF CaseOf[p] \in Zephyr THEN "configure" ELSE "compile")
  /\ UNCHANGED <<built, result>>

\* Mutant: a configure step that fails is charged to the submission.
Configure_Charged(p) ==
  /\ At(p, "configure")
  /\ Judge(p, "CF") /\ UNCHANGED <<stage, firmware, tried>>
\* west build --cmake-only: without an application it fails as infrastructure.
Configure(p) ==
  /\ At(p, "configure") /\ app[CaseOf[p]] # {}
  /\ Then(p, "compile") /\ UNCHANGED <<stage, result>>

\* Mutant: the classification is reported where the verdict belongs.
CompileFails_Unmapped(p) ==
  /\ At(p, "compile") /\ tried' = [tried EXCEPT ![p] = app[CaseOf[p]]]
  /\ Judge(p, "COMPILE_FAIL") /\ UNCHANGED <<stage, firmware>>
\* idf.py build, which also configures, and west build: a command that fails is
\* charged to the submission, whatever made it fail, also when only its output
\* says that ninja stopped.
CompileFails(p) ==
  /\ At(p, "compile") /\ tried' = [tried EXCEPT ![p] = app[CaseOf[p]]]
  /\ Judge(p, "CF") /\ UNCHANGED <<stage, firmware>>
CompileSucceeds(p) ==
  /\ At(p, "compile")
  /\ \E s \in app[CaseOf[p]] \ Broken : built' = [built EXCEPT ![CaseOf[p]] = {s}]
  /\ Then(p, "back") /\ UNCHANGED <<app, result>>

\* The wrapper returns 0 although ninja gave up without a word.
CompileStopsSilently(p) ==
  /\ At(p, "compile")
  /\ Then(p, "back") /\ UNCHANGED <<stage, result>>

\* The firmware is copied back if it exists; ensure_firmware_outputs then
\* reports a missing one as an artifact failure.
CopyBack(p) ==
  /\ At(p, "back")
  /\ firmware' = [firmware EXCEPT ![p] = built[CaseOf[p]]]
  /\ Judge(p, IF built[CaseOf[p]] = {} THEN "IF" ELSE "built")
  /\ UNCHANGED <<stage, tried>>

\* A tool that is missing or times out, or a file operation that fails.
InfraFails(p) ==
  /\ step[p] \in {"remove", "copy", "configure", "compile", "back"}
  /\ At(p, step[p])
  /\ Judge(p, "IF") /\ UNCHANGED <<stage, firmware, tried>>

Finish(p) ==
  /\ step[p] = "done" /\ Leave(p)
  /\ Then(p, "none") /\ UNCHANGED <<stage, source, result>>

\* A killed process leaves its half-built stage behind, to the one that is
\* started in its place.
Killed(p) ==
  /\ Die(p)
  /\ Then(p, "none") /\ UNCHANGED <<stage, source, result>>
Restart(p) ==
  /\ at[p] = "dead" /\ Goto(p, "idle")
  /\ UNCHANGED <<file, acquired, waited, stage, step, source, result>>

BuildStep(p) ==
  \/ Remove(p) \/ CopySketch(p) \/ Configure(p)
  \/ CompileFails(p) \/ CompileSucceeds(p) \/ CompileStopsSilently(p)
  \/ CopyBack(p) \/ InfraFails(p)
Locked(p) == LockStep(p) /\ UNCHANGED <<stage, step, source, result>>
Next ==
  \/ \E p \in Procs :
       Start(p) \/ Locked(p) \/ BuildStep(p) \/ Finish(p)
       \/ Killed(p) \/ Restart(p)
  \/ Tick /\ UNCHANGED <<stage, step, source, result>>
Spec == Init /\ [][Next]_vars

-----------------------------------------------------------------------------
(* Properties *)

\* The firmware a process goes on to simulate was built from the submission it
\* evaluates ("evaluates it in an isolated workspace").
OwnFirmware == \A p \in Procs : firmware[p] \subseteq {source[p]}

\* A charge stands for a compile command that failed on the submission itself:
\* never on another process's, on a leftover, or before anything was compiled
\* ("Only the compile step is charged as CF").  Why it failed is not asked.
ChargedForOwnBuild ==
  \A p \in Procs : verdict[p] = "CF" => tried[p] = {source[p]}
=============================================================================
