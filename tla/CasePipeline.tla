----------------------------- MODULE CasePipeline -----------------------------
(***************************************************************************)
(* One case directory and the commands that work on it (bench/cli.py,      *)
(* bench/runner.py), the evidence index made from it (bench/evidence.py)   *)
(* and the gate that reads the index (bench/leaderboard/manifest.py).      *)
(*                                                                         *)
(* A run cleans, builds, simulates every variant, judges and records what  *)
(* it did in verification.json.  It may fail or be killed at every step,   *)
(* and somebody may edit its inputs at any time.  Later commands know only *)
(* the files: whether they may be trusted is what the record is for.       *)
(* A file stands for its content, so comparing files is comparing hashes.  *)
(***************************************************************************)
EXTENDS Integers, Sequences, FiniteSets

CONSTANTS
  Variants,     \* simulation variants, in order
  Versions,     \* contents that an input of the case may have
  Pinned,       \* the pinned version of the tools
  Submission,   \* the sketch given with --sketch, none of Versions
  Broken,       \* sketches that do not compile
  Editable,     \* inputs that somebody edits
  MaxEdits      \* bound on the edits

Inputs == {"task", "sketch", "harness", "tools"}
Targets == {"reference", "submission"}
Sketches == Versions \cup {Submission}
\* What a simulation writes: something the validator passes, fails or cannot
\* decode, or an empty file.
Decodable == {"good", "bad", "garbled"}
Contents == Decodable \cup {"empty"}
VariantSet == {Variants[i] : i \in DOMAIN Variants}

ASSUME VariantsAssumption ==
  /\ Variants \in Seq(VariantSet)
  /\ \A i, j \in DOMAIN Variants : Variants[i] = Variants[j] => i = j
ASSUME VersionsAssumption == Pinned \in Versions /\ Submission \notin Versions
ASSUME EditAssumption == Editable \subseteq Inputs /\ MaxEdits \in Nat

VARIABLES
  current,   \* disk: the inputs; the prompt belongs to the task
  caseFiles, \* disk: the task that diagram and scenario were generated from
  loadable,  \* disk: the case files (case.yaml, case.json) name the sketch
  firmware,  \* disk: {} or {the sketch it was built from}
  output,    \* disk: output[v]: {} or {what a simulation of v left}
  manifest,  \* disk: {} or {a readable verification.json}
  index,     \* disk: docs/<platform>-evidence.json calls the case publishable
  pc,        \* program point of the run in progress
  target,    \* which sketch it runs
  pos,       \* the variant it has reached
  verdict,   \* its verdict, or that of the last command
  mine,      \* history: the variants that this run has simulated
  steady,    \* history: nothing was edited since this run began
  edits

disk == <<current, caseFiles, loadable, firmware, output, manifest, index>>
vars == <<disk, pc, target, pos, verdict, mine, steady, edits>>

Output == [sketch: Sketches, task: Versions, content: Contents]
Manifest == [task: Versions, sketch: Sketches, harness: Versions,
             tools: Versions, caseFiles: Versions, loadable: BOOLEAN,
             firmware: SUBSET Sketches, output: [VariantSet -> SUBSET Output],
             result: {"BC", "BF", "IF"}, steady: BOOLEAN]

Sketch(t) == IF t = "reference" THEN current.sketch ELSE Submission

Init ==
  /\ current = [i \in Inputs |-> Pinned] /\ caseFiles = Pinned
  /\ loadable = TRUE
  /\ firmware = {} /\ output = [v \in VariantSet |-> {}]
  /\ manifest = {} /\ index = FALSE
  /\ pc = "idle" /\ target = "reference" /\ pos = 1 /\ verdict = "none"
  /\ mine = {} /\ steady = TRUE /\ edits = 0

Stop(v) ==
  /\ pc' = "idle" /\ target' = "reference" /\ pos' = 1 /\ verdict' = v
  /\ mine' = {} /\ steady' = TRUE /\ UNCHANGED edits
Goto(point) ==
  pc' = point /\ UNCHANGED <<target, verdict, steady, edits>>

-----------------------------------------------------------------------------
(* The world around a run *)

Edit(i) ==
  /\ edits < MaxEdits /\ edits' = edits + 1
  /\ \E v \in Versions \ {current[i]} : current' = [current EXCEPT ![i] = v]
  /\ steady' = (pc = "idle")
  /\ UNCHANGED <<caseFiles, loadable, firmware, output, manifest, index, pc,
                 target, pos, verdict, mine>>
\* Somebody removes or breaks the case files, or brings them back.
EditCase ==
  /\ edits < MaxEdits /\ edits' = edits + 1
  /\ loadable' = ~loadable /\ steady' = (pc = "idle")
  /\ UNCHANGED <<current, caseFiles, firmware, output, manifest, index, pc,
                 target, pos, verdict, mine>>

\* generate, the --regenerate of any command, and any command that finds no case
\* files.  The reference sketch is written too, with whatever source the harness
\* has for it; an authored one stays as it is.
Generate ==
  /\ pc = "idle" /\ caseFiles' = current.task /\ loadable' = TRUE
  /\ \E s \in Versions : current' = [current EXCEPT !.sketch = s]
  /\ UNCHANGED <<firmware, output, manifest, index, pc, target, pos, verdict,
                 mine, steady, edits>>

\* Mutant: the sketch is not among the compared inputs.
Publishable_AnySketch(m) ==
  /\ m.result = "BC" /\ m.task = current.task
  /\ m.tools = Pinned /\ m.harness = current.harness
\* evidence_entry, build_evidence_index: a record counts when it says BC, its
\* task, sketch and tools are the present and pinned ones, and so is the harness.
\* The sketch is not compared when the case files do not say where it is.
Publishable(m) ==
  /\ m.result = "BC" /\ m.task = current.task
  /\ loadable => m.sketch = current.sketch
  /\ m.tools = Pinned /\ m.harness = current.harness
WriteIndex ==
  /\ pc = "idle"
  /\ index' = (\E m \in manifest : Publishable(m))
  /\ UNCHANGED <<current, caseFiles, loadable, firmware, output, manifest, pc,
                 target, pos, verdict, mine, steady, edits>>

\* resolve_plan of the leaderboard believes the entry it finds.
Plan ==
  /\ pc = "idle" /\ index
  /\ Stop("planned") /\ UNCHANGED disk

-----------------------------------------------------------------------------
(* A run *)

\* any: --allow-tool-version-mismatch
ToolsFit(any) == any \/ current.tools = Pinned
\* The Renode lint regenerates the platform file and compares it.
LintPasses == caseFiles = current.task

Start(t, any) ==
  /\ pc = "idle" /\ loadable /\ ToolsFit(any) /\ LintPasses
  /\ pc' = "clean" /\ target' = t /\ verdict' = "none"
  /\ mine' = {} /\ steady' = TRUE
  /\ UNCHANGED <<disk, pos, edits>>
\* Case files that are no YAML at all end the command without a verdict.
StartRefused(any) ==
  /\ pc = "idle" /\ ~(loadable /\ ToolsFit(any) /\ LintPasses)
  /\ Stop("IF") \/ (~loadable /\ Stop("none"))
  /\ UNCHANGED disk
\* normalize_sketch_override: what was submitted is no sketch.
SubmissionRefused ==
  /\ pc = "idle" /\ Stop("CF") /\ UNCHANGED disk

\* Mutant: the firmware of the last build stays where it is.
Clean_Skipped ==
  /\ pc = "clean" /\ Goto("build")
  /\ UNCHANGED <<disk, pos, mine>>
\* clean_build_dir
Clean ==
  /\ pc = "clean" /\ Goto("build")
  /\ firmware' = {}
  /\ UNCHANGED <<current, caseFiles, loadable, output, manifest, index, pos,
                 mine>>

Build ==
  /\ pc = "build" /\ Sketch(target) \notin Broken /\ Goto("archive")
  /\ firmware' = {Sketch(target)}
  /\ UNCHANGED <<current, caseFiles, loadable, output, manifest, index, pos,
                 mine>>
CompileFails ==
  /\ pc = "build" /\ Sketch(target) \in Broken
  /\ Stop("CF") /\ UNCHANGED disk
\* The tool times out, cannot be started or leaves no firmware; with the last
\* firmware out of the way, ensure_firmware_outputs notices.
BuildBreaks ==
  /\ pc = "build"
  /\ IF firmware = {} THEN Stop("IF") /\ UNCHANGED disk
     ELSE Goto("archive") /\ UNCHANGED <<disk, pos, mine>>

\* Mutant: the outputs of the last run stay where they are.
Archive_Skipped ==
  /\ pc = "archive" /\ pos <= Len(Variants) /\ Goto("simulate")
  /\ UNCHANGED <<disk, pos, mine>>
\* archive_current_outputs moves what an earlier run left.
Archive ==
  /\ pc = "archive" /\ pos <= Len(Variants) /\ Goto("simulate")
  /\ output' = [output EXCEPT ![Variants[pos]] = {}]
  /\ UNCHANGED <<current, caseFiles, loadable, firmware, manifest, index, pos,
                 mine>>

Written(content) ==
  \E s \in firmware :
    output' = [output EXCEPT ![Variants[pos]] =
                 {[sketch |-> s, task |-> caseFiles, content |-> content]}]
\* The simulator exits cleanly; ensure_existing_outputs looks at the files.
Simulate ==
  /\ pc = "simulate" /\ Goto("archive")
  /\ \E content \in Decodable : Written(content)
  /\ pos' = pos + 1 /\ mine' = mine \cup {Variants[pos]}
  /\ UNCHANGED <<current, caseFiles, loadable, firmware, manifest, index>>
\* An empty serial log is the submission's failure, an empty VCD is not.
SimulateSilently ==
  /\ pc = "simulate" /\ Written("empty") /\ (\E v \in {"BF", "IF"} : Stop(v))
  /\ UNCHANGED <<current, caseFiles, loadable, firmware, manifest, index>>
\* The simulator wrote nothing: a file that is there is an old one.
SimulateNothing ==
  /\ pc = "simulate"
  /\ IF output[Variants[pos]] = {} THEN Stop("IF")
     ELSE Goto("archive") /\ pos' = pos + 1 /\ UNCHANGED mine
  /\ UNCHANGED disk
\* The simulator fails or runs out of time; it may have begun to write.
SimulateBreaks ==
  /\ pc = "simulate" /\ Stop("IF")
  /\ (\E content \in Contents : Written(content)) \/ UNCHANGED output
  /\ UNCHANGED <<current, caseFiles, loadable, firmware, manifest, index>>
Simulated ==
  /\ pc = "archive" /\ pos > Len(Variants) /\ Goto("judge")
  /\ UNCHANGED <<disk, pos, mine>>

\* validate_case: the first variant that does not pass decides.
Passes(out, i) == \A o \in out[Variants[i]] : o.content = "good"
Fails(out, i, content) ==
  /\ \E o \in out[Variants[i]] : o.content = content
  /\ \A j \in 1..(i - 1) : Passes(out, j)
\* Mutant: an output that cannot be decoded is charged to the submission.
Judgement_Charged(out) ==
  IF \A i \in DOMAIN Variants : Passes(out, i) THEN "BC"
  ELSE IF \E i \in DOMAIN Variants : Fails(out, i, "bad") THEN "BF" ELSE "CF"
Judgement(out) ==
  IF \A i \in DOMAIN Variants : Passes(out, i) THEN "BC"
  ELSE IF \E i \in DOMAIN Variants : Fails(out, i, "bad") THEN "BF" ELSE "IF"
Judge ==
  /\ pc = "judge" /\ pc' = "record" /\ verdict' = Judgement(output)
  /\ UNCHANGED <<disk, target, pos, mine, steady, edits>>

\* write_verification hashes everything as it is now.
Recorded ==
  [task |-> current.task, sketch |-> Sketch(target),
   harness |-> current.harness, tools |-> current.tools,
   caseFiles |-> caseFiles, loadable |-> loadable, firmware |-> firmware,
   output |-> output, result |-> verdict, steady |-> steady]
Record ==
  /\ pc = "record" /\ manifest' = {Recorded} /\ Stop(verdict)
  /\ UNCHANGED <<current, caseFiles, loadable, firmware, output, index>>

\* A run that is killed leaves everything as it is, the file being written cut.
Kill ==
  /\ pc # "idle" /\ Stop("none")
  /\ \/ UNCHANGED output
     \/ pc = "simulate" /\ \E content \in Contents : Written(content)
  /\ manifest' \in IF pc = "record" THEN {manifest, {}} ELSE {manifest}
  /\ UNCHANGED <<current, caseFiles, loadable, firmware, index>>

-----------------------------------------------------------------------------
(* validate-artifacts *)

Present == \A v \in VariantSet : \E o \in output[v] : o.content # "empty"
\* Mutant: the firmware and the outputs are not compared.
Matches_InputsOnly(m, t, any) ==
  /\ any \/ m.tools = current.tools
  /\ m.harness = current.harness /\ m.task = current.task
  /\ m.caseFiles = caseFiles /\ m.loadable = loadable
  /\ m.sketch = Sketch(t)
\* validate_existing_artifact_manifest
Matches(m, t, any) ==
  /\ any \/ m.tools = current.tools
  /\ m.harness = current.harness /\ m.task = current.task
  /\ m.caseFiles = caseFiles /\ m.loadable = loadable
  /\ m.sketch = Sketch(t)
  /\ m.firmware = firmware /\ firmware # {}
  /\ m.output = output
Accepted(t, any) ==
  loadable /\ LintPasses /\ Present /\ \E m \in manifest : Matches(m, t, any)
Revalidate(t, any) ==
  /\ pc = "idle" /\ Stop(IF Accepted(t, any) THEN Judgement(output) ELSE "IF")
  /\ UNCHANGED disk

RunStep ==
  \/ Clean \/ Build \/ CompileFails \/ BuildBreaks
  \/ Archive \/ Simulate \/ SimulateSilently \/ SimulateNothing
  \/ SimulateBreaks \/ Simulated \/ Judge \/ Record
Next ==
  \/ \E i \in Editable : Edit(i)
  \/ EditCase \/ Generate \/ WriteIndex \/ Plan
  \/ \E t \in Targets, any \in BOOLEAN :
       Start(t, any) \/ StartRefused(any) \/ Revalidate(t, any)
  \/ SubmissionRefused
  \/ RunStep \/ Kill
Spec == Init /\ [][Next]_vars

-----------------------------------------------------------------------------
(* Properties *)

TypeOK ==
  /\ current \in [Inputs -> Versions] /\ caseFiles \in Versions
  /\ firmware \in SUBSET Sketches
  /\ output \in [VariantSet -> SUBSET Output]
  /\ manifest \subseteq Manifest
  /\ loadable \in BOOLEAN /\ index \in BOOLEAN
  /\ pc \in {"idle", "clean", "build", "archive", "simulate", "judge", "record"}
  /\ target \in Targets /\ pos \in 1..Len(Variants) + 1
  /\ verdict \in {"none", "planned", "BC", "BF", "CF", "IF"}
  /\ mine \subseteq VariantSet /\ steady \in BOOLEAN /\ edits \in 0..MaxEdits

OwnOutput(v) ==
  /\ v \in mine
  /\ \E o \in output[v] :
       o.sketch \in firmware /\ (steady => o.sketch = Sketch(target))
\* What a run judges and records is what its own simulations of its own firmware
\* wrote, whatever earlier runs that failed or were killed left behind ("so stale
\* firmware can never be reused").
JudgedOwnOutput ==
  pc \in {"judge", "record"} => \A v \in VariantSet : OwnOutput(v)

\* validate-artifacts judges only outputs that the named sketch produced under
\* the present task, and gives the verdict of the run that produced them; edits
\* during that run are the exception.
AcceptedIsSound ==
  pc = "idle" =>
    \A t \in Targets, any \in BOOLEAN, m \in manifest :
      Accepted(t, any) /\ m.steady =>
        /\ Judgement(output) = m.result
        /\ \A v \in VariantSet : \A o \in output[v] :
             o.sketch = Sketch(t) /\ o.task = current.task

\* A publishable entry stands for a run of one sketch under the present task and
\* the pinned tools in which every variant was good; while the case files can be
\* read, that sketch is the present reference sketch and never a submission.
PublishableIsEarned ==
  \A m \in manifest :
    Publishable(m) /\ m.steady =>
      /\ m.tools = Pinned /\ m.firmware = {m.sketch}
      /\ loadable => m.sketch = current.sketch
      /\ \A v \in VariantSet : \E o \in m.output[v] :
           o.content = "good" /\ o.sketch = m.sketch /\ o.task = current.task

\* "Any drift marks the task stale, i.e. it must be re-run before it counts
\* toward the leaderboard": what is planned as publishable is so at that moment.
PlannedIsFresh ==
  [][verdict' = "planned" /\ verdict # "planned" =>
       \E m \in manifest : Publishable(m)]_vars
=============================================================================
