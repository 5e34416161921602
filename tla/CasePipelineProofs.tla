-------------------------- MODULE CasePipelineProofs --------------------------
(* Proofs about CasePipeline, for every value of the constants. *)
EXTENDS CasePipeline, TLAPS

LEMMA VariantsIndexed ==
  /\ \A i \in DOMAIN Variants : Variants[i] \in VariantSet
  /\ \A v \in VariantSet : \E i \in DOMAIN Variants : Variants[i] = v
  /\ DOMAIN Variants = 1..Len(Variants) /\ Len(Variants) \in Nat
BY VariantsAssumption DEF VariantSet

-----------------------------------------------------------------------------
(* Types *)

LEMMA SketchType ==
  ASSUME current \in [Inputs -> Versions], NEW t \in Targets
  PROVE  Sketch(t) \in Sketches
BY VersionsAssumption DEF Sketch, Sketches, Inputs, Targets

LEMMA JudgementType == ASSUME NEW out PROVE Judgement(out) \in {"BC", "BF", "IF"}
BY DEF Judgement

\* The points at which pos is the index of a variant and verdict a judgement.
PointInv ==
  /\ pc = "simulate" => pos <= Len(Variants)
  /\ pc = "record" => verdict = Judgement(output)

LEMMA WrittenType ==
  ASSUME TypeOK, NEW content \in Contents, Written(content), pos <= Len(Variants)
  PROVE  output' \in [VariantSet -> SUBSET Output]
<1>1. PICK s \in firmware :
        output' = [output EXCEPT ![Variants[pos]] =
                     {[sketch |-> s, task |-> caseFiles, content |-> content]}]
  BY DEF Written
<1>2. [sketch |-> s, task |-> caseFiles, content |-> content] \in Output
  BY DEF Output, TypeOK
<1>3. {[sketch |-> s, task |-> caseFiles, content |-> content]} \in SUBSET Output
  BY <1>2
<1>4. output \in [VariantSet -> SUBSET Output]
  BY DEF TypeOK
<1> QED BY <1>1, <1>3, <1>4

LEMMA StopType ==
  ASSUME TypeOK, NEW v \in {"none", "planned", "BC", "BF", "CF", "IF"}, Stop(v)
  PROVE  /\ pc' = "idle" /\ target' \in Targets /\ pos' \in 1..Len(Variants) + 1
         /\ verdict' \in {"none", "planned", "BC", "BF", "CF", "IF"}
         /\ mine' \subseteq VariantSet /\ steady' \in BOOLEAN
         /\ edits' \in 0..MaxEdits
BY VariantsIndexed DEF Stop, TypeOK, Targets

LEMMA GotoType ==
  ASSUME TypeOK, NEW point, Goto(point)
  PROVE  /\ pc' = point /\ target' \in Targets /\ verdict' = verdict
         /\ verdict' \in {"none", "planned", "BC", "BF", "CF", "IF"}
         /\ steady' \in BOOLEAN /\ edits' \in 0..MaxEdits
BY DEF Goto, TypeOK

LEMMA TypeInit == Init => TypeOK /\ PointInv
<1> SUFFICES ASSUME Init PROVE TypeOK /\ PointInv
  OBVIOUS
<1>1. current \in [Inputs -> Versions] /\ caseFiles \in Versions
  BY VersionsAssumption DEF Init
<1>2. output \in [VariantSet -> SUBSET Output]
  BY DEF Init
<1>3. pos \in 1..Len(Variants) + 1 /\ edits \in 0..MaxEdits
  BY VariantsIndexed, EditAssumption DEF Init
<1> QED BY <1>1, <1>2, <1>3 DEF Init, TypeOK, PointInv, Targets

LEMMA TypeStep == TypeOK /\ PointInv /\ [Next]_vars => TypeOK' /\ PointInv'
<1> SUFFICES ASSUME TypeOK, PointInv, [Next]_vars
             PROVE  TypeOK' /\ PointInv'
  OBVIOUS
<1>1. CASE UNCHANGED vars
  BY <1>1 DEF TypeOK, PointInv, vars, disk, Judgement, Passes, Fails
<1>2. ASSUME NEW i \in Editable, Edit(i)
      PROVE  TypeOK' /\ PointInv'
  <2>1. current' \in [Inputs -> Versions]
    BY <1>2, EditAssumption DEF Edit, TypeOK
  <2>2. edits' \in 0..MaxEdits /\ steady' \in BOOLEAN
    BY <1>2, EditAssumption DEF Edit, TypeOK
  <2>3. UNCHANGED <<caseFiles, loadable, firmware, output, manifest, index, pc,
                    target, pos, verdict, mine>>
    BY <1>2 DEF Edit
  <2> QED BY <2>1, <2>2, <2>3 DEF TypeOK, PointInv, Judgement, Passes, Fails
<1>22. CASE EditCase
  <2>1. edits' \in 0..MaxEdits /\ steady' \in BOOLEAN /\ loadable' \in BOOLEAN
    BY <1>22, EditAssumption DEF EditCase, TypeOK
  <2>2. UNCHANGED <<current, caseFiles, firmware, output, manifest, index, pc,
                    target, pos, verdict, mine>>
    BY <1>22 DEF EditCase
  <2> QED BY <2>1, <2>2 DEF TypeOK, PointInv, Judgement, Passes, Fails
<1>3. CASE Generate
  <2>1. current' \in [Inputs -> Versions] /\ caseFiles' \in Versions
    BY <1>3 DEF Generate, TypeOK, Inputs
  <2>2. loadable' \in BOOLEAN /\ pc = "idle"
    BY <1>3 DEF Generate
  <2>3. UNCHANGED <<firmware, output, manifest, index, pc, target, pos, verdict,
                    mine, steady, edits>>
    BY <1>3 DEF Generate
  <2> QED BY <2>1, <2>2, <2>3 DEF TypeOK, PointInv
<1>4. CASE WriteIndex
  BY <1>4 DEF WriteIndex, TypeOK, PointInv
<1>5. CASE Plan
  <2>1. Stop("planned") /\ UNCHANGED disk
    BY <1>5 DEF Plan
  <2> QED BY <2>1, StopType DEF TypeOK, PointInv, disk
<1>6. CASE SubmissionRefused
  <2>1. Stop("CF") /\ UNCHANGED disk
    BY <1>6 DEF SubmissionRefused
  <2> QED BY <2>1, StopType DEF TypeOK, PointInv, disk
<1>7. ASSUME NEW t \in Targets, NEW any \in BOOLEAN, Start(t, any)
      PROVE  TypeOK' /\ PointInv'
  BY <1>7 DEF Start, TypeOK, PointInv, disk
<1>8. ASSUME NEW t \in Targets, NEW any \in BOOLEAN,
             StartRefused(any) \/ Revalidate(t, any)
      PROVE  TypeOK' /\ PointInv'
  <2>1. PICK v \in {"BC", "BF", "IF", "none"} : Stop(v) /\ UNCHANGED disk
    BY <1>8, JudgementType DEF StartRefused, Revalidate
  <2> QED BY <2>1, StopType DEF TypeOK, PointInv, disk
<1>9. CASE Clean
  <2>1. Goto("build")
    BY <1>9 DEF Clean
  <2> QED BY <1>9, <2>1, GotoType DEF Clean, TypeOK, PointInv
<1>10. CASE CompileFails
  <2>1. Stop("CF") /\ UNCHANGED disk
    BY <1>10 DEF CompileFails
  <2> QED BY <2>1, StopType DEF TypeOK, PointInv, disk
<1>11. CASE BuildBreaks
  <2>1. CASE Stop("IF") /\ UNCHANGED disk
    BY <2>1, StopType DEF TypeOK, PointInv, disk
  <2>2. CASE Goto("archive") /\ UNCHANGED <<disk, pos, mine>>
    BY <2>2, GotoType DEF TypeOK, PointInv, disk
  <2> QED BY <1>11, <2>1, <2>2 DEF BuildBreaks
<1>12. CASE Build
  <2>1. Goto("archive") /\ firmware' = {Sketch(target)}
    BY <1>12 DEF Build
  <2>2. firmware' \in SUBSET Sketches
    BY <2>1, SketchType DEF TypeOK
  <2> QED BY <1>12, <2>1, <2>2, GotoType DEF Build, TypeOK, PointInv
<1>13. CASE Archive
  <2>1. Goto("simulate")
    BY <1>13 DEF Archive
  <2>2. output' \in [VariantSet -> SUBSET Output] /\ pos <= Len(Variants)
    BY <1>13 DEF Archive, TypeOK
  <2> QED BY <1>13, <2>1, <2>2, GotoType DEF Archive, TypeOK, PointInv
<1>14. CASE Simulated
  <2>1. Goto("judge") /\ UNCHANGED <<disk, pos, mine>>
    BY <1>14 DEF Simulated
  <2> QED BY <2>1, GotoType DEF TypeOK, PointInv, disk
<1>15. CASE Simulate
  <2>1. Goto("archive") /\ pos <= Len(Variants)
    BY <1>15 DEF Simulate, PointInv
  <2>2. output' \in [VariantSet -> SUBSET Output]
    BY <1>15, <2>1, WrittenType DEF Simulate, Contents
  <2>3. pos' \in 1..Len(Variants) + 1 /\ mine' \subseteq VariantSet
    BY <1>15, <2>1, VariantsIndexed DEF Simulate, TypeOK
  <2> QED BY <1>15, <2>1, <2>2, <2>3, GotoType DEF Simulate, TypeOK, PointInv
<1>16. CASE SimulateSilently
  <2>1. output' \in [VariantSet -> SUBSET Output]
    BY <1>16, WrittenType DEF SimulateSilently, Contents, PointInv
  <2>2. PICK v \in {"BF", "IF"} : Stop(v)
    BY <1>16 DEF SimulateSilently
  <2> QED BY <1>16, <2>1, <2>2, StopType DEF SimulateSilently, TypeOK, PointInv
<1>17. CASE SimulateNothing
  <2>1. CASE Stop("IF") /\ UNCHANGED disk
    BY <2>1, StopType DEF TypeOK, PointInv, disk
  <2>2. CASE Goto("archive") /\ pos' = pos + 1 /\ UNCHANGED mine /\ UNCHANGED disk
    <3>1. pos' \in 1..Len(Variants) + 1
      BY <1>17, <2>2, VariantsIndexed DEF SimulateNothing, TypeOK, PointInv
    <3> QED BY <2>2, <3>1, GotoType DEF TypeOK, PointInv, disk
  <2> QED BY <1>17, <2>1, <2>2 DEF SimulateNothing
<1>18. CASE SimulateBreaks
  <2>1. output' \in [VariantSet -> SUBSET Output]
    BY <1>18, WrittenType DEF SimulateBreaks, PointInv, TypeOK
  <2>2. Stop("IF")
    BY <1>18 DEF SimulateBreaks
  <2> QED BY <1>18, <2>1, <2>2, StopType DEF SimulateBreaks, TypeOK, PointInv
<1>19. CASE Judge
  <2>1. pc' = "record" /\ verdict' = Judgement(output)
    BY <1>19 DEF Judge
  <2>2. UNCHANGED <<disk, target, pos, mine, steady, edits>>
    BY <1>19 DEF Judge
  <2>3. Judgement(output)' = Judgement(output)
    BY <2>2 DEF disk, Judgement, Passes, Fails
  <2> QED BY <2>1, <2>2, <2>3, JudgementType DEF TypeOK, PointInv, disk
<1>20. CASE Record
  <2>1. Stop(verdict) /\ verdict \in {"BC", "BF", "IF"}
    BY <1>20, JudgementType DEF Record, PointInv
  <2>2. Recorded \in Manifest
    BY <2>1, SketchType DEF Recorded, Manifest, TypeOK, Inputs
  <2> QED BY <1>20, <2>1, <2>2, StopType DEF Record, TypeOK, PointInv
<1>21. CASE Kill
  <2>1. output' \in [VariantSet -> SUBSET Output]
    BY <1>21, WrittenType DEF Kill, PointInv, TypeOK
  <2>2. Stop("none")
    BY <1>21 DEF Kill
  <2> QED BY <1>21, <2>1, <2>2, StopType DEF Kill, TypeOK, PointInv
<1> QED
  BY <1>1, <1>2, <1>3, <1>4, <1>5, <1>6, <1>7, <1>8, <1>9, <1>10, <1>11, <1>12,
     <1>13, <1>14, <1>15, <1>16, <1>17, <1>18, <1>19, <1>20, <1>21, <1>22
  DEF Next, RunStep

\* The files, the program point and the history of a case directory always have
\* their types, whatever is edited, killed or run, for every value of the constants.
THEOREM TypeCorrect == Spec => []TypeOK
<1>1. TypeOK /\ PointInv /\ [Next]_vars => (TypeOK /\ PointInv)'
  BY TypeStep
<1> QED BY <1>1, TypeInit, PTL DEF Spec

-----------------------------------------------------------------------------
(* What a run relies on, and what a record stands for *)

\* What is in the output of v was simulated by this run, of this firmware.
Own(v) ==
  /\ v \in mine /\ output[v] # {}
  /\ \A o \in output[v] : o.sketch \in firmware /\ o.task = caseFiles

RunInv ==
  /\ pc \in {"idle", "clean", "build"} => pos = 1
  /\ pc = "build" => firmware = {}
  /\ pc # "idle" /\ steady => caseFiles = current.task
  /\ pc \in {"archive", "simulate", "judge", "record"} =>
       firmware # {} /\ (steady => firmware = {Sketch(target)})
  /\ pc \in {"archive", "simulate"} => \A i \in 1..(pos - 1) : Own(Variants[i])
  /\ pc = "simulate" => output[Variants[pos]] = {}
  /\ pc \in {"judge", "record"} => \A v \in VariantSet : Own(v)

RecordInv ==
  /\ \A m, n \in manifest : m = n
  /\ \A m \in manifest :
       /\ m.result = Judgement(m.output)
       /\ m.steady =>
            /\ m.caseFiles = m.task /\ m.firmware = {m.sketch}
            /\ \A v \in VariantSet :
                 /\ m.output[v] # {}
                 /\ \A o \in m.output[v] : o.sketch = m.sketch /\ o.task = m.task

CaseInv == TypeOK /\ PointInv /\ RunInv /\ RecordInv

LEMMA StopRun == ASSUME NEW v, Stop(v) PROVE RunInv'
BY DEF Stop, RunInv

LEMMA RecordKept == ASSUME RecordInv, UNCHANGED manifest PROVE RecordInv'
BY DEF RecordInv, Judgement, Passes, Fails

\* A simulation of the variant at pos leaves the outputs of the others alone.
LEMMA SimulatedOwn ==
  ASSUME TypeOK, RunInv, pc = "simulate", pos <= Len(Variants),
         NEW content \in Contents, Written(content),
         mine' = mine \cup {Variants[pos]}, UNCHANGED <<firmware, caseFiles>>
  PROVE  \A i \in 1..pos : Own(Variants[i])'
<1>1. PICK s \in firmware :
        output' = [output EXCEPT ![Variants[pos]] =
                     {[sketch |-> s, task |-> caseFiles, content |-> content]}]
  BY DEF Written
<1>2. TAKE i \in 1..pos
<1>3. pos \in 1..Len(Variants) /\ i \in DOMAIN Variants /\ pos \in DOMAIN Variants
  BY VariantsIndexed DEF TypeOK
<1>4. CASE i = pos
  <2>1. output'[Variants[i]] =
          {[sketch |-> s, task |-> caseFiles, content |-> content]}
    BY <1>1, <1>3, <1>4, VariantsIndexed DEF TypeOK
  <2> QED BY <1>4, <2>1 DEF Own
<1>5. CASE i # pos
  <2>1. i \in 1..(pos - 1) /\ Variants[i] # Variants[pos]
    BY <1>3, <1>5, VariantsAssumption
  <2>2. Own(Variants[i]) /\ output'[Variants[i]] = output[Variants[i]]
    BY <1>1, <1>3, <2>1, VariantsIndexed DEF RunInv, TypeOK
  <2> QED BY <2>2 DEF Own
<1> QED BY <1>4, <1>5

LEMMA CaseInit == Init => CaseInv
<1> SUFFICES ASSUME Init PROVE CaseInv
  OBVIOUS
<1>1. RunInv
  BY DEF Init, RunInv
<1>2. RecordInv
  BY DEF Init, RecordInv
<1> QED BY <1>1, <1>2, TypeInit DEF CaseInv

LEMMA CaseStep == CaseInv /\ [Next]_vars => CaseInv'
<1> SUFFICES ASSUME TypeOK, PointInv, RunInv, RecordInv, [Next]_vars
             PROVE  RunInv' /\ RecordInv'
  BY TypeStep DEF CaseInv
<1>1. CASE UNCHANGED vars
  <2>1. RunInv'
    BY <1>1 DEF vars, disk, RunInv, Own, Sketch
  <2> QED BY <1>1, <2>1, RecordKept DEF vars, disk
<1>2. ASSUME NEW i \in Editable, Edit(i)
      PROVE  RunInv' /\ RecordInv'
  <2>1. UNCHANGED <<caseFiles, firmware, output, manifest, index, pc, target,
                    pos, verdict, mine>>
    BY <1>2 DEF Edit
  <2>2. pc # "idle" => ~steady'
    BY <1>2 DEF Edit
  <2>3. RunInv'
    BY <2>1, <2>2 DEF RunInv, Own
  <2> QED BY <2>1, <2>3, RecordKept
<1>19. CASE EditCase
  <2>1. UNCHANGED <<current, caseFiles, firmware, output, manifest, index, pc,
                    target, pos, verdict, mine>>
    BY <1>19 DEF EditCase
  <2>2. pc # "idle" => ~steady'
    BY <1>19 DEF EditCase
  <2>3. RunInv'
    BY <2>1, <2>2 DEF RunInv, Own, Sketch
  <2> QED BY <2>1, <2>3, RecordKept
<1>3. CASE Generate \/ WriteIndex
  <2>1. pc = "idle" /\ UNCHANGED <<manifest, pc, pos>>
    BY <1>3 DEF Generate, WriteIndex
  <2>2. RunInv'
    BY <2>1 DEF RunInv
  <2> QED BY <2>1, <2>2, RecordKept
<1>4. ASSUME NEW v, Stop(v), UNCHANGED manifest
      PROVE  RunInv' /\ RecordInv'
  BY <1>4, StopRun, RecordKept
<1>5. CASE Plan \/ SubmissionRefused \/ CompileFails
  BY <1>5, <1>4 DEF Plan, SubmissionRefused, CompileFails, disk
<1>6. ASSUME NEW t \in Targets, NEW any \in BOOLEAN, Start(t, any)
      PROVE  RunInv' /\ RecordInv'
  <2>1. pc = "idle" /\ caseFiles = current.task /\ pc' = "clean"
        /\ UNCHANGED <<disk, pos>>
    BY <1>6 DEF Start, LintPasses
  <2>2. RunInv'
    BY <2>1 DEF RunInv, disk
  <2> QED BY <2>1, <2>2, RecordKept DEF disk
<1>7. ASSUME NEW t \in Targets, NEW any \in BOOLEAN,
             StartRefused(any) \/ Revalidate(t, any)
      PROVE  RunInv' /\ RecordInv'
  BY <1>7, <1>4 DEF StartRefused, Revalidate, disk
<1>8. CASE Clean
  BY <1>8, RecordKept DEF Clean, Goto, RunInv
<1>9. CASE Build
  <2>1. /\ pc = "build" /\ pc' = "archive" /\ firmware' = {Sketch(target)}
        /\ UNCHANGED <<target, steady, current, caseFiles, manifest, pos>>
    BY <1>9 DEF Build, Goto
  <2>2. RunInv'
    BY <2>1 DEF RunInv, Sketch
  <2> QED BY <2>1, <2>2, RecordKept
<1>10. CASE BuildBreaks
  BY <1>10, <1>4 DEF BuildBreaks, RunInv, disk
<1>11. CASE Archive
  <2>1. /\ pc = "archive" /\ pc' = "simulate" /\ pos <= Len(Variants)
        /\ output' = [output EXCEPT ![Variants[pos]] = {}]
        /\ UNCHANGED <<target, steady, current, caseFiles, firmware, manifest,
                       pos, mine>>
    BY <1>11 DEF Archive, Goto
  <2>2. pos \in DOMAIN Variants /\ Variants[pos] \in VariantSet
    BY <2>1, VariantsIndexed DEF TypeOK
  <2>3. output'[Variants[pos]] = {}
    BY <2>1, <2>2 DEF TypeOK
  <2>4. ASSUME NEW i \in 1..(pos - 1) PROVE Own(Variants[i])'
    <3>1. i \in DOMAIN Variants /\ i # pos
      BY <2>1, <2>2, VariantsIndexed
    <3>2. output'[Variants[i]] = output[Variants[i]]
      BY <2>1, <2>2, <3>1, VariantsIndexed, VariantsAssumption DEF TypeOK
    <3> QED BY <2>1, <3>2 DEF Own, RunInv
  <2>5. RunInv'
    BY <2>1, <2>3, <2>4 DEF RunInv, Sketch
  <2> QED BY <2>1, <2>5, RecordKept
<1>12. CASE Simulate
  <2>1. /\ pc = "simulate" /\ pc' = "archive" /\ pos <= Len(Variants)
        /\ pos' = pos + 1 /\ mine' = mine \cup {Variants[pos]}
        /\ UNCHANGED <<target, steady, current, caseFiles, firmware, manifest>>
    BY <1>12 DEF Simulate, Goto, PointInv
  <2>2. \A i \in 1..pos : Own(Variants[i])'
    BY <1>12, <2>1, SimulatedOwn DEF Simulate, Contents
  <2>3. pos \in Int /\ pos' - 1 = pos
    BY <2>1, VariantsIndexed DEF TypeOK
  <2>4. RunInv'
    BY <2>1, <2>2, <2>3 DEF RunInv, Sketch
  <2> QED BY <2>1, <2>4, RecordKept
<1>13. CASE SimulateSilently \/ SimulateBreaks
  BY <1>13, <1>4 DEF SimulateSilently, SimulateBreaks
<1>14. CASE SimulateNothing
  BY <1>14, <1>4 DEF SimulateNothing, RunInv, disk
<1>15. CASE Simulated
  <2>1. /\ pc = "archive" /\ pc' = "judge" /\ pos > Len(Variants)
        /\ UNCHANGED <<disk, target, steady, pos, mine>>
    BY <1>15 DEF Simulated, Goto
  <2>2. ASSUME NEW v \in VariantSet PROVE Own(v)
    <3>1. PICK i \in DOMAIN Variants : Variants[i] = v
      BY VariantsIndexed
    <3>2. i \in 1..(pos - 1)
      BY <2>1, VariantsIndexed DEF TypeOK
    <3> QED BY <2>1, <3>1, <3>2 DEF RunInv
  <2>3. RunInv'
    BY <2>1, <2>2 DEF RunInv, Own, Sketch, disk
  <2> QED BY <2>1, <2>3, RecordKept DEF disk
<1>16. CASE Judge
  <2>1. /\ pc = "judge" /\ pc' = "record"
        /\ UNCHANGED <<disk, target, pos, mine, steady>>
    BY <1>16 DEF Judge
  <2>2. RunInv'
    BY <2>1 DEF RunInv, Own, Sketch, disk
  <2> QED BY <2>1, <2>2, RecordKept DEF disk
<1>17. CASE Record
  <2>1. pc = "record" /\ manifest' = {Recorded} /\ Stop(verdict)
    BY <1>17 DEF Record
  <2>2. Recorded.result = Judgement(Recorded.output)
    BY <2>1 DEF Recorded, PointInv
  <2>3. ASSUME Recorded.steady
        PROVE  /\ Recorded.caseFiles = Recorded.task
               /\ Recorded.firmware = {Recorded.sketch}
               /\ \A v \in VariantSet :
                    /\ Recorded.output[v] # {}
                    /\ \A o \in Recorded.output[v] :
                         o.sketch = Recorded.sketch /\ o.task = Recorded.task
    <3>1. caseFiles = current.task /\ firmware = {Sketch(target)}
      BY <2>1, <2>3 DEF Recorded, RunInv
    <3>2. \A v \in VariantSet : Own(v)
      BY <2>1 DEF RunInv
    <3> QED BY <3>1, <3>2 DEF Own, Recorded
  <2>4. RecordInv'
    BY <2>1, <2>2, <2>3 DEF RecordInv, Judgement, Passes, Fails
  <2> QED BY <2>1, <2>4, StopRun
<1>18. CASE Kill
  <2>1. Stop("none")
    BY <1>18 DEF Kill
  <2>2. CASE UNCHANGED manifest
    BY <2>1, <2>2, <1>4
  <2>3. CASE manifest' = {}
    BY <2>1, <2>3, StopRun DEF RecordInv
  <2> QED BY <1>18, <2>2, <2>3 DEF Kill
<1> QED
  BY <1>1, <1>2, <1>3, <1>5, <1>6, <1>7, <1>8, <1>9, <1>10, <1>11, <1>12, <1>13,
     <1>14, <1>15, <1>16, <1>17, <1>18, <1>19
  DEF Next, RunStep

LEMMA CaseAlways == Spec => []CaseInv
BY CaseInit, CaseStep, PTL DEF Spec

\* What a run judges and records is what its own simulations of its own firmware
\* wrote, for any number of variants, edits, failures and kills.
THEOREM RunsJudgeTheirOwn == Spec => []JudgedOwnOutput
<1>1. CaseInv => JudgedOwnOutput
  BY DEF CaseInv, RunInv, Own, JudgedOwnOutput, OwnOutput
<1> QED BY <1>1, CaseAlways, PTL

\* validate-artifacts accepts only outputs of the named sketch under the present
\* task, and repeats the verdict that the recording run gave them.
THEOREM AcceptedOutputsAreSound == Spec => []AcceptedIsSound
<1>1. CaseInv => AcceptedIsSound
  <2> SUFFICES ASSUME CaseInv, NEW t \in Targets, NEW any \in BOOLEAN,
                      NEW m \in manifest, Accepted(t, any), m.steady
               PROVE  /\ Judgement(output) = m.result
                      /\ \A v \in VariantSet : \A o \in output[v] :
                           o.sketch = Sketch(t) /\ o.task = current.task
    BY DEF AcceptedIsSound
  <2>1. Matches(m, t, any)
    BY DEF Accepted, CaseInv, RecordInv
  <2> QED BY <2>1 DEF Matches, CaseInv, RecordInv
<1> QED BY <1>1, CaseAlways, PTL

\* What the evidence index may call publishable was earned by a run of one sketch,
\* the present reference sketch while the case files can be read, in which every
\* variant was good.
THEOREM PublishableEntriesAreEarned == Spec => []PublishableIsEarned
<1>1. CaseInv => PublishableIsEarned
  <2> SUFFICES ASSUME CaseInv, NEW m \in manifest, Publishable(m), m.steady
               PROVE  /\ m.tools = Pinned /\ m.firmware = {m.sketch}
                      /\ loadable => m.sketch = current.sketch
                      /\ \A v \in VariantSet : \E o \in m.output[v] :
                           /\ o.content = "good" /\ o.sketch = m.sketch
                           /\ o.task = current.task
    BY DEF PublishableIsEarned
  <2>1. Judgement(m.output) = "BC"
    BY DEF Publishable, CaseInv, RecordInv
  <2>2. \A i \in DOMAIN Variants : Passes(m.output, i)
    BY <2>1 DEF Judgement
  <2>3. \A v \in VariantSet : \A o \in m.output[v] : o.content = "good"
    BY <2>2, VariantsIndexed DEF Passes
  <2> QED BY <2>3 DEF Publishable, CaseInv, RecordInv
<1> QED BY <1>1, CaseAlways, PTL
=============================================================================
