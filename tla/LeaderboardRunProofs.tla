------------------------ MODULE LeaderboardRunProofs ------------------------
(***************************************************************************)
(* Proofs about a run directory, for every value of the constants:         *)
(* LeaderboardRun, the provider calls of its generations (GenerationCalls) *)
(* and the reports on its rows (Reports).                                  *)
(***************************************************************************)
EXTENDS GenerationCalls, Reports, FiniteSetTheorems, SequenceTheorems, TLAPS

-----------------------------------------------------------------------------
(* What the operators of the model return *)

\* Selecting indices of a sequence leaves at most as many as it is long.
LEMMA IndexSets ==
  ASSUME NEW S, NEW s \in Seq(S), NEW I, I \subseteq DOMAIN s
  PROVE  Cardinality(I) \in Nat /\ Cardinality(I) <= Len(s)
<1>1. DOMAIN s = 1..Len(s) /\ Len(s) \in Nat
  OBVIOUS
<1>2. IsFiniteSet(1..Len(s)) /\ Cardinality(1..Len(s)) = Len(s)
  <2>1. Len(s) \in Int /\ 1 \in Int
    BY <1>1
  <2>2. /\ IsFiniteSet(1..Len(s))
        /\ Cardinality(1..Len(s)) = IF 1 > Len(s) THEN 0 ELSE Len(s) - 1 + 1
    BY <2>1, FS_Interval
  <2> QED BY <2>2, <1>1
<1>3. IsFiniteSet(I) /\ Cardinality(I) <= Len(s)
  BY <1>1, <1>2, FS_Subset
<1> QED BY <1>3, FS_CardinalityType

\* Every record the session writes to experiment.json is well formed, its
\* count of missing attempts included.
LEMMA ReportType ==
  ASSUME request \in Request, loaded \in Seq(Row), NEW w \in Nat, NEW s \in Nat,
         NEW missing \in Nat,
         NEW status \in {"running", "interrupted", "failed", "complete"}
  PROVE  Report(status, w, s, missing) \in SUBSET Experiment
<1>1. Cardinality(Inconclusive(loaded)) \in Nat
  BY IndexSets DEF Inconclusive
<1> QED BY <1>1 DEF Report, Experiment, Request, Plan

\* ... and so is the one _update_attempt_counts recounts.
LEMMA CountedType ==
  ASSUME request \in Request, loaded \in Seq(Row), NEW w \in Nat, NEW s \in Nat,
         NEW status \in {"running", "interrupted", "failed", "complete"}
  PROVE  Counted(status, w, s) \in SUBSET Experiment
<1>1. Len(Plan) \in Nat
  BY PlansAssumption DEF Request, Plan
<1>2. NonNegative(Len(Plan) - w - s) \in Nat
  BY <1>1 DEF NonNegative
<1> QED BY <1>2, ReportType DEF Counted

\* The keys a session starts with as done are at most those of its plan.
LEMMA DescribedType ==
  ASSUME request \in Request
  PROVE  /\ PositionsIn(Plan, Existing) \in Nat
         /\ Len(Plan) - PositionsIn(Plan, Existing) \in Nat
<1>1. Plan \in Seq(Keys)
  BY PlansAssumption DEF Request, Plan
<1>2. /\ PositionsIn(Plan, Existing) \in Nat
      /\ PositionsIn(Plan, Existing) <= Len(Plan)
  BY <1>1, IndexSets DEF PositionsIn
<1> QED BY <1>1, <1>2

-----------------------------------------------------------------------------
(* Type correctness *)

\* An attempt is in progress only for a position of the plan.
AttemptInPlan ==
  pc \in {"generate", "evaluate", "append", "count"} => pos <= Len(Plan)

TypeInv == TypeOK /\ AttemptInPlan

LEMMA ReadyType ==
  ASSUME TypeInv, pc \in {"generate", "evaluate"}, NEW stage \in Stages,
         NEW retries \in 0..IfRetries, NEW result \in Verdicts,
         Ready(stage, retries, result)
  PROVE  TypeInv'
<1>1. Plan \in Seq(Keys) /\ request.model \in Models
  BY PlansAssumption DEF TypeInv, TypeOK, Request, Plan
<1>2. Plan[pos] \in Keys
  BY <1>1 DEF TypeInv, TypeOK, AttemptInPlan
<1>3. pending' \in SUBSET Row
  BY <1>1, <1>2 DEF Ready, Row
<1>4. AttemptInPlan'
  BY DEF TypeInv, Ready, AttemptInPlan, Plan
<1>5. 0 \in 0..IfRetries /\ "append" \in Points
  BY RetriesAssumption DEF Points, LoopPoints
<1> QED BY <1>3, <1>4, <1>5 DEF TypeInv, TypeOK, Ready, disk

LEMMA TypeInit == Init => TypeInv
<1> SUFFICES ASSUME Init PROVE TypeInv
  OBVIOUS
<1>1. attempts \in Seq(Row) /\ loaded \in Seq(Row)
  BY DEF Init
<1>2. experiment \in SUBSET Experiment
  BY DEF Init
<1>3. pc \in Points /\ mode \in Modes /\ request \in Request
  BY DEF Init, Points
<1>4. pos \in Nat \ {0} /\ written \in Nat /\ skipped \in Nat
  BY DEF Init
<1>5. tries \in 0..IfRetries /\ pending \in SUBSET Row
  BY RetriesAssumption DEF Init
<1>6. torn \in BOOLEAN /\ used \in BOOLEAN
  BY DEF Init
<1>7. AttemptInPlan
  BY DEF Init, AttemptInPlan
<1> QED BY <1>1, <1>2, <1>3, <1>4, <1>5, <1>6, <1>7 DEF TypeInv, TypeOK

LEMMA TypeStep == TypeInv /\ [Next]_vars => TypeInv'
<1> SUFFICES ASSUME TypeInv, [Next]_vars PROVE TypeInv'
  OBVIOUS
<1> USE RetriesAssumption DEF TypeInv, TypeOK, AttemptInPlan, Plan
<1>1. <<>> \in Seq(Row) /\ 0 \in 0..IfRetries
  OBVIOUS
<1>2. Points = {"open", "scan", "generate", "evaluate", "append", "count",
                "idle", "clear", "load", "truncate", "rewrite", "describe",
                "finish"}
  BY DEF Points, LoopPoints
<1>3. End => /\ loaded' \in Seq(Row) /\ pos' \in Nat \ {0}
             /\ written' \in Nat /\ skipped' \in Nat
             /\ tries' \in 0..IfRetries /\ pending' \in SUBSET Row
             /\ pc' = "idle" /\ UNCHANGED <<mode, request>>
  BY <1>1 DEF End, Forget
<1> USE <1>1, <1>2
<1>4. CASE UNCHANGED vars
  BY <1>4 DEF vars, disk, memory
<1>5. ASSUME NEW m \in Modes, NEW req \in Request, Begin(m, req)
      PROVE TypeInv'
  BY <1>5, ModesAssumption DEF Begin, memory
<1>6. CASE ClearAttempts
  BY <1>6 DEF ClearAttempts, memory
<1>7. CASE ClearExperiment
  BY <1>7 DEF ClearExperiment, memory
<1>8. CASE Cleared
  BY <1>8 DEF Cleared, disk, memory
<1>9. CASE Load
  BY <1>9 DEF Load, disk
<1>10. CASE LoadRefused
  BY <1>3, <1>10 DEF LoadRefused, disk
<1>11. CASE Truncate
  BY <1>11 DEF Truncate, memory
<1>12. CASE RewriteRow
  <2>1. loaded[pos] \in Row
    BY <1>12 DEF RewriteRow
  <2> QED BY <1>12, <2>1 DEF RewriteRow
<1>13. CASE Rewritten
  BY <1>13 DEF Rewritten, disk
<1>14. CASE Describe
  <2>1. experiment' \in SUBSET Experiment
    BY <1>14, ReportType, DescribedType DEF Describe
  <2> QED BY <1>14, <2>1 DEF Describe, memory
<1>15. CASE Open
  BY <1>15 DEF Open, memory
<1>16. CASE Skip
  BY <1>16 DEF Skip, disk
<1>17. CASE Attempt
  BY <1>17 DEF Attempt, disk, memory
<1>18. CASE GenerationFails
  BY <1>18, ReadyType DEF GenerationFails, Stages, Verdicts
<1>19. CASE FormatFails
  BY <1>19, ReadyType DEF FormatFails, Stages, Verdicts
<1>20. CASE Generated
  BY <1>20 DEF Generated, disk, memory
<1>21. CASE EvaluationEnds
  BY <1>21, ReadyType, VerdictsAssumption DEF EvaluationEnds, Stages
<1>22. CASE EvaluationRetries
  BY <1>22 DEF EvaluationRetries, disk
<1>23. CASE AppendRow
  BY <1>23 DEF AppendRow
<1>24. CASE Count
  <2>1. experiment' \in SUBSET Experiment
    BY <1>24, CountedType DEF Count
  <2> QED BY <1>24, <2>1 DEF Count
<1>25. CASE LoopDone
  BY <1>25 DEF LoopDone, disk, memory
<1>26. CASE Finish
  <2>1. experiment' \in SUBSET Experiment
    BY <1>26, CountedType DEF Finish
  <2> QED BY <1>3, <1>26, <2>1 DEF Finish
<1>27. CASE Interrupt
  <2>1. experiment' \in SUBSET Experiment
    BY <1>27, CountedType DEF Interrupt
  <2> QED BY <1>3, <1>27, <2>1 DEF Interrupt
<1>28. CASE Fail
  <2>1. experiment' \in SUBSET Experiment
    BY <1>28, CountedType DEF Fail
  <2> QED BY <1>3, <1>28, <2>1 DEF Fail
<1>29. CASE Kill
  <2>1. experiment' \in SUBSET Experiment /\ torn' \in BOOLEAN
    BY <1>29 DEF Kill
  <2> QED BY <1>3, <1>29, <2>1 DEF Kill
<1> QED
  BY <1>4, <1>5, <1>6, <1>7, <1>8, <1>9, <1>10, <1>11, <1>12, <1>13, <1>14,
     <1>15, <1>16, <1>17, <1>18, <1>19, <1>20, <1>21, <1>22, <1>23, <1>24,
     <1>25, <1>26, <1>27, <1>28, <1>29
  DEF Next, Opening, Looping, Disturbance

\* The variables keep their types, whatever is interrupted, killed or resumed.
THEOREM TypeCorrect == Spec => []TypeOK
<1>1. TypeInv => TypeOK
  BY DEF TypeInv
<1> QED BY <1>1, TypeInit, TypeStep, PTL DEF Spec
-----------------------------------------------------------------------------
(* No attempt is recorded twice *)

\* What the theorem asks of the selections: no key is planned twice.
DistinctPlans ==
  \A p \in Plans : \A i, j \in DOMAIN p : p[i] = p[j] => i = j

DistinctRows(rows) ==
  \A i, j \in DOMAIN rows : rows[i].key = rows[j].key => i = j

\* The plan positions the loop has recorded.
Behind == IF pc = "count" THEN pos ELSE pos - 1

\* A directory nobody used holds no row, and no session is at work in it.
UnusedIsEmpty == ~used => attempts = <<>> /\ pc = "idle"
\* Outside the two loops, positions start over.
StartOver == pc \in {"idle", "clear", "load", "truncate", "describe", "open"}
               => pos = 1
\* What is being rewritten is what was read, and the file holds its conclusive
\* rows up to the current position.
RewriteInv ==
  /\ pc \in {"truncate", "rewrite"} => DistinctRows(loaded)
  /\ pc = "truncate" => loaded = attempts
  /\ pc = "rewrite" =>
       \A j \in DOMAIN attempts : \E i \in DOMAIN loaded :
         /\ i < pos /\ i \notin Inconclusive(loaded)
         /\ attempts[j] = loaded[i]
\* In the loop, every recorded key was kept from before or lies behind.
LoopInv ==
  pc \in {"describe", "finish"} \cup LoopPoints =>
    \A j \in DOMAIN attempts :
      \/ attempts[j].key \in Existing
      \/ \E i \in DOMAIN Plan : i <= Behind /\ Plan[i] = attempts[j].key
\* The attempt in progress is of a key that no kept row answers.
AttemptInv ==
  /\ pc \in {"generate", "evaluate", "append"} => Plan[pos] \notin Existing
  /\ pc = "append" => \A row \in pending : row.key = Plan[pos]

DupInv ==
  /\ DistinctRows(attempts) /\ UnusedIsEmpty /\ StartOver
  /\ RewriteInv /\ LoopInv /\ AttemptInv

LEMMA AppendDistinct ==
  ASSUME NEW rows \in Seq(Row), DistinctRows(rows), NEW row \in Row,
         \A i \in DOMAIN rows : rows[i].key # row.key
  PROVE  DistinctRows(Append(rows, row))
<1> DEFINE new == Append(rows, row)
<1>1. /\ Len(rows) \in Nat /\ DOMAIN rows = 1..Len(rows)
      /\ DOMAIN new = 1..(Len(rows) + 1)
      /\ new[Len(rows) + 1] = row
      /\ \A i \in 1..Len(rows) : new[i] = rows[i]
  OBVIOUS
<1> SUFFICES ASSUME NEW i \in DOMAIN new, NEW j \in DOMAIN new,
                    new[i].key = new[j].key
             PROVE  i = j
  BY DEF DistinctRows
<1> HIDE DEF new
<1>2. CASE i \in 1..Len(rows) /\ j \in 1..Len(rows)
  BY <1>1, <1>2 DEF DistinctRows
<1>3. CASE i = Len(rows) + 1 /\ j \in 1..Len(rows)
  BY <1>1, <1>3
<1>4. CASE j = Len(rows) + 1 /\ i \in 1..Len(rows)
  BY <1>1, <1>4
<1> QED BY <1>1, <1>2, <1>3, <1>4

LEMMA DistinctIsNoDuplicate ==
  ASSUME NEW rows \in Seq(Row)
  PROVE  DistinctRows(rows) <=> ~HasDuplicate(rows)
<1>1. DOMAIN rows = 1..Len(rows) /\ Len(rows) \in Nat
  OBVIOUS
<1> QED BY <1>1 DEF DistinctRows, HasDuplicate

LEMMA EmptyDistinct == DistinctRows(<<>>)
BY DEF DistinctRows

LEMMA DupInit == Init => DupInv
<1> SUFFICES ASSUME Init PROVE DupInv
  OBVIOUS
<1>1. DistinctRows(attempts) /\ UnusedIsEmpty /\ StartOver
  BY EmptyDistinct DEF Init, UnusedIsEmpty, StartOver
<1>2. RewriteInv /\ LoopInv /\ AttemptInv
  BY DEF Init, RewriteInv, LoopInv, AttemptInv, LoopPoints
<1> QED BY <1>1, <1>2 DEF DupInv
\* A step that changes neither rows, loaded rows, position nor plan, and moves
\* the session between program points with the same obligations, keeps DupInv.
LEMMA ExistingSame ==
  ASSUME UNCHANGED loaded PROVE Existing' = Existing
BY DEF Existing, Inconclusive, Conclusive

\* When a session is over, only the rows on disk are left to speak of.
LEMMA EndKeepsDup ==
  ASSUME DupInv, End, UNCHANGED <<attempts, used>>, pc # "idle"
  PROVE  DupInv'
<1>1. DistinctRows(attempts)' /\ UnusedIsEmpty' /\ StartOver'
  BY DEF DupInv, End, Forget, UnusedIsEmpty, StartOver, DistinctRows
<1>2. RewriteInv' /\ LoopInv' /\ AttemptInv'
  BY DEF End, RewriteInv, LoopInv, AttemptInv, LoopPoints
<1> QED BY <1>1, <1>2 DEF DupInv

LEMMA ReadyKeepsDup ==
  ASSUME TypeInv, DupInv, pc \in {"generate", "evaluate"}, NEW stage,
         NEW retries, NEW result, Ready(stage, retries, result)
  PROVE  DupInv'
<1>1. Existing' = Existing
  BY ExistingSame DEF Ready
<1>2. DistinctRows(attempts)' /\ UnusedIsEmpty' /\ StartOver' /\ RewriteInv'
  BY DEF DupInv, Ready, UnusedIsEmpty, StartOver, DistinctRows, RewriteInv,
         disk
<1>3. LoopInv'
  BY <1>1 DEF DupInv, Ready, LoopInv, LoopPoints, Behind, Plan, disk
<1>4. AttemptInv'
  BY <1>1 DEF DupInv, Ready, AttemptInv, Plan
<1> QED BY <1>2, <1>3, <1>4 DEF DupInv

\* What is generated, or about to be appended, answers a key that no row on disk
\* answers.
LEMMA AttemptIsNew ==
  ASSUME DistinctPlans, TypeInv, DupInv, pc \in {"generate", "append"}
  PROVE  pos \in DOMAIN Plan /\ \A j \in DOMAIN attempts : attempts[j].key # Plan[pos]
<1>1. Plan \in Seq(Keys) /\ pos \in Nat \ {0} /\ pos <= Len(Plan)
  BY PlansAssumption DEF TypeInv, TypeOK, AttemptInPlan, Request, Plan
<1>2. pos \in DOMAIN Plan /\ DOMAIN Plan = 1..Len(Plan)
  BY <1>1
<1>3. \A i, j \in DOMAIN Plan : Plan[i] = Plan[j] => i = j
  BY DEF DistinctPlans, TypeInv, TypeOK, Request, Plan
<1>4. Plan[pos] \notin Existing
  BY DEF DupInv, AttemptInv
<1>5. ASSUME NEW j \in DOMAIN attempts
      PROVE  attempts[j].key # Plan[pos]
  <2>1. CASE attempts[j].key \in Existing
    BY <1>4, <2>1
  <2>2. ASSUME NEW i \in DOMAIN Plan, i <= pos - 1, Plan[i] = attempts[j].key
        PROVE  attempts[j].key # Plan[pos]
    <3>1. i # pos
      BY <1>1, <1>2, <2>2
    <3> QED BY <1>2, <1>3, <2>2, <3>1
  <2>3. \/ attempts[j].key \in Existing
        \/ \E i \in DOMAIN Plan : i <= pos - 1 /\ Plan[i] = attempts[j].key
    BY DEF DupInv, LoopInv, LoopPoints, Behind
  <2> QED BY <2>1, <2>2, <2>3
<1> QED BY <1>2, <1>5

LEMMA DupStep ==
  ASSUME DistinctPlans
  PROVE  TypeInv /\ DupInv /\ [Next]_vars => DupInv'
<1> SUFFICES ASSUME TypeInv, DupInv, [Next]_vars PROVE DupInv'
  OBVIOUS
<1>1. /\ attempts \in Seq(Row) /\ loaded \in Seq(Row) /\ pos \in Nat \ {0}
      /\ used \in BOOLEAN
  BY DEF TypeInv, TypeOK
<1>2. DOMAIN loaded = 1..Len(loaded) /\ Len(loaded) \in Nat
  BY <1>1
<1>3. Plan \in Seq(Keys) /\ DOMAIN Plan = 1..Len(Plan) /\ Len(Plan) \in Nat
  <2>1. Plan \in Seq(Keys)
    BY PlansAssumption DEF TypeInv, TypeOK, Request, Plan
  <2> QED BY <2>1
<1>5. pc \in {"generate", "evaluate", "append", "count"} => pos \in DOMAIN Plan
  BY <1>1, <1>3 DEF TypeInv, AttemptInPlan
<1> USE DEF DupInv
<1>6. CASE UNCHANGED vars
  <2> USE <1>6 DEF vars, disk, memory
  <2>1. Existing' = Existing
    BY ExistingSame
  <2>2. DistinctRows(attempts)' /\ UnusedIsEmpty' /\ StartOver' /\ RewriteInv'
    BY DEF UnusedIsEmpty, StartOver, DistinctRows, RewriteInv
  <2>3. LoopInv' /\ AttemptInv'
    BY <2>1 DEF LoopInv, Behind, Plan, AttemptInv
  <2> QED BY <2>2, <2>3
<1>7. ASSUME NEW m \in Modes, NEW req \in Request, Begin(m, req)
      PROVE DupInv'
  <2> USE <1>7 DEF Begin, memory
  <2>1. pc' \in {"describe", "load", "clear"}
    BY ModesAssumption
  <2>2. pc' = "describe" => attempts' = <<>>
    BY ModesAssumption DEF UnusedIsEmpty
  <2>3. DistinctRows(attempts)' /\ RewriteInv'
    BY <2>1 DEF DistinctRows, RewriteInv
  <2>4. UnusedIsEmpty' /\ StartOver'
    BY DEF UnusedIsEmpty, StartOver
  <2>5. pc' = "describe" => \A j \in DOMAIN attempts' : FALSE
    <3>1. DOMAIN <<>> = {}
      OBVIOUS
    <3> QED BY <2>2, <3>1
  <2>6. LoopInv'
    BY <2>1, <2>5 DEF LoopInv, LoopPoints
  <2>7. AttemptInv'
    BY <2>1 DEF AttemptInv
  <2> QED BY <2>3, <2>4, <2>6, <2>7
<1>8. CASE ClearAttempts
  <2> USE <1>8 DEF ClearAttempts, memory
  <2>1. DistinctRows(attempts)'
    BY EmptyDistinct
  <2>2. UnusedIsEmpty' /\ StartOver' /\ RewriteInv' /\ LoopInv' /\ AttemptInv'
    BY DEF UnusedIsEmpty, StartOver, RewriteInv, LoopInv, AttemptInv, LoopPoints
  <2> QED BY <2>1, <2>2
<1>9. CASE ClearExperiment \/ Cleared
  <2> USE <1>9 DEF ClearExperiment, Cleared, disk, memory
  <2>1. DistinctRows(attempts)' /\ UnusedIsEmpty' /\ StartOver' /\ RewriteInv'
    BY DEF UnusedIsEmpty, StartOver, DistinctRows, RewriteInv
  <2>2. LoopInv' /\ AttemptInv'
    BY DEF LoopInv, AttemptInv, LoopPoints
  <2> QED BY <2>1, <2>2
<1>10. CASE Load
  <2> USE <1>10 DEF Load, disk
  <2>1. DistinctRows(attempts)
    OBVIOUS
  <2>2. DistinctRows(attempts)' /\ UnusedIsEmpty' /\ StartOver' /\ RewriteInv'
    BY <2>1 DEF UnusedIsEmpty, StartOver, DistinctRows, RewriteInv
  <2>3. pc' = "describe" => \A j \in DOMAIN attempts' :
                              attempts'[j].key \in Existing'
    BY DEF Existing, Inconclusive
  <2>4. LoopInv' /\ AttemptInv'
    BY <2>3 DEF LoopInv, AttemptInv, LoopPoints
  <2> QED BY <2>2, <2>4
<1>11. CASE LoadRefused
  BY <1>11, EndKeepsDup DEF LoadRefused, disk
<1>12. CASE Truncate
  <2> USE <1>12 DEF Truncate, memory
  <2>1. DistinctRows(attempts)'
    BY EmptyDistinct
  <2>2. UnusedIsEmpty' /\ StartOver' /\ LoopInv' /\ AttemptInv'
    BY DEF UnusedIsEmpty, StartOver, LoopInv, AttemptInv, LoopPoints
  <2>3. RewriteInv'
    BY DEF RewriteInv, DistinctRows
  <2> QED BY <2>1, <2>2, <2>3
<1>13. CASE RewriteRow
  <2> USE <1>13 DEF RewriteRow
  <2>1. loaded[pos] \in Row /\ pos \in DOMAIN loaded
    BY <1>1, <1>2
  <2>2. \A j \in DOMAIN attempts : attempts[j].key # loaded[pos].key
    BY <1>1, <1>2, <2>1 DEF RewriteInv, DistinctRows
  <2>3. DistinctRows(attempts)'
    BY <1>1, <2>1, <2>2, AppendDistinct
  <2>4. UnusedIsEmpty' /\ StartOver' /\ LoopInv' /\ AttemptInv'
    BY DEF UnusedIsEmpty, StartOver, LoopInv, AttemptInv, LoopPoints
  <2>5. Conclusive(loaded[pos]) => pos \notin Inconclusive(loaded)
    BY DEF Inconclusive
  <2>6. ASSUME NEW j \in DOMAIN attempts'
        PROVE  \E i \in DOMAIN loaded :
                 i < pos + 1 /\ i \notin Inconclusive(loaded)
                 /\ attempts'[j] = loaded[i]
    <3>1. CASE attempts' = attempts
      BY <1>1, <1>2, <3>1, <2>6 DEF RewriteInv
    <3>2. CASE Conclusive(loaded[pos]) /\ attempts' = Append(attempts, loaded[pos])
      <4>1. \/ j \in DOMAIN attempts /\ attempts'[j] = attempts[j]
            \/ attempts'[j] = loaded[pos]
        BY <1>1, <2>1, <3>2, <2>6
      <4>2. CASE j \in DOMAIN attempts /\ attempts'[j] = attempts[j]
        <5>1. PICK i \in DOMAIN loaded : i < pos /\ i \notin Inconclusive(loaded)
                                         /\ attempts[j] = loaded[i]
          BY <4>2 DEF RewriteInv
        <5>2. i < pos + 1
          BY <1>1, <1>2, <5>1
        <5> QED BY <4>2, <5>1, <5>2
      <4>3. CASE attempts'[j] = loaded[pos]
        BY <1>1, <2>1, <2>5, <3>2, <4>3
      <4> QED BY <4>1, <4>2, <4>3
    <3> QED BY <3>1, <3>2
  <2>7. RewriteInv'
    BY <2>6 DEF RewriteInv, Inconclusive, Conclusive
  <2> QED BY <2>3, <2>4, <2>7
<1>14. CASE Rewritten
  <2> USE <1>14 DEF Rewritten, disk
  <2>1. DistinctRows(attempts)' /\ UnusedIsEmpty' /\ StartOver' /\ RewriteInv'
    BY DEF UnusedIsEmpty, StartOver, DistinctRows, RewriteInv
  <2>2. \A j \in DOMAIN attempts : attempts[j].key \in Existing
    BY DEF RewriteInv, Existing
  <2>3. LoopInv' /\ AttemptInv'
    BY <2>2, ExistingSame DEF LoopInv, AttemptInv
  <2> QED BY <2>1, <2>3
<1>15. CASE Describe
  <2> USE <1>15 DEF Describe, memory
  <2>1. DistinctRows(attempts)' /\ UnusedIsEmpty' /\ StartOver' /\ RewriteInv'
    BY DEF UnusedIsEmpty, StartOver, DistinctRows, RewriteInv
  <2>2. LoopInv' /\ AttemptInv'
    BY ExistingSame DEF LoopInv, AttemptInv, LoopPoints, Behind, Plan
  <2> QED BY <2>1, <2>2
<1>16. CASE Open
  <2> USE <1>16 DEF Open, memory
  <2>1. DistinctRows(attempts)'
    BY EmptyDistinct DEF DistinctRows
  <2>2. UnusedIsEmpty' /\ StartOver' /\ RewriteInv'
    BY DEF UnusedIsEmpty, StartOver, RewriteInv
  <2>3. LoopInv' /\ AttemptInv'
    BY ExistingSame DEF LoopInv, AttemptInv, LoopPoints, Behind, Plan
  <2> QED BY <2>1, <2>2, <2>3
<1>17. CASE Skip
  <2> USE <1>17 DEF Skip, disk
  <2>1. DistinctRows(attempts)' /\ UnusedIsEmpty' /\ StartOver' /\ RewriteInv'
    BY DEF UnusedIsEmpty, StartOver, DistinctRows, RewriteInv
  <2>2. LoopInv' /\ AttemptInv'
    BY <1>1, <1>3, ExistingSame DEF LoopInv, AttemptInv, LoopPoints, Behind, Plan
  <2> QED BY <2>1, <2>2
<1>18. CASE Attempt \/ Generated \/ EvaluationRetries \/ LoopDone
  <2> USE <1>18 DEF Attempt, Generated, EvaluationRetries, LoopDone, disk, memory
  <2>1. DistinctRows(attempts)' /\ UnusedIsEmpty' /\ StartOver' /\ RewriteInv'
    BY DEF UnusedIsEmpty, StartOver, DistinctRows, RewriteInv
  <2>2. LoopInv'
    BY ExistingSame DEF LoopInv, LoopPoints, Behind, Plan
  <2>3. AttemptInv'
    BY ExistingSame DEF AttemptInv, Plan
  <2> QED BY <2>1, <2>2, <2>3
<1>19. CASE GenerationFails \/ FormatFails \/ EvaluationEnds
  BY <1>19, ReadyKeepsDup DEF GenerationFails, FormatFails, EvaluationEnds
<1>20. CASE AppendRow
  <2> USE <1>20 DEF AppendRow
  <2>1. PICK row \in pending : attempts' = Append(attempts, row)
    OBVIOUS
  <2>2. row \in Row /\ row.key = Plan[pos]
    BY DEF TypeInv, TypeOK, AttemptInv
  <2>3. \A j \in DOMAIN attempts : attempts[j].key # row.key
    BY <2>2, AttemptIsNew
  <2>4. DistinctRows(attempts)'
    BY <1>1, <2>1, <2>2, <2>3, AppendDistinct
  <2>5. UnusedIsEmpty' /\ StartOver' /\ RewriteInv' /\ AttemptInv'
    BY ExistingSame DEF UnusedIsEmpty, StartOver, RewriteInv, AttemptInv, Plan
  <2>6. ASSUME NEW j \in DOMAIN attempts'
        PROVE  \/ attempts'[j].key \in Existing
               \/ \E i \in DOMAIN Plan : i <= pos /\ Plan[i] = attempts'[j].key
    <3>1. \/ j \in DOMAIN attempts /\ attempts'[j] = attempts[j]
          \/ attempts'[j] = row
      BY <1>1, <2>1, <2>2, <2>6
    <3>2. CASE j \in DOMAIN attempts /\ attempts'[j] = attempts[j]
      BY <1>1, <1>3, <3>2 DEF LoopInv, LoopPoints, Behind
    <3>3. CASE attempts'[j] = row
      BY <1>1, <1>5, <2>2, <3>3
    <3> QED BY <3>1, <3>2, <3>3
  <2>7. LoopInv'
    BY <2>6, ExistingSame DEF LoopInv, LoopPoints, Behind, Plan
  <2> QED BY <2>4, <2>5, <2>7
<1>21. CASE Count
  <2> USE <1>21 DEF Count
  <2>1. DistinctRows(attempts)' /\ UnusedIsEmpty' /\ StartOver' /\ RewriteInv'
    BY DEF UnusedIsEmpty, StartOver, DistinctRows, RewriteInv
  <2>2. LoopInv' /\ AttemptInv'
    BY <1>1, ExistingSame DEF LoopInv, AttemptInv, LoopPoints, Behind, Plan
  <2> QED BY <2>1, <2>2
<1>22. CASE Finish \/ Disturbance
  <2>1. pc # "idle" /\ End /\ UNCHANGED <<attempts, used>>
    BY <1>22, KillAssumption
    DEF Finish, Disturbance, Interrupt, Fail, Kill, LoopPoints
  <2> QED BY <2>1, EndKeepsDup
<1> QED
  BY <1>6, <1>7, <1>8, <1>9, <1>10, <1>11, <1>12, <1>13, <1>14, <1>15, <1>16,
     <1>17, <1>18, <1>19, <1>20, <1>21, <1>22
  DEF Next, Opening, Looping

\* When no selection plans a key twice, attempts.jsonl never holds two rows for
\* one key, wherever sessions are killed, and however often they are resumed.
THEOREM RowsAreDistinct ==
  ASSUME DistinctPlans PROVE Spec => []NoDuplicateRows
<1>1. TypeInv /\ DupInv => NoDuplicateRows
  BY DistinctIsNoDuplicate DEF TypeInv, TypeOK, DupInv, NoDuplicateRows
<1>2. TypeInv /\ DupInv /\ [Next]_vars => DupInv'
  BY DupStep
<1> QED BY <1>1, <1>2, TypeInit, TypeStep, DupInit, PTL DEF Spec

-----------------------------------------------------------------------------
(***************************************************************************)
(* What a reader of a run directory may rely on, for every value of the    *)
(* constants of LeaderboardRun: nothing conclusive is lost, the record     *)
(* never claims more than the rows show, and the directory is an           *)
(* AttemptLog.                                                             *)
(***************************************************************************)

\* What the theorems ask of the kills: none of them hits the opening steps.
KillsInLoop == KillPoints \subseteq LoopPoints \cup {"finish"}

\* The steps of the loop, and the steps that end a session.
Working ==
  \/ Skip \/ Attempt \/ GenerationFails \/ FormatFails \/ Generated
  \/ EvaluationEnds \/ EvaluationRetries \/ AppendRow \/ Count \/ LoopDone
Ending == LoadRefused \/ Finish \/ Disturbance

LEMMA NextCases ==
  Next => \/ \E m \in Modes, req \in Request : Begin(m, req)
          \/ ClearAttempts \/ ClearExperiment \/ Cleared \/ Load \/ Truncate
          \/ RewriteRow \/ Rewritten \/ Describe \/ Open \/ Working \/ Ending
BY DEF Next, Opening, Looping, Working, Ending

LEMMA WorkingFrame ==
  ASSUME Working
  PROVE  /\ UNCHANGED <<torn, used, mode, request, loaded>>
         /\ pc \in LoopPoints \ {"open"}
         /\ pc' \in (LoopPoints \ {"open"}) \cup {"finish"}
BY DEF Working, Skip, Attempt, GenerationFails, FormatFails, Generated,
   EvaluationEnds, EvaluationRetries, AppendRow, Count, LoopDone, Ready, disk,
   memory, LoopPoints

LEMMA EndingFrame ==
  ASSUME KillsInLoop, Ending
  PROVE  /\ End /\ UNCHANGED <<attempts, used>>
         /\ pc \in {"load", "finish"} \cup LoopPoints
         /\ pc = "load" => LoadRefused
         /\ pc # "load" => Finish \/ Disturbance
BY DEF KillsInLoop, Ending, LoadRefused, Finish, Disturbance, Interrupt, Fail,
   Kill, disk, LoopPoints

LEMMA BeginFrame ==
  ASSUME NEW m \in Modes, NEW req \in Request, Begin(m, req)
  PROVE  /\ pc = "idle" /\ mode' = m /\ request' = req /\ used' = TRUE
         /\ UNCHANGED <<attempts, torn, experiment, memory>>
         /\ \/ m = "fresh" /\ ~used /\ pc' = "describe"
            \/ m = "resume" /\ pc' = "load"
            \/ m = "force" /\ pc' = "clear"
BY ModesAssumption DEF Begin

-----------------------------------------------------------------------------
(* What the way a session started says of its memory and of the files *)

ModeInv ==
  /\ pc \in {"idle", "clear", "load"} => loaded = <<>>
  /\ pc \in {"load", "truncate", "rewrite"} => mode = "resume"
  /\ mode # "resume" => loaded = <<>>
  /\ pc \in {"describe", "open"} /\ mode # "resume" => attempts = <<>>
TornInv ==
  /\ ~used => ~torn
  /\ pc \in {"truncate", "rewrite", "describe", "finish"} \cup LoopPoints => ~torn
OpenInv == ModeInv /\ TornInv

LEMMA OpenInvInit == Init => OpenInv
BY DEF Init, OpenInv, ModeInv, TornInv

LEMMA OpenInvStep ==
  ASSUME KillsInLoop
  PROVE  TypeInv /\ DupInv /\ OpenInv /\ [Next]_vars => OpenInv'
<1> SUFFICES ASSUME TypeInv, DupInv, OpenInv, [Next]_vars PROVE OpenInv'
  OBVIOUS
<1> USE DEF OpenInv, ModeInv, TornInv
<1>1. CASE UNCHANGED vars
  BY <1>1 DEF vars, disk, memory
<1>2. ASSUME NEW m \in Modes, NEW req \in Request, Begin(m, req)
      PROVE  OpenInv'
  BY <1>2, BeginFrame DEF memory, LoopPoints, DupInv, UnusedIsEmpty
<1>3. CASE ClearAttempts \/ ClearExperiment \/ Cleared
  BY <1>3 DEF ClearAttempts, ClearExperiment, Cleared, disk, memory, LoopPoints
<1>4. CASE Load
  BY <1>4 DEF Load, disk, LoopPoints
<1>5. CASE Truncate \/ RewriteRow \/ Rewritten
  BY <1>5 DEF Truncate, RewriteRow, Rewritten, disk, memory, LoopPoints
<1>6. CASE Describe
  BY <1>6 DEF Describe, memory, LoopPoints
<1>9. CASE Open
  <2>1. ~torn
    BY <1>9 DEF Open, LoopPoints
  <2>2. ~torn'
    BY <1>9, <2>1 DEF Open
  <2>3. pc' = "scan" /\ UNCHANGED <<used, mode, loaded>>
    BY <1>9 DEF Open, memory
  <2> QED BY <2>2, <2>3 DEF LoopPoints
<1>7. CASE Working
  BY <1>7, WorkingFrame DEF LoopPoints
<1>8. CASE Ending
  <2>1. /\ End /\ UNCHANGED used /\ pc # "idle"
    BY <1>8, EndingFrame DEF LoopPoints
  <2>2. used
    BY <2>1 DEF DupInv, UnusedIsEmpty
  <2> QED BY <2>1, <2>2 DEF End, Forget, LoopPoints
<1> QED
  BY <1>1, <1>2, <1>3, <1>4, <1>5, <1>6, <1>7, <1>8, <1>9, NextCases

\* A session that opens its file finds in it what it is going to keep.
LEMMA OpenKeepsRows == OpenInv /\ Open => UNCHANGED attempts
BY DEF OpenInv, ModeInv, Open

-----------------------------------------------------------------------------
(* Conclusive rows are kept *)

Holds(rows, row) == \E j \in DOMAIN rows : rows[j] = row

KeptInv ==
  /\ pc \in {"describe", "finish"} \cup LoopPoints =>
       \A i \in DOMAIN loaded :
         Conclusive(loaded[i]) => Holds(attempts, loaded[i])
  /\ pc = "rewrite" =>
       \A i \in DOMAIN loaded :
         i < pos /\ Conclusive(loaded[i]) => Holds(attempts, loaded[i])

LEMMA AppendHolds ==
  ASSUME NEW rows \in Seq(Row), NEW row \in Row
  PROVE  /\ Holds(Append(rows, row), row)
         /\ \A r : Holds(rows, r) => Holds(Append(rows, row), r)
<1> DEFINE new == Append(rows, row)
<1>1. /\ DOMAIN rows = 1..Len(rows) /\ DOMAIN new = 1..(Len(rows) + 1)
      /\ Len(rows) \in Nat /\ new[Len(rows) + 1] = row
      /\ \A i \in 1..Len(rows) : new[i] = rows[i]
  OBVIOUS
<1> HIDE DEF new
<1>2. Len(rows) + 1 \in DOMAIN new /\ DOMAIN rows \subseteq DOMAIN new
  BY <1>1
<1>3. Holds(new, row) /\ \A r : Holds(rows, r) => Holds(new, r)
  BY <1>1, <1>2 DEF Holds
<1> QED BY <1>3 DEF new

LEMMA KeptInit == Init => KeptInv
BY DEF Init, KeptInv, LoopPoints

LEMMA KeptStep ==
  ASSUME KillsInLoop
  PROVE  TypeInv /\ DupInv /\ OpenInv /\ KeptInv /\ [Next]_vars => KeptInv'
<1> SUFFICES ASSUME TypeInv, DupInv, OpenInv, KeptInv, [Next]_vars
             PROVE  KeptInv'
  OBVIOUS
<1> USE DEF KeptInv
<1>1. attempts \in Seq(Row) /\ loaded \in Seq(Row) /\ pos \in Nat \ {0}
  BY DEF TypeInv, TypeOK
<1>2. DOMAIN loaded = 1..Len(loaded) /\ Len(loaded) \in Nat
  BY <1>1
<1>3. CASE UNCHANGED vars
  BY <1>3 DEF vars, disk, memory, Conclusive
<1>4. ASSUME NEW m \in Modes, NEW req \in Request, Begin(m, req)
      PROVE  KeptInv'
  <2>1. loaded' = <<>> /\ pc' \in {"describe", "load", "clear"}
    BY <1>4, BeginFrame DEF OpenInv, ModeInv, memory
  <2> QED BY <2>1
<1>5. CASE ClearAttempts \/ ClearExperiment \/ Cleared
  <2>1. loaded' = <<>> /\ pc' \in {"describe", "clear"}
    BY <1>5
    DEF ClearAttempts, ClearExperiment, Cleared, OpenInv, ModeInv, disk, memory
  <2> QED BY <2>1
<1>6. CASE Load
  <2>1. loaded' = attempts' /\ pc' \in {"describe", "truncate"}
    BY <1>6 DEF Load, disk
  <2> QED BY <2>1 DEF Holds, LoopPoints
<1>7. CASE Truncate
  <2>1. pc' = "rewrite" /\ pos' = 1 /\ loaded' = loaded
    BY <1>7 DEF Truncate, memory, DupInv, StartOver
  <2>2. \A i \in DOMAIN loaded' : ~(i < pos')
    BY <1>2, <2>1
  <2> QED BY <2>1, <2>2 DEF LoopPoints
<1>8. CASE RewriteRow
  <2>1. /\ pc = "rewrite" /\ pc' = "rewrite" /\ loaded' = loaded
        /\ pos' = pos + 1 /\ pos \in DOMAIN loaded
    BY <1>1, <1>2, <1>8 DEF RewriteRow
  <2>2. \A row : Holds(attempts, row) => Holds(attempts', row)
    BY <1>1, <1>8, <2>1, AppendHolds DEF RewriteRow
  <2>3. Conclusive(loaded[pos]) => Holds(attempts', loaded[pos])
    BY <1>1, <1>8, <2>1, AppendHolds DEF RewriteRow
  <2>4. \A i \in DOMAIN loaded : i < pos + 1 => i < pos \/ i = pos
    BY <1>1, <1>2
  <2> QED BY <2>1, <2>2, <2>3, <2>4 DEF LoopPoints, Conclusive
<1>9. CASE Rewritten
  <2>1. /\ pc = "rewrite" /\ pc' = "describe"
        /\ UNCHANGED <<loaded, attempts>> /\ pos > Len(loaded)
    BY <1>9 DEF Rewritten, disk
  <2>2. \A i \in DOMAIN loaded : i < pos
    BY <1>1, <1>2, <2>1
  <2> QED BY <2>1, <2>2 DEF Conclusive
<1>10. CASE Describe
  BY <1>10 DEF Describe, memory, LoopPoints, Conclusive
<1>11. CASE Open
  <2>1. attempts' = attempts
    BY <1>11, OpenKeepsRows
  <2> QED BY <1>11, <2>1 DEF Open, memory, LoopPoints, Conclusive
<1>12. CASE Working
  <2>1. \A row : Holds(attempts, row) => Holds(attempts', row)
    <3>1. CASE AppendRow
      BY <1>1, <3>1, AppendHolds DEF AppendRow, TypeInv, TypeOK
    <3>2. CASE ~AppendRow
      <4>1. attempts' = attempts
        BY <1>12, <3>2
        DEF Working, Skip, Attempt, GenerationFails, FormatFails, Generated,
            EvaluationEnds, EvaluationRetries, Count, LoopDone, Ready, disk
      <4> QED BY <4>1
    <3> QED BY <3>1, <3>2
  <2> QED BY <1>12, <2>1, WorkingFrame DEF LoopPoints, Conclusive
<1>13. CASE Ending
  BY <1>13, EndingFrame DEF End, LoopPoints
<1> QED
  BY <1>3, <1>4, <1>5, <1>6, <1>7, <1>8, <1>9, <1>10, <1>11, <1>12, <1>13,
     NextCases

\* What a session skips is answered on disk.
LEMMA ExistingAnswered ==
  ASSUME KeptInv, pc \in {"describe", "finish"} \cup LoopPoints
  PROVE  Existing \subseteq KeysOf(attempts)
BY DEF KeptInv, Holds, Existing, Inconclusive, KeysOf

KeptAll == TypeInv /\ DupInv /\ OpenInv /\ KeptInv

LEMMA KeptAlways ==
  ASSUME DistinctPlans, KillsInLoop
  PROVE  Spec => []KeptAll
<1>1. Init => KeptAll
  BY TypeInit, DupInit, OpenInvInit, KeptInit DEF KeptAll
<1>2. KeptAll /\ [Next]_vars => KeptAll'
  BY TypeStep, DupStep, OpenInvStep, KeptStep DEF KeptAll
<1> QED BY <1>1, <1>2, PTL DEF Spec

\* When no selection repeats a key and no kill hits the opening steps, no session
\* that resumes ends with a conclusive row fewer than it read, however it ends
\* (_load_existing_attempts, _rewrite_attempts and the mode of open).
THEOREM ConclusiveRowsAreKept ==
  ASSUME DistinctPlans, KillsInLoop
  PROVE  Spec => ConclusiveKept
<1> DEFINE Kept == pc # "clear" /\ pc' = "idle" =>
                     \A i \in DOMAIN loaded : Conclusive(loaded[i]) =>
                       \E j \in DOMAIN attempts' : attempts'[j] = loaded[i]
<1>1. ASSUME KeptAll, [Next]_vars PROVE [Kept]_vars
  <2> SUFFICES ASSUME Next, pc # "clear", pc' = "idle",
                      NEW i \in DOMAIN loaded, Conclusive(loaded[i])
               PROVE  Holds(attempts', loaded[i])
    BY <1>1 DEF Holds
  <2>1. Ending
    <3>1. ASSUME NEW m \in Modes, NEW req \in Request, Begin(m, req)
          PROVE  FALSE
      BY <3>1, BeginFrame
    <3>2. ~Working
      BY WorkingFrame DEF LoopPoints
    <3> QED
      BY <3>1, <3>2, NextCases
      DEF ClearAttempts, ClearExperiment, Cleared, Load, Truncate, RewriteRow,
          Rewritten, Describe, Open
  <2>2. attempts' = attempts /\ pc \in {"load", "finish"} \cup LoopPoints
    BY <2>1, EndingFrame
  <2>3. CASE pc = "load"
    BY <1>1, <2>3 DEF KeptAll, OpenInv, ModeInv
  <2>4. CASE pc # "load"
    BY <1>1, <2>2, <2>4 DEF KeptAll, KeptInv
  <2> QED BY <2>3, <2>4
<1>2. Spec => [][Kept]_vars
  BY <1>1, KeptAlways, PTL DEF Spec
<1> QED BY <1>2 DEF ConclusiveKept

-----------------------------------------------------------------------------
(* The record never claims more than the rows show *)

Left(plan, keys) == {i \in DOMAIN plan : plan[i] \notin keys}

\* Positions of a plan are finitely many.
LEMMA PlanPositions ==
  ASSUME NEW plan \in Seq(Keys)
  PROVE  /\ DOMAIN plan = 1..Len(plan) /\ Len(plan) \in Nat
         /\ IsFiniteSet(1..Len(plan)) /\ Cardinality(1..Len(plan)) = Len(plan)
<1>1. DOMAIN plan = 1..Len(plan) /\ Len(plan) \in Nat
  OBVIOUS
<1>2. Len(plan) \in Int /\ 1 \in Int
  BY <1>1
<1>3. /\ IsFiniteSet(1..Len(plan))
      /\ Cardinality(1..Len(plan)) =
           IF 1 > Len(plan) THEN 0 ELSE Len(plan) - 1 + 1
  BY <1>2, FS_Interval
<1> QED BY <1>1, <1>3

LEMMA LeftIsFinite ==
  ASSUME NEW plan \in Seq(Keys), NEW keys
  PROVE  IsFiniteSet(Left(plan, keys)) /\ Cardinality(Left(plan, keys)) \in Nat
<1>1. Left(plan, keys) \subseteq 1..Len(plan)
  BY PlanPositions DEF Left
<1>2. IsFiniteSet(Left(plan, keys))
  BY <1>1, PlanPositions, FS_Subset
<1> QED BY <1>2, FS_CardinalityType

\* When the first n positions are answered, at most the others are left ...
LEMMA LeftBehind ==
  ASSUME NEW plan \in Seq(Keys), NEW keys, NEW n \in Nat,
         \A i \in DOMAIN plan : i <= n => plan[i] \in keys
  PROVE  Cardinality(Left(plan, keys)) <= NonNegative(Len(plan) - n)
<1>1. Left(plan, keys) \subseteq (n + 1)..Len(plan)
  BY PlanPositions DEF Left
<1>2. /\ IsFiniteSet((n + 1)..Len(plan))
      /\ Cardinality((n + 1)..Len(plan)) =
           IF n + 1 > Len(plan) THEN 0 ELSE Len(plan) - (n + 1) + 1
  <2>1. n + 1 \in Int /\ Len(plan) \in Int
    OBVIOUS
  <2> QED BY <2>1, FS_Interval
<1>3. Cardinality(Left(plan, keys)) <= Cardinality((n + 1)..Len(plan))
  BY <1>1, <1>2, FS_Subset
<1>4. Cardinality((n + 1)..Len(plan)) = NonNegative(Len(plan) - n)
  BY <1>2, PlanPositions DEF NonNegative
<1> QED BY <1>3, <1>4

\* ... as when some of the answers are counted ...
LEMMA LeftOfAnswered ==
  ASSUME NEW plan \in Seq(Keys), NEW keys, NEW some, some \subseteq keys
  PROVE  Cardinality(Left(plan, keys)) <= Len(plan) - PositionsIn(plan, some)
<1> DEFINE D == 1..Len(plan)
           P == {i \in DOMAIN plan : plan[i] \in some}
<1>1. P \subseteq D /\ Left(plan, keys) \subseteq D \ P
  BY PlanPositions DEF Left
<1>2. IsFiniteSet(D) /\ Cardinality(D) = Len(plan)
  BY PlanPositions
<1> HIDE DEF D, P
<1>3. /\ IsFiniteSet(D \ P)
      /\ Cardinality(D \ P) = Cardinality(D) - Cardinality(D \cap P)
  BY <1>2, FS_Difference
<1>4. D \cap P = P
  BY <1>1
<1>5. Cardinality(Left(plan, keys)) <= Cardinality(D \ P)
  BY <1>1, <1>3, FS_Subset
<1>6. PositionsIn(plan, some) = Cardinality(P)
  BY DEF PositionsIn, P
<1> QED BY <1>2, <1>3, <1>4, <1>5, <1>6

\* ... and more answers leave less.
LEMMA LeftShrinks ==
  ASSUME NEW plan \in Seq(Keys), NEW keys, NEW more, keys \subseteq more
  PROVE  Cardinality(Left(plan, more)) <= Cardinality(Left(plan, keys))
<1>1. Left(plan, more) \subseteq Left(plan, keys)
  BY DEF Left
<1> QED BY <1>1, LeftIsFinite, FS_Subset

LEMMA UnansweredIsLeft ==
  ASSUME NEW plan PROVE Unanswered(plan) = Left(plan, KeysOf(attempts))
BY DEF Unanswered, Left

\* The points of the loop at which the counters stand for positions.
Counting == (LoopPoints \ {"open"}) \cup {"finish"}

ProgressInv ==
  /\ pc \in Counting =>
       /\ written + skipped = pos - 1
       /\ \A i \in DOMAIN Plan : i <= Behind => Plan[i] \in KeysOf(attempts)
  /\ pc \notin Counting => written = 0 /\ skipped = 0
  /\ pc = "finish" => pos > Len(Plan)

LEMMA ProgressInit == Init => ProgressInv
BY DEF Init, ProgressInv, Counting, LoopPoints

LEMMA ProgressStep ==
  ASSUME DistinctPlans, KillsInLoop
  PROVE  KeptAll /\ ProgressInv /\ [Next]_vars => ProgressInv'
<1> SUFFICES ASSUME KeptAll, ProgressInv, [Next]_vars PROVE ProgressInv'
  OBVIOUS
<1> USE DEF ProgressInv, Counting, LoopPoints
<1>1. /\ attempts \in Seq(Row) /\ pos \in Nat \ {0}
      /\ written \in Nat /\ skipped \in Nat
  BY DEF KeptAll, TypeInv, TypeOK
<1>2. Plan \in Seq(Keys) /\ DOMAIN Plan = 1..Len(Plan) /\ Len(Plan) \in Nat
  <2>1. Plan \in Seq(Keys)
    BY PlansAssumption DEF KeptAll, TypeInv, TypeOK, Request, Plan
  <2> QED BY <2>1
<1>3. CASE UNCHANGED vars
  BY <1>3 DEF vars, disk, memory, Behind, Plan, KeysOf
<1>4. ASSUME NEW m \in Modes, NEW req \in Request, Begin(m, req)
      PROVE  ProgressInv'
  BY <1>4, BeginFrame DEF memory
<1>5. CASE ClearAttempts \/ ClearExperiment \/ Cleared \/ Load \/ Truncate
           \/ RewriteRow \/ Rewritten \/ Describe
  <2>1. /\ pc \in {"clear", "load", "truncate", "rewrite", "describe"}
        /\ pc' \in {"clear", "describe", "truncate", "rewrite", "open"}
        /\ UNCHANGED <<written, skipped>>
    BY <1>5
    DEF ClearAttempts, ClearExperiment, Cleared, Load, Truncate, RewriteRow,
        Rewritten, Describe, disk, memory
  <2> QED BY <2>1
<1>6. CASE Open
  <2>1. /\ pc = "open" /\ pc' = "scan" /\ pos = 1
        /\ UNCHANGED <<pos, written, skipped, request>>
    BY <1>6 DEF Open, memory, KeptAll, DupInv, StartOver
  <2> QED BY <1>2, <2>1 DEF Behind, Plan
<1>7. CASE Skip
  <2>1. /\ pc = "scan" /\ pc' = "scan" /\ pos' = pos + 1
        /\ written' = written /\ skipped' = skipped + 1
        /\ UNCHANGED <<request, attempts>>
    BY <1>7 DEF Skip, disk
  <2>2. Plan[pos] \in KeysOf(attempts)
    BY <1>7, <2>1, ExistingAnswered DEF Skip, KeptAll
  <2>3. \A i \in DOMAIN Plan : i <= pos => Plan[i] \in KeysOf(attempts)
    BY <1>1, <1>2, <2>1, <2>2 DEF Behind
  <2> QED BY <1>1, <1>2, <2>1, <2>3 DEF Behind, Plan, KeysOf
<1>8. CASE Attempt \/ Generated \/ EvaluationRetries \/ LoopDone
  BY <1>8
  DEF Attempt, Generated, EvaluationRetries, LoopDone, disk, memory, Behind,
      Plan, KeysOf
<1>9. CASE GenerationFails \/ FormatFails \/ EvaluationEnds
  BY <1>9
  DEF GenerationFails, FormatFails, EvaluationEnds, Ready, disk, Behind, Plan,
      KeysOf
<1>10. CASE AppendRow
  <2>1. /\ pc = "append" /\ pc' = "count"
        /\ UNCHANGED <<pos, written, skipped, request>>
    BY <1>10 DEF AppendRow
  <2>2. PICK row \in pending : attempts' = Append(attempts, row)
    BY <1>10 DEF AppendRow
  <2>3. row \in Row /\ row.key = Plan[pos]
    BY <2>1, <2>2 DEF KeptAll, TypeInv, TypeOK, DupInv, AttemptInv
  <2>4. KeysOf(attempts) \cup {Plan[pos]} \subseteq KeysOf(attempts')
    <3>1. \A r : Holds(attempts', r) => r.key \in KeysOf(attempts')
      BY DEF Holds, KeysOf
    <3>2. Holds(attempts', row) /\ \A r : Holds(attempts, r) => Holds(attempts', r)
      BY <1>1, <2>2, <2>3, AppendHolds
    <3>3. \A j \in DOMAIN attempts : Holds(attempts, attempts[j])
      BY DEF Holds
    <3> QED BY <2>3, <3>1, <3>2, <3>3 DEF KeysOf
  <2>5. \A i \in DOMAIN Plan : i <= pos => Plan[i] \in KeysOf(attempts')
    BY <1>1, <1>2, <2>1, <2>4 DEF Behind
  <2> QED BY <2>1, <2>5 DEF Behind, Plan, KeysOf
<1>11. CASE Count
  <2>1. /\ pc = "count" /\ pc' = "scan" /\ pos' = pos + 1
        /\ written' = written + 1 /\ skipped' = skipped
        /\ UNCHANGED <<request, attempts>>
    BY <1>11 DEF Count
  <2>2. Behind' = Behind
    BY <1>1, <2>1 DEF Behind
  <2> QED BY <1>1, <2>1, <2>2 DEF Plan, KeysOf
<1>12. CASE Ending
  BY <1>12, EndingFrame DEF End, Forget
<1> QED
  BY <1>3, <1>4, <1>5, <1>6, <1>7, <1>8, <1>9, <1>10, <1>11, <1>12, NextCases
  DEF Working

Honest(e) == Cardinality(Unanswered(e.plan)) <= e.missing

RecordInv ==
  /\ pc \in LoopPoints \cup {"finish", "idle", "load"} =>
       \A e \in experiment : Honest(e)
  /\ pc \in LoopPoints \cup {"finish"} =>
       \A e \in experiment : e.status = "running"
  /\ pc \in {"idle", "load"} =>
       \A e \in experiment : e.status = "complete" => e.missing = 0 /\ ~torn

LEMMA RecordInit == Init => RecordInv
BY DEF Init, RecordInv, LoopPoints

\* A recount covers what is left when its counters stand for answered positions.
LEMMA CountedIsHonest ==
  ASSUME TypeInv, NEW status, NEW w \in Nat, NEW s \in Nat,
         \A i \in DOMAIN Plan : i <= w + s => Plan[i] \in KeysOf(attempts)
  PROVE  \A e \in Counted(status, w, s) :
           /\ Honest(e) /\ e.status = status
           /\ w + s >= Len(Plan) => e.missing = 0
<1>1. Plan \in Seq(Keys) /\ Len(Plan) \in Nat
  BY PlansAssumption DEF TypeInv, TypeOK, Request, Plan
<1>2. Len(Plan) - w - s = Len(Plan) - (w + s) /\ w + s \in Nat
  BY <1>1
<1>3. Cardinality(Unanswered(Plan)) <= NonNegative(Len(Plan) - (w + s))
  BY <1>1, <1>2, LeftBehind, UnansweredIsLeft
<1>4. w + s >= Len(Plan) => NonNegative(Len(Plan) - (w + s)) = 0
  BY <1>1 DEF NonNegative
<1> QED BY <1>2, <1>3, <1>4 DEF Counted, Report, Honest

\* In the loop, the session's counters do.
LEMMA CountersAnswered ==
  ASSUME KeptAll, ProgressInv, pc \in LoopPoints \cup {"finish"}
  PROVE  /\ written \in Nat /\ skipped \in Nat
         /\ \A i \in DOMAIN Plan : i <= written + skipped =>
              Plan[i] \in KeysOf(attempts)
         /\ pc = "count" => \A i \in DOMAIN Plan : i <= written + 1 + skipped =>
              Plan[i] \in KeysOf(attempts)
         /\ pc = "finish" => written + skipped >= Len(Plan)
<1>1. Plan \in Seq(Keys) /\ pos \in Nat \ {0} /\ written \in Nat /\ skipped \in Nat
  BY PlansAssumption DEF KeptAll, TypeInv, TypeOK, Request, Plan
<1>2. DOMAIN Plan = 1..Len(Plan) /\ Len(Plan) \in Nat
  BY <1>1
<1>3. CASE pc = "open"
  <2>1. written + skipped = 0
    BY <1>3 DEF ProgressInv, Counting
  <2> QED BY <1>1, <1>2, <1>3, <2>1
<1>4. CASE pc # "open"
  BY <1>1, <1>2, <1>4 DEF ProgressInv, Counting, Behind
<1> QED BY <1>3, <1>4

LEMMA HonestStays ==
  ASSUME KeysOf(attempts) \subseteq KeysOf(attempts'),
         NEW e \in Experiment, Honest(e)
  PROVE  Honest(e)'
<1>1. e.plan \in Seq(Keys) /\ e.missing \in Nat
  BY PlansAssumption DEF Experiment
<1>2. /\ Cardinality(Left(e.plan, KeysOf(attempts'))) \in Nat
      /\ Cardinality(Left(e.plan, KeysOf(attempts))) \in Nat
      /\ Cardinality(Left(e.plan, KeysOf(attempts'))) <=
           Cardinality(Left(e.plan, KeysOf(attempts)))
  BY <1>1, LeftIsFinite, LeftShrinks
<1>3. Unanswered(e.plan) = Left(e.plan, KeysOf(attempts))
  BY UnansweredIsLeft
<1>4. Unanswered(e.plan)' = Left(e.plan, KeysOf(attempts'))
  BY DEF Unanswered, Left, KeysOf
<1> QED BY <1>1, <1>2, <1>3, <1>4 DEF Honest

LEMMA RecordStep ==
  ASSUME KillsInLoop
  PROVE  KeptAll /\ ProgressInv /\ RecordInv /\ [Next]_vars => RecordInv'
<1> SUFFICES ASSUME KeptAll, ProgressInv, RecordInv, [Next]_vars
             PROVE  RecordInv'
  OBVIOUS
<1> USE DEF RecordInv, LoopPoints
<1>1. experiment \in SUBSET Experiment /\ attempts \in Seq(Row) /\ TypeInv
  BY DEF KeptAll, TypeInv, TypeOK
<1>2. KeysOf(attempts) \subseteq KeysOf(attempts') =>
        \A e \in experiment : Honest(e) => Honest(e)'
  BY <1>1, HonestStays
<1>3. attempts' = attempts => KeysOf(attempts) \subseteq KeysOf(attempts')
  BY DEF KeysOf
<1>4. CASE UNCHANGED vars
  BY <1>2, <1>3, <1>4 DEF vars, disk
<1>5. ASSUME NEW m \in Modes, NEW req \in Request, Begin(m, req)
      PROVE  RecordInv'
  BY <1>2, <1>3, <1>5, BeginFrame
<1>6. CASE ClearAttempts \/ ClearExperiment \/ Cleared \/ Load \/ Truncate
           \/ RewriteRow \/ Rewritten
  <2>1. pc' \in {"clear", "describe", "truncate", "rewrite"}
    BY <1>6
    DEF ClearAttempts, ClearExperiment, Cleared, Load, Truncate, RewriteRow,
        Rewritten
  <2> QED BY <2>1
<1>7. CASE Describe
  <2>1. Plan \in Seq(Keys)
    BY <1>1, PlansAssumption DEF TypeInv, TypeOK, Request, Plan
  <2>2. Existing \subseteq KeysOf(attempts)
    BY <1>7, ExistingAnswered DEF Describe, KeptAll
  <2>3. Cardinality(Unanswered(Plan)) <= Len(Plan) - PositionsIn(Plan, Existing)
    BY <2>1, <2>2, LeftOfAnswered, UnansweredIsLeft
  <2>4. /\ attempts' = attempts /\ pc' = "open"
        /\ \A e \in experiment' : /\ e.status = "running" /\ e.plan = Plan
                                  /\ e.missing = Len(Plan) - PositionsIn(Plan, Existing)
    BY <1>7 DEF Describe, Report
  <2>5. \A e \in experiment' : Honest(e)'
    BY <2>3, <2>4 DEF Honest, Unanswered, KeysOf
  <2> QED BY <2>4, <2>5
<1>8. CASE Open
  <2>1. attempts' = attempts
    BY <1>8, OpenKeepsRows DEF KeptAll
  <2> QED BY <1>2, <1>3, <1>8, <2>1 DEF Open
<1>9. CASE AppendRow
  <2>1. PICK row \in pending : attempts' = Append(attempts, row)
    BY <1>9 DEF AppendRow
  <2>2. row \in Row
    BY <1>1 DEF TypeInv, TypeOK
  <2>3. \A r : Holds(attempts, r) => Holds(attempts', r)
    BY <1>1, <2>1, <2>2, AppendHolds
  <2>4. KeysOf(attempts) \subseteq KeysOf(attempts')
    BY <2>3 DEF Holds, KeysOf
  <2> QED BY <1>2, <1>9, <2>4 DEF AppendRow
<1>10. CASE Count
  <2>1. /\ attempts' = attempts /\ pc' = "scan"
        /\ experiment' = Counted("running", written + 1, skipped)
    BY <1>10 DEF Count
  <2>2. \A e \in experiment' : Honest(e) /\ e.status = "running"
    BY <1>1, <1>10, <2>1, CountersAnswered, CountedIsHonest DEF Count
  <2>3. \A e \in experiment' : Honest(e)'
    BY <2>1, <2>2 DEF Honest, Unanswered, KeysOf
  <2> QED BY <2>1, <2>2, <2>3
<1>11. CASE Working /\ ~AppendRow /\ ~Count
  <2>1. UNCHANGED <<attempts, experiment>>
    BY <1>11
    DEF Working, Skip, Attempt, GenerationFails, FormatFails, Generated,
        EvaluationEnds, EvaluationRetries, LoopDone, Ready, disk
  <2> QED BY <1>2, <1>3, <1>11, <2>1, WorkingFrame
<1>12. CASE LoadRefused
  <2>1. /\ UNCHANGED <<attempts, experiment, torn>>
        /\ pc = "load" /\ pc' = "idle"
    BY <1>12 DEF LoadRefused, End, disk
  <2> QED BY <1>2, <1>3, <2>1
<1>13. CASE Finish \/ Interrupt \/ Fail
  <2>1. /\ attempts' = attempts /\ torn' = torn /\ pc' = "idle"
        /\ pc \in LoopPoints \cup {"finish"}
    BY <1>13 DEF Finish, Interrupt, Fail, End
  <2>2. \E status : experiment' = Counted(status, written, skipped)
                    /\ (status = "complete" => pc = "finish")
    BY <1>13 DEF Finish, Interrupt, Fail
  <2>3. \A e \in experiment' : /\ Honest(e)
                               /\ e.status = "complete" => e.missing = 0 /\ ~torn
    BY <1>1, <2>1, <2>2, CountersAnswered, CountedIsHonest
    DEF KeptAll, OpenInv, TornInv
  <2>4. \A e \in experiment' : Honest(e)'
    BY <2>1, <2>3 DEF Honest, Unanswered, KeysOf
  <2> QED BY <2>1, <2>3, <2>4
<1>14. CASE Kill
  <2>1. /\ attempts' = attempts /\ experiment' \subseteq experiment
        /\ pc' = "idle" /\ pc \in LoopPoints \cup {"finish"}
    BY <1>14 DEF Kill, End, KillsInLoop
  <2> QED BY <1>2, <1>3, <2>1
<1> QED
  BY <1>4, <1>5, <1>6, <1>7, <1>8, <1>9, <1>10, <1>11, <1>12, <1>13, <1>14,
     NextCases
  DEF Ending, Disturbance

HonestAll == KeptAll /\ ProgressInv /\ RecordInv

LEMMA HonestAlways ==
  ASSUME DistinctPlans, KillsInLoop
  PROVE  Spec => []HonestAll
<1>1. Init => HonestAll
  BY TypeInit, DupInit, OpenInvInit, KeptInit, ProgressInit, RecordInit
  DEF HonestAll, KeptAll
<1>2. HonestAll /\ [Next]_vars => HonestAll'
  BY TypeStep, DupStep, OpenInvStep, KeptStep, ProgressStep, RecordStep
  DEF HonestAll, KeptAll
<1> QED BY <1>1, <1>2, PTL DEF Spec

\* A reader of experiment.json is never told that fewer attempts are missing than
\* attempts.jsonl leaves unanswered, at any moment between the first record of a
\* session and its end, whatever interrupts it (_update_attempt_counts).
THEOREM MissingIsHonest ==
  ASSUME DistinctPlans, KillsInLoop
  PROVE  Spec => []MissingNeverUnderstated
<1>1. HonestAll => MissingNeverUnderstated
  BY DEF HonestAll, RecordInv, Honest, MissingNeverUnderstated
<1> QED BY <1>1, HonestAlways, PTL

LEMMA HonestComplete ==
  ASSUME HonestAll PROVE CompleteMeansAnswered
<1> SUFFICES ASSUME pc = "idle", NEW e \in experiment, e.status = "complete"
             PROVE  Unanswered(e.plan) = {} /\ e.missing = 0
  BY DEF CompleteMeansAnswered
<1>1. e.missing = 0 /\ Cardinality(Unanswered(e.plan)) <= 0
  BY DEF HonestAll, RecordInv, Honest
<1>2. e.plan \in Seq(Keys)
  BY PlansAssumption DEF HonestAll, KeptAll, TypeInv, TypeOK, Experiment
<1>3. /\ IsFiniteSet(Unanswered(e.plan))
      /\ Cardinality(Unanswered(e.plan)) \in Nat
  BY <1>2, LeftIsFinite, UnansweredIsLeft
<1>4. Cardinality(Unanswered(e.plan)) = 0
  BY <1>1, <1>3
<1> QED BY <1>1, <1>3, <1>4, FS_EmptySet

\* A directory at rest whose record says "complete" has a row for every attempt
\* of the plan that the record names (_finalize_experiment).
THEOREM CompleteIsAnswered ==
  ASSUME DistinctPlans, KillsInLoop
  PROVE  Spec => []CompleteMeansAnswered
BY HonestComplete, HonestAlways, PTL

-----------------------------------------------------------------------------
(* The directory is an AttemptLog *)

KeptRows(rows) == {r \in RowSet(rows) : Conclusive(r)}
LogRows == IF pc = "rewrite" THEN KeptRows(loaded) ELSE RowSet(attempts)
LogStatus ==
  IF pc = "clear" THEN "wiping" ELSE IF pc # "idle" THEN "running"
  ELSE IF Complete THEN "complete" ELSE "idle"

LEMMA LogVarsAre ==
  /\ UNCHANGED Log!logVars <=>
       LogRows' = LogRows /\ LogStatus' = LogStatus /\ KeySet(Plan)' = KeySet(Plan)
BY DEF Log!logVars, LogRows, LogStatus, KeptRows, RowSet, Complete, Conclusive,
   KeySet, Plan

LEMMA LogInit == Init => Log!Init
<1> SUFFICES ASSUME Init PROVE Log!Init
  OBVIOUS
<1>1. RowSet(attempts) = {}
  BY DEF Init, RowSet
<1>2. KeySet(Plan) \in {KeySet(p) : p \in Plans}
  BY DEF Init, Request, Plan
<1> QED BY <1>1, <1>2 DEF Init, Log!Init, Complete

LEMMA LogStep ==
  ASSUME DistinctPlans, KillsInLoop
  PROVE  HonestAll /\ [Next]_vars => [Log!Next]_Log!logVars
<1> SUFFICES ASSUME HonestAll, [Next]_vars PROVE [Log!Next]_Log!logVars
  OBVIOUS
<1> USE DEF HonestAll, KeptAll
<1>1. /\ attempts \in Seq(Row) /\ loaded \in Seq(Row) /\ request \in Request
      /\ pos \in Nat \ {0} /\ experiment \in SUBSET Experiment
  BY DEF TypeInv, TypeOK
<1>2. CASE UNCHANGED vars
  <2>1. UNCHANGED Log!logVars
    BY <1>2, LogVarsAre
    DEF vars, disk, memory, LogRows, LogStatus, Complete, KeptRows, RowSet,
        KeySet, Plan, Conclusive
  <2> QED BY <2>1
<1>3. ASSUME NEW m \in Modes, NEW req \in Request, Begin(m, req)
      PROVE  [Log!Next]_Log!logVars
  <2>1. /\ pc = "idle" /\ pc' \in {"describe", "load", "clear"}
        /\ UNCHANGED attempts /\ request' = req
    BY <1>3, BeginFrame
  <2>2. LogRows' = LogRows /\ LogStatus \in {"idle", "complete"}
        /\ LogStatus' \in {"running", "wiping"}
    BY <2>1 DEF LogRows, LogStatus, RowSet
  <2>3. KeySet(Plan)' = KeySet(req.plan) /\ req.plan \in Plans
    BY <2>1 DEF KeySet, Plan, Request
  <2>4. Log!Start(KeySet(req.plan))
    BY <2>2, <2>3 DEF Log!Start, LogRows, LogStatus, KeptRows
  <2> QED BY <2>3, <2>4 DEF Log!Next
<1>4. CASE ClearAttempts
  <2>1. /\ pc = "clear" /\ pc' = "clear" /\ UNCHANGED request
        /\ RowSet(attempts)' = {}
    BY <1>4 DEF ClearAttempts, RowSet
  <2>2. Log!Wipe
    BY <2>1 DEF Log!Wipe, KeySet, Plan
  <2> QED BY <2>2 DEF Log!Next
<1>5. CASE Cleared
  <2>1. /\ pc = "clear" /\ pc' = "describe" /\ UNCHANGED request
        /\ RowSet(attempts) = {} /\ RowSet(attempts)' = {}
    BY <1>5 DEF Cleared, RowSet, disk
  <2>2. Log!Wiped
    BY <2>1 DEF Log!Wiped, KeySet, Plan
  <2> QED BY <2>2 DEF Log!Next
<1>6. CASE Truncate
  <2>1. /\ pc = "truncate" /\ pc' = "rewrite" /\ UNCHANGED <<request, loaded>>
        /\ loaded = attempts
    BY <1>6 DEF Truncate, memory, DupInv, RewriteInv
  <2>2. Log!Requeue
    BY <2>1 DEF Log!Requeue, Log!Conclusive, Conclusive, RowSet, KeySet, Plan
  <2> QED BY <2>2 DEF Log!Next
<1>7. CASE Rewritten
  <2>1. /\ pc = "rewrite" /\ pc' = "describe" /\ pos > Len(loaded)
        /\ UNCHANGED <<request, attempts>>
    BY <1>7 DEF Rewritten, disk
  <2>2. KeptRows(loaded) = RowSet(attempts)
    <3>1. \A i \in DOMAIN loaded : i < pos
      BY <1>1, <2>1
    <3>2. ASSUME NEW r \in KeptRows(loaded) PROVE r \in RowSet(attempts)
      BY <2>1, <3>1, <3>2 DEF KeptRows, RowSet, KeptInv, Holds
    <3>3. ASSUME NEW r \in RowSet(attempts) PROVE r \in KeptRows(loaded)
      BY <2>1, <3>3 DEF KeptRows, RowSet, DupInv, RewriteInv, Inconclusive
    <3> QED BY <3>2, <3>3
  <2>3. UNCHANGED Log!logVars
    BY <2>1, <2>2, LogVarsAre DEF LogRows, LogStatus, RowSet, KeySet, Plan
  <2> QED BY <2>3
<1>8. CASE AppendRow
  <2>1. PICK row \in pending : attempts' = Append(attempts, row)
    BY <1>8 DEF AppendRow
  <2>2. /\ pc = "append" /\ pc' = "count" /\ UNCHANGED request
        /\ row \in Row /\ row.key = Plan[pos]
    BY <1>8, <2>1 DEF AppendRow, TypeInv, TypeOK, DupInv, AttemptInv
  <2>3. RowSet(attempts)' = RowSet(attempts) \cup {row}
    <3>1. /\ DOMAIN attempts = 1..Len(attempts) /\ Len(attempts) \in Nat
          /\ DOMAIN attempts' = 1..(Len(attempts) + 1)
          /\ attempts'[Len(attempts) + 1] = row
          /\ \A i \in 1..Len(attempts) : attempts'[i] = attempts[i]
      BY <1>1, <2>1, <2>2
    <3>2. DOMAIN attempts' = DOMAIN attempts \cup {Len(attempts) + 1}
      BY <3>1
    <3> QED BY <3>1, <3>2 DEF RowSet
  <2>4. pos \in DOMAIN Plan /\ \A j \in DOMAIN attempts : attempts[j].key # row.key
    BY <2>2, AttemptIsNew
  <2>5. row.key \in KeySet(Plan) /\ ~Log!Answered(row.key)
    BY <2>2, <2>4 DEF KeySet, Log!Answered, RowSet
  <2>6. Log!Record(row)
    BY <2>2, <2>3, <2>5 DEF Log!Record, KeySet, Plan
  <2> QED BY <2>2, <2>6 DEF Log!Next
<1>9. CASE Finish
  <2>1. /\ pc = "finish" /\ pc' = "idle" /\ UNCHANGED <<request, attempts>>
        /\ Complete'
    BY <1>9 DEF Finish, End, Complete, Counted, Report
  <2>2. \A i \in DOMAIN Plan : Plan[i] \in KeysOf(attempts)
    <3>1. Plan \in Seq(Keys)
      BY <1>1, PlansAssumption DEF Request, Plan
    <3>2. DOMAIN Plan = 1..Len(Plan) /\ Len(Plan) \in Nat
      BY <3>1
    <3>3. written + skipped >= Len(Plan) /\ written \in Nat /\ skipped \in Nat
      BY <2>1, CountersAnswered DEF LoopPoints
    <3>4. \A i \in DOMAIN Plan : i <= written + skipped
      BY <3>2, <3>3
    <3> QED BY <2>1, <3>4, CountersAnswered DEF LoopPoints
  <2>3. \A key \in KeySet(Plan) : \E row \in RowSet(attempts) : row.key = key
    BY <2>2 DEF KeySet, RowSet, KeysOf
  <2>4. Log!Complete
    BY <2>1, <2>3 DEF Log!Complete, Log!Answered, RowSet, KeySet, Plan
  <2> QED BY <2>4 DEF Log!Next
<1>10. CASE LoadRefused \/ Disturbance
  <2>1. /\ pc' = "idle" /\ UNCHANGED <<request, attempts>>
        /\ pc \in {"load", "finish"} \cup LoopPoints
    BY <1>10, EndingFrame DEF Ending, End
  <2>2. ~Complete'
    <3>1. CASE LoadRefused
      <4>1. torn /\ pc = "load" /\ UNCHANGED experiment
        BY <1>1, <3>1, DistinctIsNoDuplicate DEF LoadRefused, DupInv, disk
      <4> QED BY <4>1 DEF RecordInv, Complete
    <3>2. CASE Interrupt \/ Fail
      BY <3>2 DEF Interrupt, Fail, Complete, Counted, Report
    <3>3. CASE Kill
      <4>1. experiment' \subseteq experiment /\ pc \in LoopPoints \cup {"finish"}
        BY <3>3 DEF Kill, KillsInLoop
      <4> QED BY <4>1 DEF RecordInv, Complete
    <3> QED BY <1>10, <3>1, <3>2, <3>3 DEF Disturbance
  <2>3. Log!Stop
    BY <2>1, <2>2 DEF Log!Stop, RowSet, KeySet, Plan, LoopPoints
  <2> QED BY <2>3 DEF Log!Next
<1>11. CASE \/ ClearExperiment \/ Load \/ RewriteRow \/ Describe \/ Open
            \/ Working /\ ~AppendRow
  <2>1. /\ UNCHANGED request
        /\ pc = "clear" <=> pc' = "clear"
        /\ pc # "idle" /\ pc' # "idle"
        /\ pc = "rewrite" <=> pc' = "rewrite"
        /\ pc = "rewrite" => UNCHANGED loaded
        /\ pc # "rewrite" => UNCHANGED attempts
    <3>1. CASE Open
      BY <3>1, OpenKeepsRows DEF Open
    <3>2. CASE Working /\ ~AppendRow
      <4>1. UNCHANGED attempts
        BY <3>2
        DEF Working, Skip, Attempt, GenerationFails, FormatFails, Generated,
            EvaluationEnds, EvaluationRetries, Count, LoopDone, Ready, disk
      <4> QED BY <3>2, <4>1, WorkingFrame DEF LoopPoints
    <3>3. CASE ClearExperiment \/ Load \/ RewriteRow \/ Describe
      BY <3>3 DEF ClearExperiment, Load, RewriteRow, Describe, disk, memory
    <3> QED BY <1>11, <3>1, <3>2, <3>3
  <2>2. LogRows' = LogRows /\ LogStatus' = LogStatus
    BY <2>1 DEF LogRows, LogStatus, KeptRows, RowSet, Conclusive
  <2>3. UNCHANGED Log!logVars
    BY <2>1, <2>2, LogVarsAre DEF KeySet, Plan
  <2> QED BY <2>3
<1> QED
  BY <1>2, <1>3, <1>4, <1>5, <1>6, <1>7, <1>8, <1>9, <1>10, <1>11, NextCases
  DEF Ending

\* A run directory keeps the promises of AttemptLog through every session, however
\* it starts, is interrupted or killed in its loop: one row per attempt, nothing
\* conclusive lost but by --force, "complete" only of an answered plan.
THEOREM DirectoryIsAttemptLog ==
  ASSUME DistinctPlans, KillsInLoop
  PROVE  Spec => ImplementsAttemptLog
<1>1. HonestAll /\ [Next]_vars => [Log!Next]_Log!logVars
  BY LogStep
<1> QED
  BY <1>1, LogInit, HonestAlways, PTL DEF Spec, ImplementsAttemptLog, Log!Spec

-----------------------------------------------------------------------------
(* What GenerationCalls promises for any providers, limits and header values, *)
(* and that it implements LeaderboardRun; and what the reports of a run        *)
(* directory may say (bench/leaderboard/reports.py).                           *)

Double(x, i) == 2 * x
Doubling == INSTANCE Folding WITH Op <- Double

\* The smaller of two naturals is one.
LEMMA MinOfTwo ==
  ASSUME NEW x \in Nat, NEW y \in Nat
  PROVE  Min({x, y}) \in Nat /\ Min({x, y}) <= x
BY DEF Min
\* The greater of zero and a number is a natural.
LEMMA MaxWithZero ==
  ASSUME NEW y \in Int
  PROVE  Max({0, y}) \in Nat
BY DEF Max

\* A power of two is a positive number.
LEMMA BackoffIsPositive ==
  \A n \in 0..MaxAttempts : Backoff[n] \in Nat \ {0}
<1> DEFINE s == [i \in 1..MaxAttempts |-> i]
           Doubles(f) == f = [n \in 0..MaxAttempts |-> IF n = 0 THEN 1 ELSE 2 * f[n - 1]]
<1>1. MaxAttempts \in Nat
  BY AttemptsAssumption
<1>2. \E f : Doubles(f)
  <2>1. PICK h : Doubling!Runs(h, 1, s, MaxAttempts)
    BY <1>1, Doubling!FoldSteps
  <2>2. h[0] = 1 /\ \A i \in 1..MaxAttempts : h[i] = 2 * h[i - 1]
    BY <2>1 DEF Doubling!Runs, Double
  <2> DEFINE f == [n \in 0..MaxAttempts |-> h[n]]
  <2>3. \A n \in 0..MaxAttempts : f[n] = IF n = 0 THEN 1 ELSE 2 * f[n - 1]
    BY <1>1, <2>2
  <2>4. Doubles(f)
    BY <2>3
  <2> HIDE DEF f
  <2> QED BY <2>4
<1>3. Doubles(Backoff)
  BY <1>2 DEF Backoff
<1> DEFINE T == {n \in Nat : n <= MaxAttempts => Backoff[n] \in Nat \ {0}}
<1>4. 0 \in T
  BY <1>1, <1>3
<1>5. ASSUME NEW n \in Nat, n \in T PROVE n + 1 \in T
  BY <1>1, <1>3, <1>5
<1> HIDE DEF T
<1>6. Nat \subseteq T
  BY <1>4, <1>5, Doubling!NatSet
<1> QED BY <1>1, <1>6 DEF T

\* Whatever the header says, a pause is not negative and at most MaxDelay.
LEMMA DelayIsCapped ==
  ASSUME attempt \in 1..MaxAttempts, NEW header \in RetryAfters \cup {NoSeconds}
  PROVE  RetryDelay(header) \in Nat /\ RetryDelay(header) <= MaxDelay
<1>1. Backoff[attempt - 1] \in Nat
  BY BackoffIsPositive, AttemptsAssumption
<1>2. MaxDelay \in Nat
  BY DEF MaxDelay
<1>3. CASE header # NoSeconds
  <2>1. header \in Int
    BY <1>3, RetryAfterAssumption
  <2>2. Max({0, header}) \in Nat
    BY <2>1, MaxWithZero
  <2>. QED
    BY <1>2, <1>3, <2>2, MinOfTwo DEF RetryDelay
<1>4. CASE header = NoSeconds
  BY <1>1, <1>2, <1>4, MinOfTwo DEF RetryDelay
<1>. QED
  BY <1>3, <1>4

-----------------------------------------------------------------------------
(* The pauses of a generation *)

\* A request has the pauses before it behind it, and only a request that may be
\* followed by another is followed by a pause.
WaitInv ==
  /\ attempt \in 1..MaxAttempts /\ waited \in Nat
  /\ call \in {"idle", "sent", "waiting"} /\ (call # "idle" => pc = "generate")
  /\ call = "idle" => waited = 0
  /\ call = "sent" => waited <= MaxDelay * (attempt - 1)
  /\ call = "waiting" =>
       attempt < MaxAttempts /\ waited <= MaxDelay * attempt

LEMMA WaitInit == CallInit => WaitInv
BY AttemptsAssumption DEF CallInit, WaitInv

LEMMA WaitEnds ==
  ASSUME WaitInv, Over
  PROVE  WaitInv'
BY AttemptsAssumption DEF WaitInv, Over, KeepCount

LEMMA WaitStep ==
  ASSUME WaitInv, [CallNext]_allVars
  PROVE  WaitInv'
<1>1. CASE Send
  BY <1>1, AttemptsAssumption DEF Send, WaitInv, MaxDelay, vars
<1>2. CASE Answered
  BY <1>2, WaitEnds DEF Answered
<1>3. CASE Resend
  BY <1>3, AttemptsAssumption DEF Resend, WaitInv, MaxDelay, vars
<1>4. ASSUME NEW response \in Responses, Pause(response)
      PROVE  WaitInv'
  <2>1. PICK header \in RetryAfters \cup {NoSeconds} :
          waited' = waited + RetryDelay(header)
    BY <1>4 DEF Pause
  <2>2. RetryDelay(header) \in Nat /\ RetryDelay(header) <= MaxDelay
    BY DelayIsCapped DEF WaitInv
  <2>. QED
    BY <1>4, <2>1, <2>2, AttemptsAssumption DEF Pause, WaitInv, MaxDelay, vars
<1>5. ASSUME NEW response \in Responses, GiveUp(response) \/ Abort(response)
      PROVE  WaitInv'
  BY <1>5, WaitEnds DEF GiveUp, Abort
<1>6. CASE Disturbed
  BY <1>6, WaitEnds DEF Disturbed
<1>7. CASE Elsewhere
  BY <1>7, AttemptsAssumption DEF Elsewhere, KeepCount, WaitInv, MaxDelay
<1>8. CASE UNCHANGED allVars
  BY <1>8 DEF allVars, callVars, vars, WaitInv
<1>. QED
  BY <1>1, <1>2, <1>3, <1>4, <1>5, <1>6, <1>7, <1>8 DEF CallNext

\* A generation pauses at most MaxDelay seconds for each request but the last
\* (_retry_delay and the attempt < max_attempts guards of its callers).
THEOREM WaitsAreBounded == CallSpec => []BoundedWait
<1>1. WaitInv => BoundedWait
  BY AttemptsAssumption DEF WaitInv, BoundedWait, MaxDelay
<1>. QED
  BY <1>1, WaitInit, WaitStep, PTL DEF CallSpec

\* A generation is in one of its states, within its number of requests, and has
\* waited for no negative time (generate_response, _post_with_retry).
THEOREM CallsAreTyped == CallSpec => []CallTypeOK
<1>1. WaitInv => CallTypeOK
  BY DEF WaitInv, CallTypeOK
<1>. QED
  BY <1>1, WaitInit, WaitStep, PTL DEF CallSpec

-----------------------------------------------------------------------------
(* What the calls are spent on *)

\* A step of a generation is one step of its session, or none.
LEMMA CallStepIsStep ==
  ASSUME [CallNext]_allVars
  PROVE  [Next]_vars
<1>1. CASE Send \/ Resend
  BY <1>1 DEF Send, Resend
<1>2. CASE Answered
  BY <1>2 DEF Answered, Next, Looping
<1>3. ASSUME NEW response \in Responses, Pause(response)
      PROVE  [Next]_vars
  BY <1>3 DEF Pause
<1>4. ASSUME NEW response \in Responses, GiveUp(response)
      PROVE  [Next]_vars
  BY <1>4 DEF GiveUp, Next, Looping
<1>5. ASSUME NEW response \in Responses, Abort(response)
      PROVE  [Next]_vars
  BY <1>5 DEF Abort, Next, Disturbance
<1>6. CASE Disturbed
  BY <1>6 DEF Disturbed, Next
<1>7. CASE Elsewhere
  BY <1>7 DEF Elsewhere
<1>8. CASE UNCHANGED allVars
  BY <1>8 DEF allVars
<1>. QED
  BY <1>1, <1>2, <1>3, <1>4, <1>5, <1>6, <1>7, <1>8 DEF CallNext

\* When no selection plans a key twice, no request is sent for a key that a row of
\* attempts.jsonl answers (existing_attempts and the loop of run_experiment).
THEOREM AnswersAreAskedOnce ==
  ASSUME DistinctPlans PROVE CallSpec => []NoAnswerAskedAgain
<1>1. CallInit => WaitInv /\ TypeInv /\ DupInv
  BY WaitInit, TypeInit, DupInit DEF CallInit
<1>2. WaitInv /\ TypeInv /\ DupInv /\ [CallNext]_allVars
        => (WaitInv /\ TypeInv /\ DupInv)'
  BY CallStepIsStep, WaitStep, TypeStep, DupStep
<1>3. WaitInv /\ TypeInv /\ DupInv => NoAnswerAskedAgain
  <2> SUFFICES ASSUME WaitInv, TypeInv, DupInv, call # "idle"
               PROVE  Plan[pos] \notin KeysOf(attempts)
    BY DEF NoAnswerAskedAgain
  <2>1. \A j \in DOMAIN attempts : attempts[j].key # Plan[pos]
    BY AttemptIsNew DEF WaitInv
  <2> QED BY <2>1 DEF KeysOf
<1>. QED
  BY <1>1, <1>2, <1>3, PTL DEF CallSpec

-----------------------------------------------------------------------------
(* The reports *)

\* An attempt key is a task, a skill mode and a repetition.
TripleKeys == \A k \in Keys : k = <<k[1], k[2], k[3]>>

RepsOf(e) == {e.plan[i][3] : i \in DOMAIN e.plan}

LEMMA FiniteImage ==
  ASSUME NEW S, IsFiniteSet(S), NEW f, DOMAIN f = S
  PROVE  IsFiniteSet({f[x] : x \in S})
<1> DEFINE T == {f[x] : x \in S}
<1>1. [x \in S |-> f[x]] \in Surjection(S, T)
  BY DEF Surjection
<1> QED BY <1>1, FS_Surjection

LEMMA RecordSets ==
  ASSUME TypeInv, NEW e \in experiment
  PROVE  /\ e.plan \in Plans /\ e.plan \in Seq(Keys)
         /\ IsFiniteSet(RepsOf(e)) /\ Reps(e) = Cardinality(RepsOf(e))
         /\ IsFiniteSet(SelectedTasks(e))
         /\ \A level : IsFiniteSet(EligibleIn(e, level))
<1>1. e.plan \in Plans /\ e.plan \in Seq(Keys)
  BY PlansAssumption DEF TypeInv, TypeOK, Experiment
<1> DEFINE D == DOMAIN e.plan
<1>2. IsFiniteSet(D)
  BY <1>1, PlanPositions
<1>3. IsFiniteSet(RepsOf(e))
  <2> DEFINE f == [i \in D |-> e.plan[i][3]]
  <2>1. IsFiniteSet({f[i] : i \in D})
    BY <1>2, FiniteImage
  <2>2. {f[i] : i \in D} = RepsOf(e)
    BY DEF RepsOf
  <2> QED BY <2>1, <2>2
<1>4. IsFiniteSet(SelectedTasks(e))
  <2> DEFINE f == [i \in D |-> e.plan[i][1]]
  <2>1. IsFiniteSet({f[i] : i \in D})
    BY <1>2, FiniteImage
  <2>2. {f[i] : i \in D} = SelectedTasks(e)
    BY DEF SelectedTasks
  <2> QED BY <2>1, <2>2
<1>5. \A level : EligibleIn(e, level) \subseteq SelectedTasks(e)
  BY DEF EligibleIn
<1> QED BY <1>1, <1>3, <1>4, <1>5, FS_Subset DEF Reps, RepsOf

\* Rows of one skill mode and of tasks in T, and that none of them is missing.
RowGroup(I, mode0, T) ==
  /\ I \subseteq DOMAIN attempts /\ IsFiniteSet(T)
  /\ \A i \in I : SkillMode(attempts[i]) = mode0 /\ Task(attempts[i]) \in T
FullGroup(e, I, mode0, T) ==
  \A t \in T, r \in RepsOf(e) : \E i \in I : attempts[i].key = <<t, mode0, r>>

\* Rows of one skill mode whose keys are planned are at most as many as their
\* tasks times the repetitions, and exactly as many when none is missing.
LEMMA RowsPerTask ==
  ASSUME TripleKeys, TypeInv, DistinctRows(attempts), NEW e \in experiment,
         Planned(e), NEW I, NEW mode0, NEW T, RowGroup(I, mode0, T)
  PROVE  /\ IsFiniteSet(I) /\ Cardinality(I) \in Nat
         /\ Cardinality(T) \in Nat /\ Reps(e) \in Nat
         /\ Cardinality(I) <= Cardinality(T) * Reps(e)
         /\ FullGroup(e, I, mode0, T) =>
              Cardinality(I) = Cardinality(T) * Reps(e)
<1> USE DEF RowGroup, FullGroup
<1> DEFINE R == RepsOf(e)
           f == [i \in I |-> <<attempts[i].key[1], attempts[i].key[3]>>]
<1>1. \A i \in I : attempts[i].key \in Keys
  <2>1. attempts \in Seq(Row)
    BY DEF TypeInv, TypeOK
  <2>2. \A i \in I : attempts[i] \in Row
    BY <2>1
  <2> QED BY <2>2 DEF Row
<1>2. \A i \in I : attempts[i].key =
        <<attempts[i].key[1], mode0, attempts[i].key[3]>>
  BY <1>1 DEF TripleKeys, SkillMode
<1>3. \A i \in I : attempts[i].key[1] \in T /\ attempts[i].key[3] \in R
  <2> SUFFICES ASSUME NEW i \in I PROVE attempts[i].key[3] \in R
    BY DEF Task
  <2>1. attempts[i].key \in KeySet(e.plan)
    BY DEF Planned, KeysOf
  <2> QED BY <2>1 DEF KeySet, RepsOf
<1>4. f \in [I -> T \X R]
  BY <1>3
<1>5. \A i, j \in I : f[i] = f[j] => i = j
  <2> SUFFICES ASSUME NEW i \in I, NEW j \in I, f[i] = f[j] PROVE i = j
    OBVIOUS
  <2>1. attempts[i].key = attempts[j].key
    BY <1>2
  <2> QED BY <2>1 DEF DistinctRows
<1>6. f \in Injection(I, T \X R)
  BY <1>4, <1>5 DEF Injection, IsInjective
<1>7. IsFiniteSet(R) /\ Reps(e) = Cardinality(R)
  BY RecordSets
<1>8. /\ IsFiniteSet(T \X R)
      /\ Cardinality(T \X R) = Cardinality(T) * Cardinality(R)
  BY <1>7, FS_Product
<1>9. /\ IsFiniteSet(I) /\ Cardinality(I) <= Cardinality(T \X R)
      /\ f \in Surjection(I, T \X R) => Cardinality(I) = Cardinality(T \X R)
  BY <1>6, <1>8, FS_Injection
<1>10. ASSUME \A t \in T, r \in R : \E i \in I : attempts[i].key = <<t, mode0, r>>
       PROVE  f \in Surjection(I, T \X R)
  <2>1. ASSUME NEW pair \in T \X R
        PROVE  \E i \in I : f[i] = pair
    <3>1. PICK t \in T, r \in R : pair = <<t, r>>
      OBVIOUS
    <3>2. PICK i \in I : attempts[i].key = <<t, mode0, r>>
      BY <1>10
    <3>3. f[i] = <<t, r>>
      BY <3>2
    <3> QED BY <3>1, <3>3
  <2> HIDE DEF f, R
  <2> QED BY <1>4, <2>1 DEF Surjection
<1>11. /\ Cardinality(I) \in Nat /\ Cardinality(T) \in Nat
       /\ Cardinality(R) \in Nat
  BY <1>7, <1>9, FS_CardinalityType
<1> QED BY <1>7, <1>8, <1>9, <1>10, <1>11

LEMMA CellRows ==
  ASSUME NEW cell \in Cells(attempts)
  PROVE  LET S == RowsOf(attempts, cell)
         IN  /\ S \subseteq DOMAIN attempts
             /\ \A i \in S : /\ SkillMode(attempts[i]) = cell.mode
                             /\ attempts[i].model = cell.model
                             /\ cell.level \in {"all", Level[Task(attempts[i])]}
BY DEF RowsOf

LEMMA CellIsCovered ==
  ASSUME TripleKeys, TypeInv, DistinctRows(attempts), NEW e \in experiment,
         Planned(e), NEW cell \in Cells(attempts)
  PROVE  LET S == RowsOf(attempts, cell)
         IN  ScoredEligible(attempts, S, e)
               <= CoverageDenominator(attempts, S, e, cell.level)
<1> DEFINE S == RowsOf(attempts, cell)
           C == {i \in {j \in S : Task(attempts[j]) \in EligibleIn(e, "all")} :
                   attempts[i].result \in {"BC", "BF", "CF"}}
           T == EligibleIn(e, cell.level)
<1>1. ScoredEligible(attempts, S, e) = Cardinality(C)
  BY DEF ScoredEligible, Tally
<1>2. C \subseteq S /\ C \subseteq DOMAIN attempts
  BY CellRows
<1>3. \A i \in C : SkillMode(attempts[i]) = cell.mode /\ Task(attempts[i]) \in T
  BY CellRows DEF EligibleIn
<1>4. IsFiniteSet(T) /\ IsFiniteSet(S)
  <2>1. attempts \in Seq(Row)
    BY DEF TypeInv, TypeOK
  <2>2. DOMAIN attempts = 1..Len(attempts) /\ 1 \in Int /\ Len(attempts) \in Int
    BY <2>1
  <2>3. IsFiniteSet(DOMAIN attempts)
    BY <2>2, FS_Interval
  <2> QED BY <2>3, CellRows, RecordSets, FS_Subset
<1> HIDE DEF S, C
<1>5. CASE T # {}
  <2>1. RowGroup(C, cell.mode, T)
    BY <1>2, <1>3, <1>4 DEF RowGroup
  <2>2. Cardinality(C) <= Cardinality(T) * Reps(e)
    BY <2>1, RowsPerTask
  <2> QED BY <1>1, <1>5, <2>2 DEF CoverageDenominator, S
<1>6. CASE T = {}
  <2>1. C = {}
    BY <1>3, <1>6
  <2>2. Cardinality(C) = 0 /\ Cardinality(S) \in Nat
    BY <1>4, <2>1, FS_EmptySet, FS_CardinalityType
  <2> QED BY <1>1, <1>6, <2>2 DEF CoverageDenominator, S
<1> QED BY <1>5, <1>6

\* No report of a directory, made at any moment, shows a cell with a coverage
\* above one while every recorded row is planned (eligible_attempts over the
\* tasks times the repetitions), for any tasks, levels and repetitions.
THEOREM CoverageIsBounded ==
  ASSUME DistinctPlans, TripleKeys
  PROVE  Spec => []CoverageAtMostOne
<1>1. TypeInv /\ DupInv => CoverageAtMostOne
  BY CellIsCovered DEF CoverageAtMostOne, DupInv
<1>2. TypeInv /\ DupInv /\ [Next]_vars => DupInv'
  BY DupStep
<1> QED BY <1>1, <1>2, TypeInit, TypeStep, DupInit, PTL DEF Spec

-----------------------------------------------------------------------------
(* Settled directories *)

\* A selection is every task with every skill mode and every repetition.
ProductPlans ==
  \A p \in Plans : \E tasks, modes, reps : KeySet(p) = tasks \X modes \X reps

LEMMA AttemptRows ==
  ASSUME TypeInv
  PROVE  /\ IsFiniteSet(DOMAIN attempts)
         /\ \A i \in DOMAIN attempts :
              /\ attempts[i] \in Row /\ attempts[i].key \in Keys
              /\ attempts[i].result \in Verdicts
<1>1. attempts \in Seq(Row)
  BY DEF TypeInv, TypeOK
<1>2. DOMAIN attempts = 1..Len(attempts) /\ 1 \in Int /\ Len(attempts) \in Int
  BY <1>1
<1>3. \A i \in DOMAIN attempts : attempts[i] \in Row
  BY <1>1
<1> QED BY <1>2, <1>3, FS_Interval DEF Row

LEMMA SameModel ==
  ASSUME TypeInv, OneModel, NEW i \in DOMAIN attempts, NEW j \in DOMAIN attempts
  PROVE  attempts[i].model = attempts[j].model
<1> DEFINE D == DOMAIN attempts
           f == [k \in D |-> attempts[k].model]
           M == {f[k] : k \in D}
<1>1. IsFiniteSet(M)
  BY AttemptRows, FiniteImage
<1>2. M = {attempts[k].model : k \in D}
  OBVIOUS
<1>3. Cardinality(M) <= 1 /\ Cardinality(M) \in Nat
  BY <1>1, <1>2, FS_CardinalityType DEF OneModel
<1>4. attempts[i].model \in M /\ attempts[j].model \in M
  OBVIOUS
<1> HIDE DEF M
<1>5. Cardinality(M) # 0
  BY <1>1, <1>4, FS_EmptySet
<1>6. \E m : M = {m}
  <2>1. Cardinality(M) = 1
    BY <1>3, <1>5
  <2> QED BY <1>1, <2>1, FS_Singleton
<1> QED BY <1>4, <1>6

\* Every planned task of a cell has a row for each repetition.
LEMMA SettledGroup ==
  ASSUME HonestAll, ProductPlans, NEW e \in experiment, Settled(e),
         NEW cell \in Cells(attempts), NEW t \in SelectedTasks(e),
         cell.level \in {"all", Level[t]}, NEW r \in RepsOf(e)
  PROVE  \E i \in RowsOf(attempts, cell) : attempts[i].key = <<t, cell.mode, r>>
<1>1. TypeInv /\ e.plan \in Plans /\ Planned(e) /\ OneModel
  BY RecordSets DEF HonestAll, KeptAll, Settled
<1>2. KeySet(e.plan) \subseteq KeysOf(attempts)
  <2>1. Unanswered(e.plan) = {}
    BY HonestComplete DEF Settled, CompleteMeansAnswered
  <2> QED BY <2>1 DEF Unanswered, KeySet
<1>3. PICK i0 \in DOMAIN attempts :
        cell.model = attempts[i0].model /\ cell.mode = SkillMode(attempts[i0])
  BY DEF Cells
<1>4. PICK tasks, modes, reps : KeySet(e.plan) = tasks \X modes \X reps
  BY <1>1 DEF ProductPlans
<1>5. cell.mode \in modes
  <2>1. attempts[i0].key \in tasks \X modes \X reps
    BY <1>1, <1>4 DEF Planned, KeysOf
  <2> QED BY <1>3, <2>1 DEF SkillMode
<1>6. t \in tasks
  <2>1. PICK k \in DOMAIN e.plan : t = e.plan[k][1]
    BY DEF SelectedTasks
  <2>2. e.plan[k] \in tasks \X modes \X reps
    BY <1>4 DEF KeySet
  <2> QED BY <2>1, <2>2
<1>7. r \in reps
  <2>1. PICK k \in DOMAIN e.plan : r = e.plan[k][3]
    BY DEF RepsOf
  <2>2. e.plan[k] \in tasks \X modes \X reps
    BY <1>4 DEF KeySet
  <2> QED BY <2>1, <2>2
<1>8. <<t, cell.mode, r>> \in KeysOf(attempts)
  BY <1>2, <1>4, <1>5, <1>6, <1>7
<1>9. PICK i \in DOMAIN attempts : attempts[i].key = <<t, cell.mode, r>>
  BY <1>8 DEF KeysOf
<1>10. attempts[i].model = cell.model
  BY <1>1, <1>3, SameModel
<1>11. Task(attempts[i]) = t /\ SkillMode(attempts[i]) = cell.mode
  BY <1>9 DEF Task, SkillMode
<1> QED BY <1>9, <1>10, <1>11 DEF RowsOf

LEMMA PlannedTask ==
  ASSUME NEW e \in experiment, Planned(e), NEW i \in DOMAIN attempts
  PROVE  Task(attempts[i]) \in SelectedTasks(e)
<1>1. attempts[i].key \in KeySet(e.plan)
  BY DEF Planned, KeysOf
<1> QED BY <1>1 DEF KeySet, SelectedTasks, Task

LEMMA CellIsExact ==
  ASSUME HonestAll, TripleKeys, ProductPlans, NEW e \in experiment, Settled(e),
         NEW cell \in Cells(attempts), EligibleIn(e, cell.level) # {}
  PROVE  LET S == RowsOf(attempts, cell)
             open == {i \in S : Task(attempts[i]) \in Eligible}
         IN  ScoredEligible(attempts, S, e) + Tally(attempts, open, {"IF"})
               = CoverageDenominator(attempts, S, e, cell.level)
<1> DEFINE S == RowsOf(attempts, cell)
           T == EligibleIn(e, cell.level)
           open == {i \in S : Task(attempts[i]) \in Eligible}
           C == {i \in {j \in S : Task(attempts[j]) \in EligibleIn(e, "all")} :
                   attempts[i].result \in {"BC", "BF", "CF"}}
           F == {i \in open : attempts[i].result \in {"IF"}}
<1>1. TypeInv /\ DistinctRows(attempts) /\ Planned(e)
  BY DEF HonestAll, KeptAll, DupInv, Settled
<1>2. open \subseteq DOMAIN attempts /\ S \subseteq DOMAIN attempts
  BY CellRows
<1>3. \A i \in open : SkillMode(attempts[i]) = cell.mode /\ Task(attempts[i]) \in T
  BY <1>1, <1>2, CellRows, PlannedTask DEF EligibleIn
<1>4. \A t \in T, r \in RepsOf(e) :
        \E i \in open : attempts[i].key = <<t, cell.mode, r>>
  <2> SUFFICES ASSUME NEW t \in T, NEW r \in RepsOf(e)
               PROVE  \E i \in open : attempts[i].key = <<t, cell.mode, r>>
    OBVIOUS
  <2>1. t \in SelectedTasks(e) /\ t \in Eligible /\ cell.level \in {"all", Level[t]}
    BY DEF EligibleIn
  <2>2. PICK i \in S : attempts[i].key = <<t, cell.mode, r>>
    BY <2>1, SettledGroup
  <2> QED BY <2>1, <2>2 DEF Task
<1>5. /\ IsFiniteSet(open)
      /\ Cardinality(open) = Cardinality(T) * Reps(e)
  <2>1. IsFiniteSet(T)
    BY <1>1, RecordSets
  <2>2. RowGroup(open, cell.mode, T)
    BY <1>2, <1>3, <2>1 DEF RowGroup
  <2>3. FullGroup(e, open, cell.mode, T)
    BY <1>4 DEF FullGroup
  <2> HIDE DEF open, T
  <2> QED BY <1>1, <2>2, <2>3, RowsPerTask
<1>6. C \cup F = open /\ C \cap F = {}
  <2>1. \A i \in open : attempts[i].result \in {"BC", "BF", "CF", "IF"}
    BY <1>1, <1>2, AttemptRows DEF Verdicts
  <2>2. \A i \in S : Task(attempts[i]) \in EligibleIn(e, "all") <=>
                       Task(attempts[i]) \in Eligible
    BY <1>1, <1>2, PlannedTask DEF EligibleIn
  <2> QED BY <2>1, <2>2
<1>7. ScoredEligible(attempts, S, e) = Cardinality(C)
  BY DEF ScoredEligible, Tally
<1>8. Tally(attempts, open, {"IF"}) = Cardinality(F)
  BY DEF Tally
<1>9. CoverageDenominator(attempts, S, e, cell.level) = Cardinality(T) * Reps(e)
  BY DEF CoverageDenominator
<1> HIDE DEF S, T, C, F, open
<1>10. IsFiniteSet(C) /\ IsFiniteSet(F)
  BY <1>5, <1>6, FS_Subset
<1>11. Cardinality(open) = Cardinality(C) + Cardinality(F)
  <2>1. Cardinality(C \cup F) =
          Cardinality(C) + Cardinality(F) - Cardinality(C \cap F)
    BY <1>10, FS_Union
  <2>2. Cardinality(C \cap F) = 0
    BY <1>6, FS_EmptySet
  <2>3. Cardinality(C) \in Nat /\ Cardinality(F) \in Nat
    BY <1>10, FS_CardinalityType
  <2>4. Cardinality(C \cup F) = Cardinality(open)
    BY <1>6
  <2> QED BY <2>1, <2>2, <2>3, <2>4
<1>12. ScoredEligible(attempts, S, e) + Tally(attempts, open, {"IF"})
         = CoverageDenominator(attempts, S, e, cell.level)
  BY <1>5, <1>7, <1>8, <1>9, <1>11
<1> QED BY <1>12 DEF S, open

LEMMA Proportion ==
  ASSUME NEW a \in Nat, NEW p \in Nat, NEW g \in Nat, NEW r \in Nat, a <= p * r
  PROVE  a * g <= p * (g * r)
<1>1. (p * r) * g = p * (g * r) /\ p * r \in Nat
  OBVIOUS
<1>2. \A x, y \in Nat : x <= y => x * g <= y * g
  OBVIOUS
<1> QED BY <1>1, <1>2

LEMMA CellPasses ==
  ASSUME HonestAll, TripleKeys, ProductPlans, NEW e \in experiment, Settled(e),
         NEW cell \in Cells(attempts)
  PROVE  LET S == RowsOf(attempts, cell)
         IN  Tally(attempts, S, {"BC"}) * Cardinality(RepGroups(attempts, S))
               <= Cardinality(PassedGroups(attempts, S)) * Cardinality(S)
<1> DEFINE S == RowsOf(attempts, cell)
           W == {i \in S : attempts[i].result \in {"BC"}}
           G == RepGroups(attempts, S)
           P == PassedGroups(attempts, S)
<1>1. TypeInv /\ DistinctRows(attempts) /\ Planned(e)
  BY DEF HonestAll, KeptAll, DupInv, Settled
<1>2. S \subseteq DOMAIN attempts /\ W \subseteq S
  BY CellRows
<1>3. G \subseteq SelectedTasks(e) /\ P \subseteq SelectedTasks(e)
  BY <1>1, <1>2, PlannedTask DEF RepGroups, PassedGroups
<1>4. IsFiniteSet(G) /\ IsFiniteSet(P)
  BY <1>1, <1>3, RecordSets, FS_Subset
<1>5. RowGroup(S, cell.mode, G) /\ RowGroup(W, cell.mode, P)
  BY <1>2, <1>4, CellRows DEF RowGroup, RepGroups, PassedGroups
<1>6. FullGroup(e, S, cell.mode, G)
  <2> SUFFICES ASSUME NEW t \in G, NEW r \in RepsOf(e)
               PROVE  \E i \in S : attempts[i].key = <<t, cell.mode, r>>
    BY DEF FullGroup
  <2>1. t \in SelectedTasks(e) /\ cell.level \in {"all", Level[t]}
    BY <1>3, CellRows DEF RepGroups
  <2> QED BY <2>1, SettledGroup
<1>7. Tally(attempts, S, {"BC"}) = Cardinality(W)
  BY DEF Tally
<1> HIDE DEF S, W, G, P
<1>8. /\ Cardinality(W) \in Nat /\ Cardinality(P) \in Nat
      /\ Cardinality(G) \in Nat /\ Reps(e) \in Nat
      /\ Cardinality(W) <= Cardinality(P) * Reps(e)
      /\ Cardinality(S) = Cardinality(G) * Reps(e)
  BY <1>1, <1>5, <1>6, RowsPerTask
<1>9. Cardinality(W) * Cardinality(G) <= Cardinality(P) * Cardinality(S)
  <2> DEFINE a == Cardinality(W)  p == Cardinality(P)
             g == Cardinality(G)  r == Reps(e)
  <2>1. a \in Nat /\ p \in Nat /\ g \in Nat /\ r \in Nat /\ a <= p * r
    BY <1>8
  <2> HIDE DEF a, p, g, r
  <2>2. a * g <= p * (g * r)
    BY <2>1, Proportion
  <2> QED BY <1>8, <2>2 DEF a, p, g, r
<1> QED BY <1>7, <1>9 DEF S, G, P

\* A directory at rest with a complete record whose rows are all planned and of
\* one model is covered to the last attempt: in every cell with eligible tasks the
\* scored rows and the inconclusive ones add up to the denominator.
THEOREM CoverageCountsAll ==
  ASSUME DistinctPlans, KillsInLoop, TripleKeys, ProductPlans
  PROVE  Spec => []CoverageIsExact
<1>1. HonestAll => CoverageIsExact
  BY CellIsExact DEF CoverageIsExact
<1> QED BY <1>1, HonestAlways, PTL

\* In such a directory pass@k is at least pass@1 in every cell, for any number of
\* tasks and repetitions: counting by task never hides a pass.
THEOREM PassAtKDominates ==
  ASSUME DistinctPlans, KillsInLoop, TripleKeys, ProductPlans
  PROVE  Spec => []PassAtKIsAtLeastPassAt1
<1>1. HonestAll => PassAtKIsAtLeastPassAt1
  BY CellPasses DEF PassAtKIsAtLeastPassAt1
<1> QED BY <1>1, HonestAlways, PTL
=============================================================================
