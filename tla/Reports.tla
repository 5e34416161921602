------------------------------- MODULE Reports -------------------------------
(***************************************************************************)
(* What bench/leaderboard/reports.py makes of a run directory: the rates   *)
(* of each cell (model, level, skill mode) and of each headline (model,    *)
(* all levels, skill mode).  A rate is a pair of its counts; rounding, the *)
(* Wilson interval and the token and character averages are left out.      *)
(*                                                                         *)
(* A report may be made of any directory at any time, so its properties    *)
(* are invariants of the sessions of LeaderboardRun.  An attempt key is    *)
(* <<task, skill mode, repetition>>.                                       *)
(***************************************************************************)
EXTENDS LeaderboardRun

CONSTANTS
  Level,     \* the level of each task
  Eligible   \* the score-eligible tasks

ASSUME LevelAssumption == \A k \in Keys : k[1] \in DOMAIN Level
ASSUME EligibleAssumption == Eligible \subseteq DOMAIN Level

Task(row) == row.key[1]
SkillMode(row) == row.key[2]

\* The fields selected_tasks and reps of experiment.json.
SelectedTasks(e) == {e.plan[i][1] : i \in DOMAIN e.plan}
Reps(e) == Cardinality({e.plan[i][3] : i \in DOMAIN e.plan})

\* summarize_attempts: the groups of rows that are reported together.
Cells(rows) ==
  {[model |-> rows[i].model, level |-> level, mode |-> SkillMode(rows[i])] :
     i \in DOMAIN rows, level \in {Level[t] : t \in DOMAIN Level} \cup {"all"}}
RowsOf(rows, cell) ==
  {i \in DOMAIN rows :
     /\ rows[i].model = cell.model /\ SkillMode(rows[i]) = cell.mode
     /\ cell.level \in {"all", Level[Task(rows[i])]}}

\* The numbers of one cell; S holds its row numbers.
Tally(rows, S, results) == Cardinality({i \in S : rows[i].result \in results})
RepGroups(rows, S) == {Task(rows[i]) : i \in S}
\* Mutant: pass@k demands that every repetition passes.
PassedGroups_All(rows, S) ==
  {t \in RepGroups(rows, S) :
     \A i \in S : Task(rows[i]) = t => rows[i].result = "BC"}
PassedGroups(rows, S) == {Task(rows[i]) : i \in {j \in S : rows[j].result = "BC"}}

\* Mutant: a task that is out of the selection's score counts as covered.
EligibleIn_ScoredOut(e, level) ==
  {t \in SelectedTasks(e) : level \in {"all", Level[t]}}
EligibleIn(e, level) ==
  {t \in SelectedTasks(e) \cap Eligible : level \in {"all", Level[t]}}

\* Mutant: every conclusive row is covered, of eligible tasks or not.
ScoredEligible_Any(rows, S, e) == Tally(rows, S, {"BC", "BF", "CF"})
ScoredEligible(rows, S, e) ==
  Tally(rows, {i \in S : Task(rows[i]) \in EligibleIn(e, "all")},
        {"BC", "BF", "CF"})
\* Mutant: repetitions are not counted.
CoverageDenominator_Once(rows, S, e, level) == Cardinality(EligibleIn(e, level))
\* A level without eligible tasks falls back to its rows, the whole to the
\* count of eligible generations, which is then 0.
CoverageDenominator(rows, S, e, level) ==
  IF EligibleIn(e, level) # {} THEN Cardinality(EligibleIn(e, level)) * Reps(e)
  ELSE IF level = "all" THEN 0 ELSE Cardinality(S)

-----------------------------------------------------------------------------
(* Properties *)

Planned(e) == KeysOf(attempts) \subseteq KeySet(e.plan)
OneModel == Cardinality({attempts[i].model : i \in DOMAIN attempts}) <= 1
\* A finished directory whose rows answer its last plan.
Settled(e) == pc = "idle" /\ e.status = "complete" /\ Planned(e) /\ OneModel

\* No cell is more than covered ("coverage would read > 1.0 otherwise"), at any
\* moment of any session, as long as the recorded plan has all the rows' keys.
CoverageAtMostOne ==
  \A e \in experiment : Planned(e) =>
    \A cell \in Cells(attempts) :
      LET S == RowsOf(attempts, cell)
      IN ScoredEligible(attempts, S, e)
           <= CoverageDenominator(attempts, S, e, cell.level)

\* In a settled directory coverage misses exactly the eligible attempts that are
\* inconclusive: none was lost and none counted for another cell.
CoverageIsExact ==
  \A e \in experiment : Settled(e) =>
    \A cell \in Cells(attempts) :
      LET S == RowsOf(attempts, cell)
          open == {i \in S : Task(attempts[i]) \in Eligible}
      IN EligibleIn(e, cell.level) # {} =>
           ScoredEligible(attempts, S, e) + Tally(attempts, open, {"IF"})
             = CoverageDenominator(attempts, S, e, cell.level)

\* pass@k is at least pass@1 in a settled directory, where every task has the
\* same number of repetitions.
PassAtKIsAtLeastPassAt1 ==
  \A e \in experiment : Settled(e) =>
    \A cell \in Cells(attempts) :
      LET S == RowsOf(attempts, cell)
      IN Tally(attempts, S, {"BC"}) * Cardinality(RepGroups(attempts, S))
           <= Cardinality(PassedGroups(attempts, S)) * Cardinality(S)
=============================================================================
