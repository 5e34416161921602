-------------------------- MODULE MCLeaderboardRun --------------------------
(* Small instances of LeaderboardRun for TLC. *)
EXTENDS LeaderboardRun

CONSTANTS t1, t2, none, skill, m1

\* _expected_attempt_keys: tasks, then skill modes, then repetitions.
ExpectedKeys(tasks, modes, reps) ==
  [i \in 1..(Len(tasks) * Len(modes) * reps) |->
     LET cell == (i - 1) \div reps
     IN <<tasks[1 + (cell \div Len(modes))], modes[1 + (cell % Len(modes))],
          1 + ((i - 1) % reps)>>]

MCKeys == {t1, t2} \X {none, skill} \X (1..2)
MCPlans ==
  {ExpectedKeys(<<t1>>, <<none>>, 2), ExpectedKeys(<<t1, t2>>, <<none>>, 1)}
\* --skill-modes none,none
MCRepeatedModePlans == {ExpectedKeys(<<t1>>, <<none, none>>, 1)}
MCOnePlan == {ExpectedKeys(<<t1, t2>>, <<none>>, 1)}

\* Once the opening steps are over.
LoopKill == LoopPoints \cup {"finish"}
=============================================================================
