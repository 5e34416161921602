SPECIFICATION Spec
CONSTANTS
  t1 = t1
  t2 = t2
  none = none
  skill = skill
  m1 = m1
  Keys <- MCKeys
  Plans <- MCOnePlan
  Models = {m1}
  Modes = {"fresh", "resume", "force"}
  EvalVerdicts = {"BC", "IF"}
  IfRetries = 1
  KillPoints = {"rewrite"}
PROPERTIES ConclusiveKept
