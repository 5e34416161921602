SPECIFICATION CallSpec
CONSTANTS
  t1 = t1
  t2 = t2
  none = none
  openai = openai
  claude = claude
  Keys <- MCKeys
  Plans <- MCPlans
  Models = {openai, claude}
  Modes = {"resume", "force"}
  EvalVerdicts = {"BC"}
  IfRetries = 0
  KillPoints = {"append", "count"}
  Anthropic = {claude}
  MaxAttempts = 3
  RetryAfters <- MCRetryAfters
  NoSeconds = NoSeconds
  Level <- MCLevel
  Eligible = {t1}
INVARIANTS CallTypeOK BoundedWait CoverageAtMostOne CoverageIsExact
  PassAtKIsAtLeastPassAt1 NoAnswerAskedAgain
