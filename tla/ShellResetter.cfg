SPECIFICATION FairSpec
CONSTANT
  MaxResets = 3
INVARIANTS
  OkMeansWholeScriptRan
  ScriptFileIsGone
  ResetLeavesItStarted
  EnvIsWholeUnlessFailed
PROPERTIES
  ExecReturns
CHECK_DEADLOCK FALSE
