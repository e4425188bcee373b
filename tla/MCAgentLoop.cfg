SPECIFICATION Spec
CONSTANTS
  Names <- MCNames
  Tools <- MCTools
  Allowlist <- MCAllowlist
  MaxSteps = 3
  WallClock = 2
  MaxTokens = 1
  CallTime = 1
  ToolTime = 1
  CallTokens = 2
INVARIANTS BudgetsHold OnlyAllowedRun StoryIsTrue
CHECK_DEADLOCK FALSE
