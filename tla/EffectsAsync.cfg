SPECIFICATION EffectSpec
CONSTANTS
  Plan <- AsyncOnly
  FileCount = 1
  Policies = {"strict"}
  MaxCrashes = 1
  MaxEdits = 0
INVARIANTS FailedToolGivesNoOutput
CHECK_DEADLOCK FALSE
