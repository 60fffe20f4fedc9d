SPECIFICATION MCSpec
CONSTANTS
  N = 3
  Channels <- Pairs
  NoChannel = NoChannel
  MaxModels = 5
  MaxTools = 3
  MaxBytes = 5
  PerTool <- ToolLimits
  Sizes = {1, 3}
  ErrorSize = 2
  Versions = {0, 1}
  Steps = 1
  Plan <- Effects
  FileCount = 1
  Policies = {"strict"}
  MaxCrashes = 3
  MaxEdits = 0
  None = None
  Requests <- TwoIds
  KeepFailures = FALSE
  Explicit = FALSE
  MaxClock = 3
  MaxAttempts = 3
  r1 = r1
  r2 = r2
  b1 = b1
  b2 = b2
INVARIANTS
  AllTypesOK
  CompiledPlansRun
  RunIsAccounted
  RunsKeepTheirWork
  EffectsAreReconciled
  HostedRunsAreFaithful
PROPERTIES
  WorkEnds
CHECK_DEADLOCK FALSE
