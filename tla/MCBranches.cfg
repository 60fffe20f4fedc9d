CONSTANTS
  Branches = {b1, b2}
  Steps = 2
  ReconcileHook = TRUE
  MaxFaults = 2
  MaxRuns = 3
  k1 = k1
  k2 = k2
SPECIFICATION MCSpec
SYMMETRY Alike
INVARIANTS
  TypeOK
  OneResultEach
  SendsAreAccounted
  ResumeIsSound
  FactoryIsFaithful
  AnswersAreEarned
CHECK_DEADLOCK FALSE
