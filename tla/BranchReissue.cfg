CONSTANTS
  Branches = {b1, b2}
  Steps = 1
  ReconcileHook = TRUE
  MaxFaults = 1
  MaxRuns = 2
SPECIFICATION Spec
SYMMETRY BranchSymmetry
INVARIANTS
  NeverReissued
CHECK_DEADLOCK FALSE
