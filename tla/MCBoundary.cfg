SPECIFICATION MCSpec
SYMMETRY Alike
CONSTANTS
  TokenMeters = {"output_tokens"}
  Limit <- MCLimit
  MaxWall = 1
  MaxNow = 1
  MaxSequence = 4
  Requests <- MCRequests
  Reports <- MCReports
  OutputSizes = {0, 2, 3}
  c1 = c1
  c2 = c2
  q1 = q1
  q2 = q2
  q3 = q3
  w1 = w1
  w2 = w2
  p1 = p1
  p2 = p2
  r1 = r1
  r2 = r2
  NoRows = NoRows
  NoId = NoId
  t1 = t1
  t2 = t2
INVARIANTS
  AllTypesOK
  OnlyOverrunsBreakCeilings
  CallLimitsAreHard
  HealthyWithinCeilings
  AdaptersAreTruthful
  CommandsAreTruthful
  StudiesAreTheirEvidence
  IndexFollowsFiles
  EvolutionIsAccountable
PROPERTIES
  AccountingIsMonotone
CHECK_DEADLOCK FALSE
