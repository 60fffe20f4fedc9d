SPECIFICATION MCSpec
SYMMETRY Alike
CONSTANTS
  k1 = k1
  k2 = k2
  k3 = k3
  b1 = b1
  b2 = b2
  e1 = e1
  e2 = e2
  r1 = r1
  r2 = r2
  c1 = c1
  t1 = t1
  t2 = t2
  s1 = s1
  s2 = s2
  s3 = s3
  None = None
  Torn = Torn
  Builder = {b1, b2}
  Replayer = {b1}
  Length = 2
  MaxMessages = 2
  Evaluator <- Evaluators
  Evidence <- Runs
  Release <- Releases
  Public = 1
  Sealed = 1
  Times <- Milliseconds
INVARIANTS
  AllTypesOK
  SearchIsAccountable
  BuildsAreTraceable
  OutcomesAreSound
  PacketsAreSound
CHECK_DEADLOCK FALSE
