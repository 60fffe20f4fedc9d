SPECIFICATION StoresSpec
CONSTANTS
  p1 = p1
  p2 = p2
  a = a
  b = b
  c = c
  d = d
  n1 = n1
  n2 = n2
  Procs = {p1, p2}
  Releases = {a, b}
  NoRelease = NoRelease
  NoNonce = NoNonce
  w1 = w1
  w2 = w2
  Nothing = Nothing
  Release = {c, d}
  Deployment <- OneDeployment
  Solver = {p1}
  Workspace = {w1}
  MaxMoves = 2
  MaxEdits = 1
  MaxMessages = 2
  MaxFaults = 2
SYMMETRY StoresSymmetry
INVARIANTS
  StoresTypeOK
  HistoryIsSound
  WritersAreCurrent
  SessionIsSound
  SolvesAreAccountable
PROPERTIES
  StoresAreLogs
CHECK_DEADLOCK FALSE
