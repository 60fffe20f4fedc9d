SPECIFICATION FairSpec
CONSTANTS
  first = first
  second = second
  Calls = {first, second}
  RequestOf <- MCRequestOf
  ProviderDeadline = 1
  Answers <- MCAnswers
  TokenMeters = {"output_tokens"}
  Limit <- MCLimit
  MaxWall = 1
  MaxNow = 2
  MaxSequence = 2
  Requests <- MCRequests
  Reports <- MCReports
  OutputSizes = {}
INVARIANTS
  TypeOK
  ReservationsHaveOwners
  ChargedExactlyOnce
  AmbiguityIsRemembered
PROPERTIES
  SuccessNeedsHealth
  CallsEnd
CHECK_DEADLOCK FALSE
