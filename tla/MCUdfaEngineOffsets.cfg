SPECIFICATION MCSpec
CONSTANTS
  Byte = {0, 1}
  MaxInput = 3
  NPackets = 2
  FetchBytes = 2
  NSubsets = 2
  MatchFactor = 2
  NState = 3
  Delta <- MCDelta
  Accept <- MCAccept
  MaxBlock = 4
  ThreadsPerBlock = 1
  Tuning = TRUE
  TotalRules = 3
  States2Rules <- MCStates2Rules
  Garbage = {0, 1}
  CSize = 2
  Kinds = {"engine"}
  Dfas <- MCDfas
  Networks <- MCNetworks
INVARIANT OffsetsAreTrue
CHECK_DEADLOCK FALSE
