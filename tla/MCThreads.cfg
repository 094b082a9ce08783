SPECIFICATION MCSpec
CONSTANTS
  Parts = {"kernel", "servers"}
  Byte = {0, 1}
  FetchBytes = 2
  NSubsets = 2
  MatchFactor = 2
  NState = 3
  Delta <- MCDelta
  Accept <- MCAccept
  MaxPackets = 2
  MaxWords = 1
  BlockDims = {1, 2, 3}
  Unpadded = 0
  num_servers = 2
  Kinds = {"threads", "forked"}
  Loads <- MCLoads
  tracesize = 3
  PACKET_SIZE = 2
  Buffer = 2
  MAX_CONN_REQ = 2
  MaxFiles = 3
INVARIANTS WritesInBounds HandsOverWhatWasSent RoundsDoNotMix
PROPERTIES ImplementsScan RoundsEnd
CHECK_DEADLOCK FALSE
