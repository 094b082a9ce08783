SPECIFICATION MCSpec
CONSTANTS
  Parts = {"kernel"}
  Byte = {0, 1}
  FetchBytes = 2
  NSubsets = 2
  MatchFactor = 2
  NState = 3
  Delta <- MCDelta
  Accept <- MCAccept
  MaxPackets = 2
  MaxWords = 1
  BlockDims = {1, 2}
  Unpadded = 1
  num_servers = 2
  Kinds = {"threads", "forked"}
  Loads <- MCLoads
  tracesize = 3
  PACKET_SIZE = 2
  Buffer = 2
  MAX_CONN_REQ = 2
  MaxFiles = 3
INVARIANT ReadsItsOwnPacket
CHECK_DEADLOCK FALSE
