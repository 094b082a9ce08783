SPECIFICATION MCSpec
CONSTANTS
  CSize = 4
  Dfas <- MCDfas
  Alphabets <- MCAlphabets
  TX_THRESHOLD = 2
  AddressLimit = 9
  MAX_ACTIVE_SET = 3
  MaxPacket = 2
  HfaAddresses = 9
  Nfas <- MCNfas
  ImageHfas <- MCHfas
INVARIANTS ClassesAreColumns LookupIsTable DefaultsAreShallower RunsAsDfa RunsAsNfa RunsAsHybrid
PROPERTIES MatchReported CharConsumed
CHECK_DEADLOCK FALSE
