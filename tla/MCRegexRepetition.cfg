SPECIFICATION MCSpec
CONSTANTS
  NState = 3
  Initial = 0
  CSize = 2
  CSIZE = 4
  Rule = {0, 2}
  Nfas <- MCNfas
  MaxDfaSize = 5
  Kinds = {"parse"}
  RuleStates = 5
  RuleNfas <- MCLoopRules
  MAX_TX = 1
  MaxNode = 20
  CHUNK = 1
  PER_WORD = 2
  Simulations <- MCSimulations
  Files <- MCQuantified
  MaxTrace = 4
INVARIANT ReportsMatches
CHECK_DEADLOCK FALSE
