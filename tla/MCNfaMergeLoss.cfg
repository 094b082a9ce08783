SPECIFICATION MCSpec
CONSTANTS
  NState = 3
  Initial = 0
  CSize = 2
  CSIZE = 4
  Rule = {0, 2}
  Nfas <- MCNfas
  MaxDfaSize = 5
  Kinds = {"reduce"}
  RuleStates = 18
  RuleNfas <- MCRepeatedRule
  MAX_TX = 1
  MaxNode = 40
  CHUNK = 1
  PER_WORD = 2
  Simulations <- MCSimulations
  Files <- MCFiles
  MaxTrace = 4
INVARIANT SameRules
CHECK_DEADLOCK FALSE
