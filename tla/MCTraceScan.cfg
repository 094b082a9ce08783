SPECIFICATION MCSpec
CONSTANTS
  NState = 3
  Initial = 0
  CSize = 2
  CSIZE = 4
  Rule = {0, 2}
  Nfas <- MCNfas
  MaxDfaSize = 5
  Kinds = {"parse", "scan", "reduce", "simulate"}
  RuleStates = 5
  RuleNfas <- MCRules
  MAX_TX = 1
  MaxNode = 20
  CHUNK = 1
  PER_WORD = 2
  Simulations <- MCSimulations
  Files <- MCFiles
  MaxTrace = 4
INVARIANTS ReportsMatches Determinized OneStatePerSet DeadStateIsDead SameMatches SameRules TransitionsApart SimulationIsRun CacheIsASet
CHECK_DEADLOCK FALSE
