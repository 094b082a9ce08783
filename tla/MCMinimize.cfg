SPECIFICATION MCSpec
CONSTANTS
  CSize = 2
  Rule = {1, 2}
  NState = 4
  MaxCorrected = 2
  MAX_TX = 0
  SPECIAL_MIN_DEPTH = 1
  MAX_HEAD_SIZE = 1
  Dfas <- MCDfas
  Nfas <- MCNfas
  Kinds = {"minimize", "hybrid", "d2fa"}
  D2faDfas <- MCD2faDfas
  Diameters = {2, 4}
  DECREMENT = 2
INVARIANTS SplittersPending Equivalent DfaMinimal SameRulesAsNfa SameRulesAsSplitNfa OneActivation D2faLookup HeaviestForest
PROPERTY MinimizeEnds
CHECK_DEADLOCK FALSE
