SPECIFICATION MCSpec
CONSTANTS
  CSize = 2
  Rule = {1, 2}
  NState = 4
  MaxCorrected = 2
  MAX_TX = 0
  SPECIAL_MIN_DEPTH = 1
  MAX_HEAD_SIZE = 1
  Dfas = {}
  Nfas <- LossyNfas
  Kinds = {"hybrid"}
  D2faDfas <- MCD2faDfas
  Diameters = {2, 4}
  DECREMENT = 2
INVARIANT SameRulesAsNfa
CHECK_DEADLOCK FALSE
