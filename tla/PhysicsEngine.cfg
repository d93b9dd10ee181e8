CONSTANTS
  f1 = f1
  f2 = f2
  f3 = f3
  FidIds = {f1, f2, f3}
  IgnoreFiducialIds = {f3}
  MaxLag = 2
  Positions <- MCPositions
  Sizes <- MCSizes
  MaxCopies = 1
  DetectFinger = TRUE
SPECIFICATION EngineSpec
INVARIANT EngineTypeOK
INVARIANT FoundIsListed
INVARIANT CornersAreCurrent
INVARIANT LostOnlyOnMiss
PROPERTY EngineImplementsPresence
SYMMETRY MCSymmetry
