CONSTANTS
  f1 = f1
  f2 = f2
  FidIds = {f1, f2}
  Positions <- MCPositions
  Sizes <- MCSizes
  MaxCopies = 2
  DetectFinger = FALSE
SPECIFICATION TrackerSpec
INVARIANT TrackerTypeOK
INVARIANT GoneAfterFourMisses
INVARIANT JitterIsBounded
PROPERTY ConfirmedSurvivesTwoMisses
SYMMETRY MCSymmetry
