CONSTANTS
  f1 = f1
  FidIds = {f1}
  Positions <- MCPositions
  Sizes <- MCSizes
  MaxCopies = 2
  DetectFinger = FALSE
SPECIFICATION TrackerSpec
PROPERTY SurvivesTwoMisses
