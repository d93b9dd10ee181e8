CONSTANTS
  f1 = f1
  f2 = f2
  FidIds = {f1, f2}
  IgnoreFiducialIds = {f2}
  MaxLag = 2
  KeepsDuplicates = TRUE
  Positions <- MCPositions
  Sizes <- MCSizes
  MaxCopies = 1
  DetectFinger = FALSE
SPECIFICATION FairManagerSpec
INVARIANT PageMirrorsState
INVARIANT ActivePageIsListed
INVARIANT ActivePageIsAtMarker
PROPERTY VanishedIsDeactivated
PROPERTY VisibleIsActivated
