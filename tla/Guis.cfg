CONSTANTS
  f1 = f1
  f2 = f2
  FidIds = {f1, f2}
  IgnoreFiducialIds = {}
  MaxLag = 2
  KeepsDuplicates = TRUE
  Positions <- MCPositions
  Sizes <- MCSizes
  MaxCopies = 1
  DetectFinger = FALSE
  MaxPages = 4
  Momentary = {3}
  Labels <- MCLabels
SPECIFICATION GuisSpec
INVARIANT ListenersAreBalanced
INVARIANT SegmentsAreLive
INVARIANT GuiTooTypeOK
 
SYMMETRY MCSymmetry
