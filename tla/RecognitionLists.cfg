CONSTANTS
  Width = 4
  Height = 3
  MaxAdjacent = 10
  Points <- Places
  MaxFingerSize = 4
  MaxRegions = 3
  MaxFingers = 4
SPECIFICATION RecognitionSpec
INVARIANT CommonAdjacenciesAreRemoved
CHECK_DEADLOCK FALSE
