CONSTANTS
  Width = 5
  Height = 3
  MaxAdjacent = 2
  Points <- Places
  MaxFingerSize = 4
  MaxRegions = 3
  MaxFingers = 4
SPECIFICATION RecognitionSpec
INVARIANT RegionsAreExact
INVARIANT AdjacencyIsSound
INVARIANT SymbolsAreFound
INVARIANT StringsTellTrees
PROPERTY FingersFlicker
CHECK_DEADLOCK FALSE
