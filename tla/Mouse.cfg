CONSTANTS
  b1 = b1
  b2 = b2
  Buttons = {b1, b2}
  Width = 3
  MaxMoves = 1
  Points <- MCPoints
  Places <- MCPlaces
SPECIFICATION MouseSpec
INVARIANT MouseTypeOK
INVARIANT FlagsAreSound
INVARIANT ControlsFollowMouse
PROPERTY PressesPair
PROPERTY PressTakesEffect
PROPERTY RestingMouseMovesNothing
PROPERTY GripStaysUnderMouse
 
