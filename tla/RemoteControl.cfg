CONSTANTS
  s1 = s1
  s2 = s2
  s3 = s3
  Sessions = {s1, s2, s3}
  MaxFingers = 3
  MaxCopies = 8
  Profiles = {"cur"}
  MaxSeen = 3
  MaxFrame = 4
  MaxRestarts = 1
  MaxInFlight = 1
SPECIFICATION ControlSpec
INVARIANT ListsAreSound
INVARIANT IdsAreDealtOnce
INVARIANT InOrderIsApplied
PROPERTY PairsAreCompared
CHECK_DEADLOCK FALSE
SYMMETRY MCSymmetry
