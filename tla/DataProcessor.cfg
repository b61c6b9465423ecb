\* Two recordings of two streams.
CONSTANTS
  StreamCount = 2
  Modulus = 5
  Ahead = 1
  MaxQueue = 1
  Starts <- MCStarts
  Spread = 1
  Losses = {1, 6}
  MaxLosses = 1
  MaxMs = 3
SPECIFICATION FairSpec
INVARIANTS TypeOK BlocksTrue EveryMsIsShown
PROPERTIES OutputWindsDown
CHECK_DEADLOCK FALSE
