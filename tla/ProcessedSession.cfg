\* Two recordings of up to eight blocks of three items.
CONSTANTS
  DataLen = 8
  ReaderMaxCap = 1
  ZeroByte <- MCZeroItem
  BlockLen = 3
  Ratio = 3
  HourPolls = 2
  MaxRecordings = 2
  MaxMs = 8
SPECIFICATION FairSpec
INVARIANTS TypeOK NoTornBlock AveragesOfTheRecording
PROPERTIES ImagesInPairs AveragesWindDown
CHECK_DEADLOCK FALSE
