\* The FTDI producer, a file consumer and a client that may vanish.
CONSTANTS
  ZeroByte <- MCZeroByte
  Main = Main
  Producer = Producer
  DataLen = 5
  ReaderMaxCap = 2
  FileConsumers = {f}
  NetConsumers = {n}
  Recordings = {1}
  Recorded = {1}
  WriteSizes = {0, 2}
  Ftdi = TRUE
  ReadSize = 3
  DrainChunk = 2
  Faults = {"send"}
  SlowFlips = TRUE
SPECIFICATION Spec
INVARIANTS TypeOK MutualExclusion NoTornRead PiecesAreUnread
PROPERTIES ImplementsQueues
