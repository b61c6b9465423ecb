\* A client that vanishes at any point of a transmission and comes back, and a
\* device that may fail.
CONSTANTS
  ZeroByte <- MCZeroByte
  Main = Main
  Producer = Producer
  DataLen = 5
  ReaderMaxCap = 3
  FileConsumers = {}
  NetConsumers = {n}
  Recordings = {1}
  Recorded = {1}
  WriteSizes = {2}
  Ftdi = TRUE
  ReadSize = 3
  DrainChunk = 2
  Faults = {"send", "send_drain", "ftdi", "bind"}
  SlowFlips = FALSE
SPECIFICATION Spec
INVARIANTS DataFollowsStart
