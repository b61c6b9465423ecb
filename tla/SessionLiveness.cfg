\* Liveness of a file consumer over two recordings, one of them not kept.
CONSTANTS
  ZeroByte <- MCZeroByte
  Main = Main
  Producer = Producer
  DataLen = 5
  ReaderMaxCap = 2
  FileConsumers = {f}
  NetConsumers = {}
  Recordings = {1, 2}
  Recorded = {1}
  WriteSizes = {2}
  Ftdi = FALSE
  ReadSize = 3
  DrainChunk = 2
  Faults = {}
  SlowFlips = TRUE
SPECIFICATION FairSpec
INVARIANTS AtMostOneForeignBlock
PROPERTIES DataFlows RecordingWindsDown RecordingIsTakenUp
