\* A client vanishes while a recording lasts.
CONSTANTS
  ZeroByte <- MCZeroByte
  Main = Main
  Producer = Producer
  DataLen = 3
  ReaderMaxCap = 2
  FileConsumers = {f}
  NetConsumers = {n}
  Recordings = {1}
  Recorded = {1}
  WriteSizes = {1}
  Ftdi = FALSE
  ReadSize = 2
  DrainChunk = 1
  Faults = {"send"}
  SlowFlips = TRUE
SPECIFICATION FairSpec
PROPERTIES DataFlows
