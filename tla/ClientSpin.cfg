\* A connection that breaks inside a DATA packet.
CONSTANTS
  ZeroByte <- MCZeroByte
  Recordings <- MCRecordings
  Recorded <- MCRecordings
  Known = {1}
  Main = Main
  Producer = Producer
  DataLen = 2
  ReaderMaxCap = 1
  FileConsumers = {f}
  NetConsumers = {}
  WriteSizes = {}
  Ftdi = FALSE
  ReadSize = 1
  DrainChunk = 1
  Faults = {}
  SlowFlips = TRUE
  PacketSizes = {1}
  MaxChan = 2
  Breaks = {"closed", "reset"}
  BreaksInData = TRUE
SPECIFICATION ClientFairSpec
PROPERTIES LinkRecovers
