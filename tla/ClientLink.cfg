\* The client's network producer behind a connection that breaks between
\* or inside packets, and a viewer.  The client knows one of two plan items.
CONSTANTS
  ZeroByte <- MCZeroByte
  Recordings <- MCRecordings
  Recorded <- MCRecordings
  Known = {1}
  Main = Main
  Producer = Producer
  DataLen = 2
  ReaderMaxCap = 1
  FileConsumers = {}
  NetConsumers = {n}
  WriteSizes = {}
  Ftdi = FALSE
  ReadSize = 1
  DrainChunk = 1
  Faults = {}
  SlowFlips = TRUE
  PacketSizes = {1}
  MaxChan = 2
  Breaks = {"closed", "reset"}
  BreaksInData = TRUE
SPECIFICATION ClientFairSpec
INVARIANTS DataUnderItsStart OneRecordingEach
PROPERTIES LinkRecoversBetweenPackets RecordingWindsDown
