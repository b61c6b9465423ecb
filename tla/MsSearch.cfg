\* Milliseconds of 3 bytes in a buffer of 11.  Bytes 4, 7 and 11 look like
\* headers and are none, the first two exactly a millisecond apart.  Chunks of 2
\* are shorter than a millisecond.
CONSTANTS
  DataLen = 11
  ReaderMaxCap = 1
  ZeroByte = 2
  BytesPerMs = 3
  WindowMs = 3
  ScanMs = 1
  ChunkSizes = {2, 4}
  LookAlikes = {4, 7, 11}
  MaxBytes = 24
  MaxGaps = 2
SPECIFICATION Spec
INVARIANTS TypeOK PeeksAreSafe SamplesInPlace MillisecondsInOrder FlushOnlyGaps
