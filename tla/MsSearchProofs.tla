--------------------------- MODULE MsSearchProofs ---------------------------
(***************************************************************************)
(* Theorems about MsSearch, for every stream, ring and search window.      *)
(*                                                                         *)
(* Amounts (AInv): the search peeks and copies outside the mutex.  What it *)
(* has seen under the mutex stays true, since the producer only adds       *)
(* bytes; and a chunk that is being written fits beside all unread bytes,  *)
(* so the lemmas of CircularBufferProofs keep it and what is peeked at     *)
(* apart.                                                                  *)
(*                                                                         *)
(* Content (CInv): the unread bytes are bytes of the device in their       *)
(* order, with gaps anywhere; all lie behind the last millisecond taken,   *)
(* at once while nothing is lost; and the bytes between two headers that   *)
(* have been found are the same bytes x wherever they are meanwhile, in    *)
(* the ring, in result, or partly here and partly there.                   *)
(***************************************************************************)
EXTENDS MsSearch, CircularBufferProofs

-----------------------------------------------------------------------------
(* Lengths. *)

ScanLen == ScanMs * BytesPerMs
WindowLen == WindowMs * BytesPerMs

LEMMA Multiples ==
    ASSUME NEW b \in Nat, NEW s \in Nat, NEW w \in Nat, s >= 1, w >= s + 2
    PROVE  /\ s * b \in Nat /\ w * b \in Nat /\ s * b >= b
           /\ (s + 1) * b = s * b + b
           /\ w * b >= s * b + 2 * b
  <1>. PICK c \in Nat : s = 1 + c
    <2>1. s - 1 \in Nat /\ s = 1 + (s - 1)
      BY SMT
    <2>. QED BY <2>1
  <1>. PICK d \in Nat : w = s + 2 + d
    <2>1. w - s - 2 \in Nat /\ w = s + 2 + (w - s - 2)
      BY SMT
    <2>. QED BY <2>1
  <1>1. c * b \in Nat /\ d * b \in Nat
    BY SMT
  <1>2. s * b = b + c * b /\ w * b = s * b + 2 * b + d * b
    BY SMT
  <1>. QED BY <1>1, <1>2, SMT

LEMMA Lengths ==
    /\ BytesPerMs \in Nat /\ BytesPerMs >= 3
    /\ ScanLen \in Nat /\ ScanLen >= BytesPerMs
    /\ (ScanMs + 1) * BytesPerMs = ScanLen + BytesPerMs
    /\ WindowLen \in Nat /\ WindowLen >= ScanLen + 2 * BytesPerMs
    /\ DataLen \in Nat /\ DataLen > WindowLen
    /\ \A len \in ChunkSizes : len \in Nat /\ len < DataLen
  <1>1. /\ BytesPerMs \in Nat /\ ScanMs \in Nat /\ WindowMs \in Nat
        /\ ScanMs >= 1 /\ WindowMs >= ScanMs + 2
    BY SearchAssumption
  <1>2. /\ ScanLen \in Nat /\ ScanLen >= BytesPerMs
        /\ (ScanMs + 1) * BytesPerMs = ScanLen + BytesPerMs
        /\ WindowLen \in Nat /\ WindowLen >= ScanLen + 2 * BytesPerMs
    BY <1>1, Multiples DEF ScanLen, WindowLen
  <1>3. DataLen \in Nat /\ DataLen > WindowLen /\ BytesPerMs >= 3
    BY SearchAssumption, DataLenAssumption DEF WindowLen
  <1>4. \A len \in ChunkSizes : len \in Nat /\ len < DataLen
    <2>1. \A len \in 1 .. DataLen - 1 : len \in Nat /\ len < DataLen
      BY <1>3, SMT
    <2>. QED BY <2>1, SearchAssumption
  <1>. QED BY <1>1, <1>2, <1>3, <1>4

-----------------------------------------------------------------------------
(* The buffer, with the processor as its only reader.                       *)

Buffer == Sound(cb, Int) /\ cb.reader_cnt = 1

TailOffset == cb.readerOffset[Processor]

\* The bytes between tail and head, from 1.
Queue == UnreadOf(cb, Processor)

LEMMA Reader ==
    ASSUME Buffer
    PROVE  /\ Processor \in Registered(cb) /\ Registered(cb) = {Processor}
           /\ Unread \in Nat /\ Unread < DataLen /\ TailOffset \in Offsets
           /\ \A k \in 1 .. Unread : Queue[k] \in Int
           /\ \A k \in 0 .. Unread - 1 :
                  /\ k \in Offsets /\ peekByte(k) = Queue[k + 1]
           /\ cb.recordingActive \in BOOLEAN
           /\ cb.data_ptr \in [Offsets -> Int]
  <1>1. Processor \in Registered(cb) /\ Registered(cb) = {Processor}
    BY SMT DEF Buffer, Registered, Processor
  <1>2. Unread \in Offsets
    BY <1>1, AvailableRange DEF Buffer, Unread
  <1>3. Unread \in Nat /\ Unread < DataLen /\ TailOffset \in Offsets
        /\ cb.data_ptr \in [Offsets -> Int] /\ cb.recordingActive \in BOOLEAN
    BY <1>1, <1>2, DataLenAssumption
    DEF Buffer, Sound, CircularBufferOf, Offsets, TailOffset
  <1>4. /\ Queue \in Seq(Int) /\ Len(Queue) = Unread
        /\ \A k \in 1 .. Unread :
               /\ k - 1 \in Offsets
               /\ Queue[k] = cb.data_ptr[UnreadOffset(cb, Processor, k - 1)]
    BY <1>1, UnreadIsSeq DEF Buffer, Unread, Queue
  <1>5. \A k \in 1 .. Unread : Queue[k] \in Int
    BY <1>4, ElementOfSeq
  <1>6. ASSUME NEW k \in 0 .. Unread - 1
        PROVE  k \in Offsets /\ peekByte(k) = Queue[k + 1]
    <2>1. k + 1 \in 1 .. Unread /\ (k + 1) - 1 = k
      BY <1>3, SMT
    <2>. QED BY <1>4, <2>1 DEF peekByte
  <1>. QED BY <1>1, <1>3, <1>5, <1>6

\* Everything up to the unread bytes may be confirmed, also if it is nothing.
LEMMA Confirms ==
    ASSUME Buffer, NEW len \in 0 .. Unread,
           cb' = ConfirmRead(cb, Processor, len)
    PROVE  /\ Buffer' /\ Unread' = Unread - len
           /\ TailOffset' = (TailOffset + len) % DataLen
           /\ \A k \in 1 .. Unread - len : Queue'[k] = Queue[len + k]
           /\ cb'.recordingActive = cb.recordingActive
  <1>0. cb'.recordingActive = cb.recordingActive
    BY DEF Buffer, Sound, CircularBufferOf, ConfirmRead
  <1>1. CASE len = 0
    <2>1. cb.readerOffset \in [Slots -> 0 .. DataLen]
      BY DEF Buffer, Sound, CircularBufferOf
    <2>2. (TailOffset + 0) % DataLen = TailOffset
      BY Reader, DataLenAssumption, ModSmall, SMT DEF Offsets
    <2>3. [cb.readerOffset EXCEPT ![Processor] = TailOffset] = cb.readerOffset
      BY <2>1 DEF TailOffset
    <2>4. cb' = [cb EXCEPT !.readerOffset =
                     [cb.readerOffset EXCEPT ![Processor] =
                          (TailOffset + 0) % DataLen]]
      BY <1>1 DEF ConfirmRead, TailOffset
    <2>5. cb' = cb
      BY <2>2, <2>3, <2>4 DEF Buffer, Sound, CircularBufferOf
    <2>6. Unread - 0 = Unread /\ \A k \in 1 .. Unread : 0 + k = k
      BY Reader, SMT
    <2>. QED BY <1>0, <1>1, <2>2, <2>5, <2>6
             DEF Buffer, Unread, TailOffset, Queue
  <1>2. CASE len # 0
    <2>1. len \in 1 .. Unread
      BY <1>2, Reader, SMT
    <2>2. Buffer' /\ Unread' = Unread - len
      BY <2>1, Reader, ConfirmReadAmounts DEF Buffer, Unread
    <2>3. cb.readerOffset \in [Slots -> 0 .. DataLen] /\ Processor \in Slots
      BY SearchAssumption, ReaderMaxCapAssumption, SMT
      DEF Buffer, Sound, CircularBufferOf, Slots, Processor
    <2>4. TailOffset' = (TailOffset + len) % DataLen
      BY <2>3 DEF ConfirmRead, TailOffset, Buffer, Sound, CircularBufferOf
    <2>5. Queue' = SubSeq(Queue, len + 1, Len(Queue))
      BY <2>1, Reader, ConfirmReadUnread DEF Buffer, Unread, Queue
    <2>6. Queue \in Seq(Int) /\ Len(Queue) = Unread
      BY Reader, UnreadIsSeq DEF Buffer, Unread, Queue
    <2>. PICK n \in Nat : n = Unread
      BY Reader
    <2>7. /\ len + 1 \in Int /\ n \in Int
          /\ \A k \in 1 .. n - len : /\ (len + 1) + k - 1 = len + k
                                     /\ k \in 1 .. n - (len + 1) + 1
          /\ \A k \in len + 1 .. n : k \in 1 .. n
      BY <2>1, SMT
    <2>8. \A k \in len + 1 .. n : Queue[k] \in Int
      BY <2>7, Reader
    <2>9. \A k \in 1 .. n - (len + 1) + 1 :
              SubSeq(Queue, len + 1, n)[k] = Queue[(len + 1) + k - 1]
      BY <2>6, <2>7, <2>8, SubSeqProperties
    <2>10. \A k \in 1 .. n - len : Queue'[k] = Queue[len + k]
      BY <2>5, <2>6, <2>7, <2>9
    <2>. QED BY <1>0, <2>2, <2>4, <2>10
  <1>. QED BY <1>1, <1>2

\* START and END.
LEMMA Flags ==
    ASSUME Buffer, NEW flag \in BOOLEAN,
           cb' = [cb EXCEPT !.recordingActive = flag]
    PROVE  /\ Buffer' /\ Unread' = Unread
           /\ TailOffset' = TailOffset /\ Queue' = Queue
           /\ cb'.recordingActive = flag
  <1>1. /\ cb'.data_ptr = cb.data_ptr /\ cb'.readerOffset = cb.readerOffset
        /\ cb'.data_head_offset = cb.data_head_offset
        /\ cb'.reader_cnt = cb.reader_cnt /\ cb'.recordingActive = flag
        /\ cb' \in CircularBufferOf(Int)
    BY DEF Buffer, Sound, CircularBufferOf
  <1>. QED BY <1>1 DEF Buffer, Sound, Registered, Unread, AvailableData,
                       TailOffset, Queue, UnreadOf, UnreadOffset

\* A chunk is copied and confirmed.
LEMMA Writes ==
    ASSUME Buffer, NEW from \in Int, NEW len \in Nat, len < DataLen,
           Unread + len <= DataLen - 1,
           cb' = ConfirmWrite(MemWrite(cb, [k \in 0 .. len - 1 |-> from + k],
                                       len), len)
    PROVE  /\ Buffer' /\ Unread' = Unread + len /\ TailOffset' = TailOffset
           /\ \A k \in 1 .. Unread : Queue'[k] = Queue[k]
           /\ \A k \in 1 .. len : Queue'[Unread + k] = from + (k - 1)
           /\ cb'.recordingActive = cb.recordingActive
  <1>. DEFINE src == [k \in 0 .. len - 1 |-> from + k]
              w == MemWrite(cb, src, len)
              block == [k \in 1 .. len |-> from + (k - 1)]
  <1>1. len \in Offsets
    BY DataLenAssumption, SMT DEF Offsets
  <1>2. src \in [0 .. len - 1 -> Int]
    BY SMT
  <1>3. /\ Sound(w, Int) /\ w.reader_cnt = 1
        /\ w.readerOffset = cb.readerOffset
        /\ AvailableData(w, Processor) = Unread
    BY <1>1, <1>2, MemWriteAmounts DEF Buffer, Unread
  <1>4. /\ w.recordingActive = cb.recordingActive
        /\ w.data_head_offset = cb.data_head_offset
    BY DEF Buffer, Sound, CircularBufferOf, MemWrite
  <1>5. Processor \in Registered(w) /\ Processor \in Registered(cb)
    BY <1>3, Reader, SMT DEF Registered, Processor
  <1>6. UnreadOf(w, Processor) = Queue
    BY <1>1, <1>2, <1>5, MemWriteUnread DEF Buffer, Unread, Queue
  <1>7. \A k \in 0 .. len - 1 :
            w.data_ptr[(cb.data_head_offset + k) % DataLen] = src[k]
    <2>. HIDE DEF src
    <2>1. ASSUME NEW k \in 0 .. len - 1
          PROVE  w.data_ptr[(cb.data_head_offset + k) % DataLen] = src[k]
      BY <1>1, MemWriteBlock DEF Buffer
    <2>. QED BY <2>1
  <1>8. /\ block \in Seq(Int) /\ Len(block) = len
        /\ \A k \in 1 .. len : block[k] = from + (k - 1)
    <2>1. \A k \in 1 .. len : from + (k - 1) \in Int
      BY SMT
    <2>2. block \in [1 .. len -> Int]
      BY <2>1
    <2>. QED BY <2>2, LenProperties
  <1>9. \A k \in 1 .. len :
            w.data_ptr[(w.data_head_offset + (k - 1)) % DataLen] = block[k]
    <2>1. \A k \in 1 .. len : k - 1 \in 0 .. len - 1
      BY SMT
    <2>. QED BY <1>4, <1>7, <1>8, <2>1
  <1>10. cb' = ConfirmWrite(w, len)
    OBVIOUS
  <1>. HIDE DEF w, block, src
  <1>11. /\ Buffer' /\ Unread' = Unread + len
         /\ cb'.readerOffset = w.readerOffset
    BY <1>1, <1>3, <1>5, <1>10, ConfirmWriteAmounts DEF Buffer, Unread
  <1>12. Queue' = Queue \o block
    <2>1. UnreadOf(ConfirmWrite(w, Len(block)), Processor)
              = UnreadOf(w, Processor) \o block
      BY <1>1, <1>3, <1>5, <1>8, <1>9, ConfirmWriteUnread, ZenonT(60)
    <2>. QED BY <1>6, <1>8, <1>10, <2>1 DEF Queue
  <1>13. Queue \in Seq(Int) /\ Len(Queue) = Unread /\ Unread \in Nat
    BY Reader, UnreadIsSeq DEF Buffer, Unread, Queue
  <1>. PICK n \in Nat : n = Unread
    BY <1>13
  <1>14. \A i \in 1 .. n + len :
             (Queue \o block)[i] = IF i <= n THEN Queue[i] ELSE block[i - n]
    BY <1>8, <1>13, ConcatProperties
  <1>15. /\ \A k \in 1 .. n : k \in 1 .. n + len /\ k <= n
         /\ \A k \in 1 .. len : /\ n + k \in 1 .. n + len /\ ~(n + k <= n)
                                /\ (n + k) - n = k
    BY SMT
  <1>16. \A k \in 1 .. len : (Queue \o block)[n + k] = block[k]
    BY <1>14, <1>15
  <1>17. cb'.recordingActive = cb.recordingActive /\ TailOffset' = TailOffset
    BY <1>3, <1>4, <1>10, <1>11
    DEF ConfirmWrite, Sound, CircularBufferOf, TailOffset
  <1>. QED BY <1>8, <1>11, <1>12, <1>14, <1>15, <1>16, <1>17, ZenonT(60)

\* What circularBufferReadData gives of a millisecond.
LEMMA Piece ==
    ASSUME NEW b, Sound(b, Int), Processor \in Registered(b),
           AvailableData(b, Processor) >= BytesPerMs
    PROVE  LET len == ReadData(b, Processor, BytesPerMs)
           IN  /\ len \in 1 .. BytesPerMs
               /\ b.readerOffset[Processor] + len <= DataLen
               /\ len < BytesPerMs => b.readerOffset[Processor] + len = DataLen
  <1>1. b.readerOffset[Processor] \in Offsets /\ b.data_head_offset \in Offsets
    BY DEF Sound, CircularBufferOf
  <1>2. BytesPerMs \in Nat /\ BytesPerMs >= 3 /\ DataLen \in Nat
    BY Lengths
  <1>. QED BY <1>1, <1>2, SMT DEF ReadData, AvailableData, Offsets

-----------------------------------------------------------------------------
(* Amounts: what is found in the buffer under the mutex stays there.        *)

Phases == {"idle", "await", "scan", "flush", "skip", "copy", "rest",
           "copy_rest", "confirm", "return", "drain"}

ProducerTyped ==
    /\ next \in 0 .. MaxBytes + BytesPerMs
    /\ wchunk \in [from : 0 .. MaxBytes, len : ChunkSizes \cup {0}]
    /\ gaps \in 0 .. MaxGaps /\ lost \in BOOLEAN

ProcessorTyped ==
    /\ pc \in Phases
    /\ searchPos \in 0 .. ScanLen - 1
    /\ readLen \in 0 .. BytesPerMs
    /\ \E n \in 1 .. BytesPerMs : result \in [0 .. n - 1 -> Int]

\* A chunk that is being written fits beside the unread bytes.
ChunkFits ==
    Producing => /\ wchunk.len \in ChunkSizes
                 /\ Unread + wchunk.len <= DataLen - 1
                 /\ next = wchunk.from + wchunk.len

\* What is left of the bytes that Await has waited for: until the millisecond
\* is taken, it and one byte more.
MsThere ==
    /\ pc \in {"scan", "flush", "skip"} => Unread >= WindowLen
    /\ pc \in {"copy", "rest"} =>
           /\ Unread >= BytesPerMs + 1
           /\ readLen \in 1 .. BytesPerMs
           /\ TailOffset + readLen <= DataLen
           /\ readLen < BytesPerMs => TailOffset + readLen = DataLen
    /\ pc = "rest" =>
           readLen < BytesPerMs /\ result \in [0 .. readLen - 1 -> Int]
    /\ pc = "copy_rest" =>
           /\ readLen \in 1 .. BytesPerMs - 1
           /\ Unread >= readLen + 1
           /\ TailOffset = 0
           /\ result \in [0 .. BytesPerMs - readLen - 1 -> Int]
    /\ pc = "confirm" => readLen \in 1 .. BytesPerMs /\ Unread >= readLen + 1
    /\ pc \in {"confirm", "return"} => result \in [PositionInMs -> Int]
    /\ pc = "return" => Unread >= 1

AInv == Buffer /\ ProducerTyped /\ ProcessorTyped /\ ChunkFits /\ MsThere

LEMMA InitAInv == Init => AInv
  <1>. SUFFICES ASSUME Init PROVE AInv
    OBVIOUS
  <1>1. ZeroByte \in Int /\ 0 < ReaderMaxCap /\ ReaderMaxCap \in Nat
    BY SearchAssumption, ReaderMaxCapAssumption, SMT
  <1>2. Sound(EmptyBuffer, Int) /\ EmptyBuffer.reader_cnt = 0
    BY <1>1, EmptyBufferSound DEF EmptyBuffer
  <1>3. Buffer
    BY <1>1, <1>2, RegisterAmounts, SMT DEF Init, Buffer
  <1>4. ProducerTyped
    <2>1. MaxBytes \in Nat /\ MaxGaps \in Nat
      BY SearchAssumption
    <2>2. next \in 0 .. BytesPerMs - 1 /\ gaps = 0
      BY DEF Init, PositionInMs
    <2>3. next \in 0 .. MaxBytes + BytesPerMs /\ gaps \in 0 .. MaxGaps
          /\ 0 \in 0 .. MaxBytes
      BY <2>1, <2>2, Lengths, SMT
    <2>. QED BY <2>3 DEF Init, ProducerTyped, NoChunk
  <1>5. ProcessorTyped
    <2>1. 0 \in 0 .. ScanLen - 1 /\ 0 \in 0 .. BytesPerMs
          /\ BytesPerMs \in 1 .. BytesPerMs
      BY Lengths, SMT
    <2>2. result \in [0 .. BytesPerMs - 1 -> Int]
      BY <1>1 DEF Init, PositionInMs
    <2>. QED BY <2>1, <2>2 DEF Init, ProcessorTyped, Phases
  <1>. QED BY <1>3, <1>4, <1>5 DEF Init, AInv, ChunkFits, Producing, MsThere

\* More may be there.
LEMMA MoreIsThere ==
    ASSUME AInv, Buffer', Unread' >= Unread, TailOffset' = TailOffset,
           UNCHANGED <<pc, searchPos, readLen, result>>
    PROVE  MsThere' /\ ProcessorTyped'
  <1>1. ProcessorTyped'
    BY DEF AInv, ProcessorTyped
  <1>2. Unread \in Nat /\ Unread' \in Nat
    <2>1. Processor \in Registered(cb') /\ Sound(cb', Int)
      BY SMT DEF Buffer, Registered, Processor
    <2>2. AvailableData(cb', Processor) \in Offsets
      BY <2>1, AvailableRange
    <2>. QED BY <2>2, Reader, DataLenAssumption, SMT DEF AInv, Unread, Offsets
  <1>3. /\ Unread >= WindowLen => Unread' >= WindowLen
        /\ Unread >= BytesPerMs + 1 => Unread' >= BytesPerMs + 1
        /\ readLen \in Nat /\ Unread >= readLen + 1 => Unread' >= readLen + 1
        /\ Unread >= 1 => Unread' >= 1
    BY <1>2, Lengths, SMT
  <1>4. readLen \in Nat
    BY Lengths, SMT DEF AInv, ProcessorTyped
  <1>. QED BY <1>1, <1>3, <1>4 DEF AInv, MsThere

LEMMA ProducerKeepsAInv ==
    ASSUME AInv, Producer
    PROVE  AInv'
  <1>a. Unread \in Nat /\ BytesPerMs \in Nat /\ MaxBytes \in Nat
        /\ MaxGaps \in Nat /\ Unread >= Unread
    BY Reader, Lengths, SearchAssumption, SMT DEF AInv
  <1>b. /\ next \in 0 .. MaxBytes + BytesPerMs /\ gaps \in 0 .. MaxGaps
        /\ wchunk \in [from : 0 .. MaxBytes, len : ChunkSizes \cup {0}]
        /\ lost \in BOOLEAN
    BY DEF AInv, ProducerTyped
  <1>1. ASSUME NEW flag \in BOOLEAN, ~Producing,
               cb' = [cb EXCEPT !.recordingActive = flag],
               UNCHANGED <<next, wchunk, gaps>>,
               UNCHANGED <<pc, searchPos, readLen, result>>,
               lost' \in BOOLEAN
        PROVE  AInv'
    <2>1. Buffer' /\ Unread' = Unread /\ TailOffset' = TailOffset
      BY <1>1, Flags DEF AInv
    <2>2. MsThere' /\ ProcessorTyped'
      BY <1>1, <1>a, <2>1, MoreIsThere
    <2>. QED BY <1>1, <1>b, <2>1, <2>2
             DEF AInv, ProducerTyped, ChunkFits, Producing
  <1>2. CASE Start \/ End
    BY <1>1, <1>2, <1>b DEF Start, End, producerVars, processorVars
  <1>3. ASSUME NEW len \in 1 .. BytesPerMs, Gap(len)
        PROVE  AInv'
    <2>1. /\ UNCHANGED <<cb, wchunk, pc, searchPos, readLen, result>>
          /\ gaps < MaxGaps /\ gaps' = gaps + 1 /\ lost' = TRUE
          /\ next + len <= MaxBytes /\ next' = next + len /\ ~Producing
      BY <1>3 DEF Gap, processorVars
    <2>2. next' \in 0 .. MaxBytes + BytesPerMs /\ gaps' \in 0 .. MaxGaps
      BY <1>a, <1>b, <2>1, SMT
    <2>3. Buffer' /\ Unread' = Unread /\ TailOffset' = TailOffset
      BY <2>1 DEF AInv, Buffer, Unread, TailOffset
    <2>4. MsThere' /\ ProcessorTyped'
      BY <1>a, <2>1, <2>3, MoreIsThere
    <2>. QED BY <1>b, <2>1, <2>2, <2>3, <2>4
             DEF AInv, ProducerTyped, ChunkFits, Producing
  <1>4. ASSUME NEW len \in ChunkSizes, Receive(len)
        PROVE  AInv'
    <2>1. /\ UNCHANGED <<cb, gaps, pc, searchPos, readLen, result>>
          /\ next + len <= MaxBytes /\ next' = next + len /\ ~Producing
          /\ \/ /\ WriterSpace(cb) >= len
                /\ wchunk' = [from |-> next, len |-> len]
                /\ lost' = lost
             \/ wchunk' = wchunk /\ lost' = TRUE
      BY <1>4 DEF Receive, processorVars
    <2>2. len \in Nat
      BY Lengths
    <2>3. next' \in 0 .. MaxBytes + BytesPerMs /\ next \in 0 .. MaxBytes
      BY <1>a, <1>b, <2>1, <2>2, SMT
    <2>4. Buffer' /\ Unread' = Unread /\ TailOffset' = TailOffset
      BY <2>1 DEF AInv, Buffer, Unread, TailOffset
    <2>5. MsThere' /\ ProcessorTyped'
      BY <1>a, <2>1, <2>4, MoreIsThere
    <2>6. ProducerTyped'
      <3>1. wchunk' \in [from : 0 .. MaxBytes, len : ChunkSizes \cup {0}]
        <4>1. CASE wchunk' = [from |-> next, len |-> len]
          BY <2>3, <4>1
        <4>2. CASE wchunk' = wchunk
          BY <1>b, <4>2
        <4>. QED BY <2>1, <4>1, <4>2
      <3>2. lost' \in BOOLEAN
        BY <1>b, <2>1
      <3>. QED BY <1>b, <2>1, <2>3, <3>1, <3>2 DEF ProducerTyped
    <2>7. WriterSpace(cb) >= len => Unread + len <= DataLen - 1
      BY <2>2, Reader, WriterSpaceFits DEF AInv, Buffer, Unread
    <2>8. ChunkFits'
      BY <2>1, <2>4, <2>7 DEF ChunkFits, Producing
    <2>. QED BY <2>4, <2>5, <2>6, <2>8 DEF AInv
  <1>5. CASE Write
    <2>1. /\ Producing /\ wchunk' = NoChunk
          /\ UNCHANGED <<next, gaps, lost, pc, searchPos, readLen, result>>
      BY <1>5 DEF Write, processorVars
    <2>2. /\ wchunk.len \in ChunkSizes /\ wchunk.from \in Int
          /\ Unread + wchunk.len <= DataLen - 1
      BY <1>a, <1>b, <2>1 DEF AInv, ChunkFits
    <2>3. wchunk.len \in Nat /\ wchunk.len < DataLen
      BY <2>2, Lengths
    <2>4. Buffer' /\ Unread' = Unread + wchunk.len /\ TailOffset' = TailOffset
      BY <1>5, <2>2, <2>3, Writes DEF AInv, Write
    <2>5. Unread' >= Unread
      BY <1>a, <2>3, <2>4, SMT
    <2>6. MsThere' /\ ProcessorTyped'
      BY <2>1, <2>4, <2>5, MoreIsThere
    <2>7. 0 \in 0 .. MaxBytes
      BY <1>a, SMT
    <2>. QED BY <1>b, <2>1, <2>4, <2>6, <2>7
             DEF AInv, ProducerTyped, ChunkFits, Producing, NoChunk
  <1>. QED BY <1>2, <1>3, <1>4, <1>5 DEF Producer

LEMMA MinOf ==
    ASSUME NEW n \in Nat, NEW S, S # {}, S \subseteq 0 .. n
    PROVE  Min(S) \in S /\ \A y \in S : Min(S) <= y
  <1>1. \E s \in S : \A y \in S : s <= y
    BY LeastElement
  <1>. QED BY <1>1 DEF Min

\* The processor only takes from the buffer.
LEMMA TakesKeep ==
    ASSUME AInv, UNCHANGED producerVars, NEW len \in 0 .. Unread,
           Unread' = Unread - len
    PROVE  ProducerTyped' /\ ChunkFits'
  <1>1. UNCHANGED <<next, wchunk, gaps, lost>>
    BY DEF producerVars
  <1>2. ASSUME Producing
        PROVE  Unread - len + wchunk.len <= DataLen - 1
    <2>1. wchunk.len \in Nat /\ Unread + wchunk.len <= DataLen - 1
      BY <1>2, Lengths DEF AInv, ChunkFits
    <2>. QED BY <2>1, Reader, Lengths, SMT DEF AInv
  <1>. QED BY <1>1, <1>2 DEF AInv, ProducerTyped, ChunkFits, Producing

\* A step of the processor that leaves the buffer alone.
LEMMA LooksKeep ==
    ASSUME AInv, UNCHANGED <<cb, producerVars>>, MsThere', ProcessorTyped'
    PROVE  AInv'
  <1>1. Buffer' /\ Unread' = Unread
    BY DEF AInv, Buffer, Unread
  <1>2. 0 \in 0 .. Unread /\ Unread' = Unread - 0
    BY <1>1, Reader, SMT DEF AInv
  <1>3. UNCHANGED producerVars
    OBVIOUS
  <1>4. ProducerTyped' /\ ChunkFits'
    BY <1>2, <1>3, TakesKeep
  <1>. QED BY <1>1, <1>4 DEF AInv

\* The bytes at the tail that a raw pointer gives.
LEMMA RawTyped ==
    ASSUME AInv, NEW len \in Nat, TailOffset + len <= DataLen
    PROVE  /\ \A k \in 0 .. len - 1 : /\ TailOffset + k \in Offsets
                                      /\ cb.data_ptr[TailOffset + k] \in Int
           /\ RawBytes(len) \in [0 .. len - 1 -> Int]
  <1>1. \A k \in 0 .. len - 1 : TailOffset + k \in Offsets
    BY Reader, Lengths, SMT DEF AInv, Offsets
  <1>2. \A k \in 0 .. len - 1 : cb.data_ptr[TailOffset + k] \in Int
    BY <1>1, Reader DEF AInv
  <1>. QED BY <1>1, <1>2 DEF RawBytes, TailOffset

\* Await, Scan, WaitForRecording, UseMillisecond.
LEMMA LooksKeepAInv ==
    ASSUME AInv, Await \/ Scan \/ WaitForRecording \/ UseMillisecond
    PROVE  AInv'
  <1>0. UNCHANGED <<cb, producerVars, readLen, result>>
    BY DEF Await, Scan, WaitForRecording, UseMillisecond
  <1>1. CASE Await \/ WaitForRecording \/ UseMillisecond
    <2>1. UNCHANGED searchPos /\ pc' \in {"scan", "drain", "await"}
      BY <1>1 DEF Await, WaitForRecording, UseMillisecond, Goto
    <2>2. pc' = "scan" => Unread' >= WindowLen
      BY <1>1 DEF Await, WaitForRecording, UseMillisecond, Goto, Unread,
                  WindowLen
    <2>3. MsThere'
      BY <2>1, <2>2 DEF MsThere
    <2>4. ProcessorTyped'
      BY <1>0, <2>1 DEF AInv, ProcessorTyped, Phases
    <2>. QED BY <1>0, <2>3, <2>4, LooksKeep
  <1>2. CASE Scan
    <2>. DEFINE found == {p \in 0 .. ScanLen - 1 : MillisecondAt(p)}
    <2>1. /\ pc = "scan"
          /\ \/ pc' = "flush" /\ UNCHANGED searchPos
             \/ found # {} /\ pc' = "skip" /\ searchPos' = Min(found)
      BY <1>2 DEF Scan, Goto, ScanLen
    <2>2. ScanLen - 1 \in Nat
      BY Lengths, SMT
    <2>3. found # {} => Min(found) \in 0 .. ScanLen - 1
      BY <2>2, MinOf
    <2>. HIDE DEF found
    <2>4. ProcessorTyped'
      BY <1>0, <2>1, <2>3 DEF AInv, ProcessorTyped, Phases
    <2>5. Unread >= WindowLen /\ Unread' = Unread
      BY <1>0, <2>1 DEF AInv, MsThere, Unread
    <2>6. MsThere'
      BY <2>1, <2>5 DEF MsThere
    <2>. QED BY <1>0, <2>4, <2>6, LooksKeep
  <1>. QED BY <1>1, <1>2

LEMMA FlushKeepsAInv ==
    ASSUME AInv, Flush
    PROVE  AInv'
  <1>1. /\ pc = "flush" /\ cb' = ConfirmRead(cb, Processor, ScanLen)
        /\ pc' = "await"
        /\ UNCHANGED <<producerVars, searchPos, readLen, result>>
    BY DEF Flush, Goto, ScanLen
  <1>2. ScanLen \in 0 .. Unread
    <2>1. Unread >= WindowLen /\ Unread \in Nat
      BY <1>1, Reader DEF AInv, MsThere
    <2>. QED BY <2>1, Lengths, SMT
  <1>3. Buffer' /\ Unread' = Unread - ScanLen
    BY <1>1, <1>2, Confirms DEF AInv
  <1>4. UNCHANGED producerVars
    BY <1>1
  <1>5. ProducerTyped' /\ ChunkFits'
    BY <1>2, <1>3, <1>4, TakesKeep
  <1>6. ProcessorTyped' /\ MsThere'
    BY <1>1 DEF AInv, ProcessorTyped, MsThere, Phases
  <1>. QED BY <1>3, <1>5, <1>6 DEF AInv

\* What Skip leaves: a millisecond, a byte more, and the first piece of it.
LEMMA Skipped ==
    ASSUME AInv, Skip
    PROVE  /\ searchPos \in 0 .. Unread
           /\ Buffer' /\ Unread' = Unread - searchPos
           /\ Unread' >= BytesPerMs + 1
           /\ readLen' \in 1 .. BytesPerMs
           /\ TailOffset' + readLen' <= DataLen
           /\ readLen' < BytesPerMs => TailOffset' + readLen' = DataLen
           /\ \A k \in 1 .. Unread - searchPos :
                  Queue'[k] = Queue[searchPos + k]
           /\ cb'.recordingActive = cb.recordingActive
  <1>1. /\ pc = "skip" /\ cb' = ConfirmRead(cb, Processor, searchPos)
        /\ readLen' = ReadData(cb', Processor, BytesPerMs)
    BY DEF Skip
  <1>2. searchPos \in 0 .. Unread /\ Unread - searchPos >= BytesPerMs + 1
        /\ Unread - searchPos >= BytesPerMs
    <2>1. /\ Unread >= WindowLen /\ Unread \in Nat
          /\ searchPos \in 0 .. ScanLen - 1
      BY <1>1, Reader DEF AInv, MsThere, ProcessorTyped
    <2>. QED BY <2>1, Lengths, SMT
  <1>3. /\ Buffer' /\ Unread' = Unread - searchPos
        /\ \A k \in 1 .. Unread - searchPos :
               Queue'[k] = Queue[searchPos + k]
        /\ cb'.recordingActive = cb.recordingActive
    BY <1>1, <1>2, Confirms DEF AInv
  <1>4. Processor \in Registered(cb') /\ Sound(cb', Int)
    BY <1>3, SMT DEF Buffer, Registered, Processor
  <1>5. AvailableData(cb', Processor) >= BytesPerMs
    BY <1>2, <1>3 DEF Unread
  <1>6. /\ readLen' \in 1 .. BytesPerMs
        /\ TailOffset' + readLen' <= DataLen
        /\ readLen' < BytesPerMs => TailOffset' + readLen' = DataLen
    BY <1>1, <1>4, <1>5, Piece DEF TailOffset
  <1>. QED BY <1>2, <1>3, <1>6

LEMMA SkipKeepsAInv ==
    ASSUME AInv, Skip
    PROVE  AInv'
  <1>1. /\ pc' = "copy" /\ UNCHANGED <<searchPos, result>>
        /\ UNCHANGED producerVars
    BY DEF Skip, Goto
  <1>2. readLen' \in 0 .. BytesPerMs
    <2>1. readLen' \in 1 .. BytesPerMs
      BY Skipped
    <2>. QED BY <2>1, Lengths, SMT
  <1>3. ProducerTyped' /\ ChunkFits'
    BY <1>1, Skipped, TakesKeep
  <1>4. ProcessorTyped'
    BY <1>1, <1>2 DEF AInv, ProcessorTyped, Phases
  <1>5. MsThere'
    BY <1>1, Skipped DEF MsThere
  <1>. QED BY <1>3, <1>4, <1>5, Skipped DEF AInv

LEMMA CopyKeepsAInv ==
    ASSUME AInv, Copy
    PROVE  AInv'
  <1>1. /\ pc = "copy" /\ result' = RawBytes(readLen)
        /\ pc' = IF readLen < BytesPerMs THEN "rest" ELSE "confirm"
        /\ UNCHANGED <<cb, producerVars, searchPos, readLen>>
    BY DEF Copy, Goto
  <1>2. /\ Unread >= BytesPerMs + 1 /\ readLen \in 1 .. BytesPerMs
        /\ TailOffset + readLen <= DataLen
        /\ readLen < BytesPerMs => TailOffset + readLen = DataLen
    BY <1>1 DEF AInv, MsThere
  <1>3. readLen \in Nat /\ (~(readLen < BytesPerMs) => readLen = BytesPerMs)
    BY <1>2, Lengths, SMT
  <1>4. result' \in [0 .. readLen - 1 -> Int]
    BY <1>1, <1>2, <1>3, RawTyped
  <1>5. Unread >= readLen + 1
    BY <1>2, Reader, Lengths, SMT DEF AInv
  <1>6. Unread' = Unread /\ TailOffset' = TailOffset
    BY <1>1 DEF Unread, TailOffset
  <1>7. ProcessorTyped'
    BY <1>1, <1>2, <1>4 DEF AInv, ProcessorTyped, Phases
  <1>8. MsThere'
    <2>1. CASE readLen < BytesPerMs
      BY <1>1, <1>2, <1>4, <1>6, <2>1 DEF MsThere
    <2>2. CASE ~(readLen < BytesPerMs)
      BY <1>1, <1>2, <1>3, <1>4, <1>5, <1>6, <2>2 DEF MsThere, PositionInMs
    <2>. QED BY <2>1, <2>2
  <1>. QED BY <1>1, <1>7, <1>8, LooksKeep

\* The first piece is confirmed, and the buffer goes on at its start.
LEMMA RestLeaves ==
    ASSUME AInv, Rest
    PROVE  /\ readLen \in 1 .. BytesPerMs - 1 /\ readLen \in 0 .. Unread
           /\ readLen' = BytesPerMs - readLen
           /\ readLen' \in 1 .. BytesPerMs - 1
           /\ Buffer' /\ Unread' = Unread - readLen
           /\ Unread' >= readLen' + 1 /\ TailOffset' = 0
           /\ \A k \in 1 .. Unread - readLen : Queue'[k] = Queue[readLen + k]
           /\ cb'.recordingActive = cb.recordingActive
  <1>1. /\ pc = "rest" /\ cb' = ConfirmRead(cb, Processor, readLen)
        /\ readLen' = BytesPerMs - readLen
    BY DEF Rest
  <1>2. /\ Unread >= BytesPerMs + 1 /\ readLen \in 1 .. BytesPerMs
        /\ readLen < BytesPerMs /\ TailOffset + readLen = DataLen
    BY <1>1 DEF AInv, MsThere
  <1>3. /\ readLen \in 1 .. BytesPerMs - 1 /\ readLen \in 0 .. Unread
        /\ BytesPerMs - readLen \in 1 .. BytesPerMs - 1
        /\ Unread - readLen >= (BytesPerMs - readLen) + 1
    BY <1>2, Reader, Lengths, SMT DEF AInv
  <1>4. /\ Buffer' /\ Unread' = Unread - readLen
        /\ TailOffset' = (TailOffset + readLen) % DataLen
        /\ \A k \in 1 .. Unread - readLen : Queue'[k] = Queue[readLen + k]
        /\ cb'.recordingActive = cb.recordingActive
    BY <1>1, <1>3, Confirms DEF AInv
  <1>5. DataLen % DataLen = 0
    BY DataLenAssumption, ModWrap, SMT
  <1>. QED BY <1>1, <1>2, <1>3, <1>4, <1>5

LEMMA RestKeepsAInv ==
    ASSUME AInv, Rest
    PROVE  AInv'
  <1>1. /\ pc = "rest" /\ pc' = "copy_rest" /\ UNCHANGED <<searchPos, result>>
        /\ UNCHANGED producerVars
    BY DEF Rest, Goto
  <1>2. result \in [0 .. readLen - 1 -> Int]
    BY <1>1 DEF AInv, MsThere
  <1>3. BytesPerMs - readLen' = readLen /\ readLen' \in 0 .. BytesPerMs
    <2>1. /\ readLen \in 1 .. BytesPerMs - 1 /\ readLen' = BytesPerMs - readLen
      BY RestLeaves
    <2>. QED BY <2>1, Lengths, SMT
  <1>4. ProducerTyped' /\ ChunkFits'
    BY <1>1, RestLeaves, TakesKeep
  <1>5. ProcessorTyped'
    BY <1>1, <1>3 DEF AInv, ProcessorTyped, Phases
  <1>6. MsThere'
    BY <1>1, <1>2, <1>3, RestLeaves DEF MsThere
  <1>. QED BY <1>4, <1>5, <1>6, RestLeaves DEF AInv

\* The second piece completes the millisecond.
LEMMA CopyRestGives ==
    ASSUME AInv, CopyRest
    PROVE  /\ readLen \in 1 .. BytesPerMs - 1
           /\ result' \in [PositionInMs -> Int]
           /\ \A k \in 0 .. BytesPerMs - readLen - 1 : result'[k] = result[k]
           /\ \A k \in 0 .. readLen - 1 :
                  result'[(BytesPerMs - readLen) + k] = cb.data_ptr[k]
  <1>1. /\ pc = "copy_rest"
        /\ result' = [k \in PositionInMs |->
                         IF k \in DOMAIN result THEN result[k]
                         ELSE RawBytes(BytesPerMs)
                                  [k - Cardinality(DOMAIN result)]]
    BY DEF CopyRest
  <1>2. /\ readLen \in 1 .. BytesPerMs - 1 /\ Unread >= readLen + 1
        /\ TailOffset = 0
        /\ result \in [0 .. BytesPerMs - readLen - 1 -> Int]
    BY <1>1 DEF AInv, MsThere
  <1>. PICK f \in Nat : f = BytesPerMs - readLen
    <2>1. BytesPerMs - readLen \in Nat
      BY <1>2, Lengths, SMT
    <2>. QED BY <2>1
  <1>3. DOMAIN result = 0 .. f - 1 /\ Cardinality(0 .. f - 1) = f
    <2>1. 0 \in Int /\ f - 1 \in Int
      BY SMT
    <2>2. Cardinality(0 .. f - 1) = IF 0 > f - 1 THEN 0 ELSE (f - 1) - 0 + 1
      BY <2>1, FS_Interval
    <2>3. (IF 0 > f - 1 THEN 0 ELSE (f - 1) - 0 + 1) = f
      BY SMT
    <2>. QED BY <1>2, <2>2, <2>3
  <1>4. /\ f + readLen = BytesPerMs /\ f \in Nat /\ readLen \in Nat
        /\ BytesPerMs \in Nat /\ BytesPerMs < DataLen
    BY <1>2, Lengths, SMT
  <1>5. /\ \A k \in PositionInMs : k \notin 0 .. f - 1 =>
               k - f \in 0 .. readLen - 1
        /\ \A k \in 0 .. readLen - 1 :
               /\ f + k \in PositionInMs /\ f + k \notin 0 .. f - 1
               /\ (f + k) - f = k /\ k \in 0 .. BytesPerMs - 1
               /\ k \in Offsets /\ 0 + k = k
        /\ \A k \in 0 .. f - 1 : k \in PositionInMs
        /\ 0 + BytesPerMs <= DataLen
    <2>1. \A k \in 0 .. BytesPerMs - 1 : k \notin 0 .. f - 1 =>
              k - f \in 0 .. readLen - 1
      BY <1>4, SMT
    <2>2. \A k \in 0 .. readLen - 1 :
               /\ f + k \in 0 .. BytesPerMs - 1 /\ f + k \notin 0 .. f - 1
               /\ (f + k) - f = k /\ k \in 0 .. BytesPerMs - 1
               /\ k \in 0 .. DataLen - 1 /\ 0 + k = k
      BY <1>4, DataLenAssumption, SMT
    <2>3. \A k \in 0 .. f - 1 : k \in 0 .. BytesPerMs - 1
      BY <1>4, SMT
    <2>4. 0 + BytesPerMs <= DataLen
      BY <1>4, DataLenAssumption, SMT
    <2>. QED BY <2>1, <2>2, <2>3, <2>4 DEF PositionInMs, Offsets
  <1>6. \A k \in 0 .. readLen - 1 : /\ RawBytes(BytesPerMs)[k] = cb.data_ptr[k]
                                    /\ cb.data_ptr[k] \in Int
    BY <1>2, <1>5, Reader DEF RawBytes, TailOffset, AInv
  <1>7. ASSUME NEW k \in PositionInMs
        PROVE  result'[k] = IF k \in 0 .. f - 1 THEN result[k]
                            ELSE cb.data_ptr[k - f]
    BY <1>1, <1>3, <1>5, <1>6
  <1>8. ASSUME NEW k \in PositionInMs
        PROVE  result'[k] \in Int
    <2>1. CASE k \in 0 .. f - 1
      BY <1>2, <1>3, <1>7, <2>1
    <2>2. CASE k \notin 0 .. f - 1
      BY <1>5, <1>6, <1>7, <2>2
    <2>. QED BY <2>1, <2>2
  <1>9. result' \in [PositionInMs -> Int]
    BY <1>1, <1>8
  <1>10. \A k \in 0 .. f - 1 : result'[k] = result[k]
    BY <1>5, <1>7
  <1>11. \A k \in 0 .. readLen - 1 : result'[f + k] = cb.data_ptr[k]
    BY <1>5, <1>7
  <1>. QED BY <1>2, <1>9, <1>10, <1>11

LEMMA CopyRestKeepsAInv ==
    ASSUME AInv, CopyRest
    PROVE  AInv'
  <1>1. /\ pc = "copy_rest" /\ pc' = "confirm"
        /\ UNCHANGED <<cb, producerVars, searchPos, readLen>>
    BY DEF CopyRest, Goto
  <1>2. Unread >= readLen + 1 /\ Unread' = Unread
    BY <1>1 DEF AInv, MsThere, Unread
  <1>3. readLen \in 1 .. BytesPerMs /\ BytesPerMs \in 1 .. BytesPerMs
    <2>1. readLen \in 1 .. BytesPerMs - 1
      BY CopyRestGives
    <2>. QED BY <2>1, Lengths, SMT
  <1>4. result' \in [0 .. BytesPerMs - 1 -> Int]
    BY CopyRestGives DEF PositionInMs
  <1>5. ProcessorTyped'
    BY <1>1, <1>3, <1>4 DEF AInv, ProcessorTyped, Phases
  <1>6. MsThere'
    BY <1>1, <1>2, <1>3, CopyRestGives DEF MsThere
  <1>. QED BY <1>1, <1>5, <1>6, LooksKeep

LEMMA ConfirmTakes ==
    ASSUME AInv, Confirm
    PROVE  /\ readLen \in 0 .. Unread
           /\ Buffer' /\ Unread' = Unread - readLen /\ Unread' >= 1
           /\ \A k \in 1 .. Unread - readLen : Queue'[k] = Queue[readLen + k]
           /\ cb'.recordingActive = cb.recordingActive
  <1>1. pc = "confirm" /\ cb' = ConfirmRead(cb, Processor, readLen)
    BY DEF Confirm
  <1>2. readLen \in 0 .. Unread /\ Unread - readLen >= 1
    <2>1. readLen \in 1 .. BytesPerMs /\ Unread >= readLen + 1
      BY <1>1 DEF AInv, MsThere
    <2>. QED BY <2>1, Reader, Lengths, SMT DEF AInv
  <1>3. /\ Buffer' /\ Unread' = Unread - readLen
        /\ \A k \in 1 .. Unread - readLen : Queue'[k] = Queue[readLen + k]
        /\ cb'.recordingActive = cb.recordingActive
    BY <1>1, <1>2, Confirms DEF AInv
  <1>. QED BY <1>2, <1>3

LEMMA ConfirmKeepsAInv ==
    ASSUME AInv, Confirm
    PROVE  AInv'
  <1>1. /\ pc = "confirm" /\ pc' = "return"
        /\ UNCHANGED <<searchPos, readLen, result>> /\ UNCHANGED producerVars
    BY DEF Confirm, Goto
  <1>2. ProducerTyped' /\ ChunkFits'
    BY <1>1, ConfirmTakes, TakesKeep
  <1>3. ProcessorTyped'
    BY <1>1 DEF AInv, ProcessorTyped, Phases
  <1>4. MsThere'
    BY <1>1, ConfirmTakes DEF AInv, MsThere
  <1>. QED BY <1>2, <1>3, <1>4, ConfirmTakes DEF AInv

LEMMA DrainKeepsAInv ==
    ASSUME AInv, Drain
    PROVE  AInv' /\ Unread' = 0 /\ cb'.recordingActive = cb.recordingActive
  <1>1. /\ pc' \in {"drain", "idle"}
        /\ cb' = ConfirmRead(cb, Processor, Unread)
        /\ UNCHANGED <<searchPos, readLen, result>> /\ UNCHANGED producerVars
    BY DEF Drain, Goto
  <1>2. Unread \in 0 .. Unread /\ Unread - Unread = 0
    BY Reader, SMT DEF AInv
  <1>3. /\ Buffer' /\ Unread' = Unread - Unread
        /\ cb'.recordingActive = cb.recordingActive
    BY <1>1, <1>2, Confirms DEF AInv
  <1>4. ProducerTyped' /\ ChunkFits'
    BY <1>1, <1>2, <1>3, TakesKeep
  <1>5. ProcessorTyped' /\ MsThere'
    BY <1>1 DEF AInv, ProcessorTyped, MsThere, Phases
  <1>. QED BY <1>2, <1>3, <1>4, <1>5 DEF AInv

LEMMA NextKeepsAInv ==
    ASSUME AInv, [Next]_vars
    PROVE  AInv'
  <1>1. CASE UNCHANGED vars
    <2>1. /\ UNCHANGED <<cb, producerVars>>
          /\ UNCHANGED <<next, wchunk, gaps, lost>>
          /\ UNCHANGED <<pc, searchPos, readLen, result>>
      BY <1>1 DEF vars, producerVars, processorVars
    <2>2. ProcessorTyped' /\ MsThere'
      BY <2>1 DEF AInv, ProcessorTyped, MsThere, Unread, TailOffset
    <2>. QED BY <2>1, <2>2, LooksKeep
  <1>2. CASE Next
    BY <1>2, ProducerKeepsAInv, LooksKeepAInv, FlushKeepsAInv, SkipKeepsAInv,
       CopyKeepsAInv, RestKeepsAInv, CopyRestKeepsAInv, ConfirmKeepsAInv,
       DrainKeepsAInv DEF Next, getValidMillisecond
  <1>. QED BY <1>1, <1>2

LEMMA AlwaysAInv == Spec => []AInv
  <1>1. AInv /\ [Next]_vars => AInv'
    BY NextKeepsAInv
  <1>. QED BY <1>1, InitAInv, PTL DEF Spec

-----------------------------------------------------------------------------
(* What follows from the amounts. *)

\* The variables of the search keep their types, for milliseconds, windows and
\* buffers of every length (client_behaviours.c:1071-1168).
THEOREM SearchTyped == Spec => []TypeOK
  <1>1. AInv => TypeOK
    BY DEF AInv, Buffer, Sound, ProducerTyped, ProcessorTyped, TypeOK, Phases,
           ScanLen
  <1>. QED BY <1>1, AlwaysAInv, PTL

\* Whatever getValidMillisecond looks at without the mutex has been committed
\* and not yet confirmed, and is not being written by the producer
\* (client_behaviours.c:1098-1155).
THEOREM SearchPeeksSafely == Spec => []PeeksAreSafe
  <1>1. ASSUME AInv
        PROVE  PeeksAreSafe
    <2>. DEFINE Mine == {UnreadOffset(cb, Processor, k) :
                             k \in 0 .. Unread - 1}
    <2>1. PeekedOffsets \subseteq Mine
      <3>1. CASE pc = "scan"
        <4>1. Unread >= WindowLen /\ Unread \in Nat
          BY <1>1, <3>1, Reader DEF AInv, MsThere
        <4>2. ScanLen + BytesPerMs <= Unread - 1
          BY <4>1, Lengths, SMT
        <4>3. \A k \in 0 .. ScanLen + BytesPerMs : k \in 0 .. Unread - 1
          BY <4>1, <4>2, Lengths, SMT
        <4>4. (ScanMs + 1) * BytesPerMs = ScanLen + BytesPerMs
          BY Lengths
        <4>. QED BY <3>1, <4>3, <4>4 DEF PeekedOffsets
      <3>2. CASE pc \in {"copy", "copy_rest"}
        <4>1. /\ readLen \in Nat /\ readLen <= Unread
              /\ TailOffset + readLen <= DataLen
              /\ Unread \in Nat /\ Unread < DataLen /\ TailOffset \in Offsets
          <5>1. CASE pc = "copy"
            <6>1. /\ Unread >= BytesPerMs + 1 /\ readLen \in 1 .. BytesPerMs
                  /\ TailOffset + readLen <= DataLen
              BY <1>1, <5>1 DEF AInv, MsThere
            <6>. QED BY <1>1, <6>1, Reader, Lengths, SMT DEF AInv
          <5>2. CASE pc = "copy_rest"
            <6>1. /\ readLen \in 1 .. BytesPerMs - 1
                  /\ Unread >= readLen + 1 /\ TailOffset = 0
              BY <1>1, <5>2 DEF AInv, MsThere
            <6>. QED BY <1>1, <6>1, Reader, Lengths, SMT DEF AInv
          <5>. QED BY <3>2, <5>1, <5>2
        <4>2. ASSUME NEW y \in ReadOffsets(cb, Processor, readLen)
              PROVE  y \in Mine
          <5>1. y \in TailOffset .. TailOffset + readLen - 1
            BY DEF ReadOffsets, TailOffset
          <5>. PICK k \in Int : k = y - TailOffset
            BY <4>1, <5>1, SMT DEF Offsets
          <5>2. /\ k \in 0 .. Unread - 1 /\ k \in Offsets
                /\ TailOffset + k = y /\ TailOffset + k < DataLen
            BY <4>1, <5>1, DataLenAssumption, SMT DEF Offsets
          <5>3. UnreadOffset(cb, Processor, k) = y
            BY <1>1, <5>2, Reader, UnreadOffsetValue
            DEF AInv, Buffer, TailOffset
          <5>. QED BY <5>2, <5>3
        <4>. QED BY <3>2, <4>2 DEF PeekedOffsets
      <3>. QED BY <3>1, <3>2 DEF PeekedOffsets
    <2>2. ASSUME Producing, NEW k \in 0 .. Unread - 1
          PROVE  UnreadOffset(cb, Processor, k)
                     \notin WriteOffsets(cb, wchunk.len)
      <3>1. wchunk.len \in Nat /\ Unread + wchunk.len <= DataLen - 1
        BY <1>1, <2>2, Lengths DEF AInv, ChunkFits
      <3>. QED BY <1>1, <3>1, Reader, UnreadNotWritten
               DEF AInv, Buffer, Unread
    <2>3. Producing => Mine \cap WriteOffsets(cb, wchunk.len) = {}
      BY <2>2
    <2>. HIDE DEF Mine
    <2>4. Producing => PeekedOffsets \cap WriteOffsets(cb, wchunk.len) = {}
      BY <2>1, <2>3
    <2>. QED BY <2>1, <2>4 DEF PeeksAreSafe, Mine
  <1>. QED BY <1>1, AlwaysAInv, PTL

-----------------------------------------------------------------------------
(* Places in milliseconds.                                                  *)

LEMMA PlaceOf ==
    ASSUME NEW N \in Nat \ {0}, NEW c \in Int
    PROVE  /\ c = N * (c \div N) + (c % N)
           /\ c % N \in 0 .. N - 1 /\ c \div N \in Int
  BY SMT

LEMMA PlaceUnique ==
    ASSUME NEW N \in Nat \ {0}, NEW q \in Int, NEW r \in 0 .. N - 1
    PROVE  (N * q + r) % N = r /\ (N * q + r) \div N = q
  BY SMT

\* The bytes behind the first one of a millisecond.
LEMMA PlacesBehind ==
    ASSUME NEW N \in Nat \ {0}, NEW c \in Int, c % N = 0
    PROVE  /\ \A k \in 0 .. N - 1 : (c + k) % N = k
           /\ \A k \in 0 .. N - 1 : ((c - N) + k) % N = k
           /\ (c + N) % N = 0
  <1>. PICK q \in Int : q = c \div N
    BY PlaceOf
  <1>1. c = N * q
    BY PlaceOf, SMT
  <1>2. /\ c - N = N * (q - 1) /\ c + N = N * (q + 1) + 0
        /\ q - 1 \in Int /\ q + 1 \in Int /\ c - N \in Int /\ c + N \in Int
    <2>1. N * (q - 1) = N * q - N /\ N * (q + 1) = N * q + N
      BY SMT
    <2>. QED BY <1>1, <2>1, SMT
  <1>3. ASSUME NEW k \in 0 .. N - 1
        PROVE  (c + k) % N = k /\ ((c - N) + k) % N = k
    <2>1. c + k = N * q + k /\ (c - N) + k = N * (q - 1) + k
          /\ c + k \in Int /\ (c - N) + k \in Int
      BY <1>1, <1>2, SMT
    <2>2. (N * q + k) % N = k /\ (N * (q - 1) + k) % N = k
      BY <1>2, PlaceUnique
    <2>. QED BY <2>1, <2>2
  <1>4. 0 \in 0 .. N - 1
    BY SMT
  <1>5. (N * (q + 1) + 0) % N = 0
    BY <1>2, <1>4, PlaceUnique
  <1>. QED BY <1>2, <1>3, <1>5

\* The next millisecond begins within N bytes.
LEMMA PlaceAhead ==
    ASSUME NEW N \in Nat \ {0}, NEW c \in Int
    PROVE  \E p \in 0 .. N - 1 : (c + p) % N = 0
  <1>. PICK q \in Int, r \in 0 .. N - 1 : c = N * q + r
    BY PlaceOf
  <1>0. 0 \in 0 .. N - 1
    BY SMT
  <1>1. CASE r = 0
    <2>1. (c + 0) % N = 0
      <3>1. c + 0 = N * q + 0 /\ c + 0 \in Int
        BY <1>1, SMT
      <3>. QED BY <1>0, <3>1, PlaceUnique
    <2>. QED BY <1>0, <2>1
  <1>2. CASE r # 0
    <2>. PICK p \in Int : p = N - r
      OBVIOUS
    <2>1. p \in 0 .. N - 1
      BY <1>2, SMT
    <2>2. c + p = N * (q + 1) + 0 /\ q + 1 \in Int /\ c + p \in Int
      <3>1. N * (q + 1) = N * q + N /\ N * q \in Int
        BY SMT
      <3>. QED BY <3>1, SMT
    <2>3. (c + p) % N = 0
      BY <1>0, <2>2, PlaceUnique
    <2>. QED BY <2>1, <2>3
  <1>. QED BY <1>1, <1>2

-----------------------------------------------------------------------------
(* Streams with gaps.                                                       *)

\* q[1 .. n] are bytes of the device, in their order.
Rising(q, n) == \A i, j \in 1 .. n : i < j => q[j] - q[i] >= j - i

\* Bytes are taken from the front.
LEMMA RisingDrop ==
    ASSUME NEW n \in Nat, NEW q, \A i \in 1 .. n : q[i] \in Int,
           Rising(q, n), NEW d \in 0 .. n, NEW r,
           \A i \in 1 .. n - d : r[i] = q[d + i]
    PROVE  Rising(r, n - d)
  <1>. SUFFICES ASSUME NEW i \in 1 .. n - d, NEW j \in 1 .. n - d, i < j
                PROVE  r[j] - r[i] >= j - i
    BY DEF Rising
  <1>1. /\ d + i \in 1 .. n /\ d + j \in 1 .. n /\ d + i < d + j
        /\ (d + j) - (d + i) = j - i
    BY SMT
  <1>2. q[d + j] - q[d + i] >= j - i
    BY <1>1 DEF Rising
  <1>. QED BY <1>2

\* A chunk is appended.
LEMMA RisingAppend ==
    ASSUME NEW n \in Nat, NEW q, \A i \in 1 .. n : q[i] \in Int,
           Rising(q, n), NEW from \in Int, \A i \in 1 .. n : q[i] < from,
           NEW len \in Nat,
           NEW r, \A i \in 1 .. n : r[i] = q[i],
           \A j \in 1 .. len : r[n + j] = from + (j - 1)
    PROVE  Rising(r, n + len)
  <1>0. \A j \in n + 1 .. n + len : r[j] = from + (j - n - 1)
    <2>. TAKE j \in n + 1 .. n + len
    <2>1. j - n \in 1 .. len /\ n + (j - n) = j
      BY SMT
    <2>. QED BY <2>1
  <1>. SUFFICES ASSUME NEW i \in 1 .. n + len, NEW j \in 1 .. n + len, i < j
                PROVE  r[j] - r[i] >= j - i
    BY DEF Rising
  <1>1. CASE j <= n
    <2>1. i \in 1 .. n /\ j \in 1 .. n
      BY <1>1, SMT
    <2>. QED BY <2>1 DEF Rising
  <1>2. CASE n < i
    <2>1. i \in n + 1 .. n + len /\ j \in n + 1 .. n + len
      BY <1>2, SMT
    <2>2. r[i] = from + (i - n - 1) /\ r[j] = from + (j - n - 1)
      BY <1>0, <2>1
    <2>. QED BY <2>2, SMT
  <1>3. CASE i <= n /\ n < j
    <2>1. i \in 1 .. n /\ j \in n + 1 .. n + len /\ n \in 1 .. n
      BY <1>3, SMT
    <2>2. i < n => q[n] - q[i] >= n - i
      BY <2>1 DEF Rising
    <2>3. q[i] \in Int /\ q[n] \in Int /\ q[n] < from
      BY <2>1
    <2>4. r[i] = q[i] /\ r[j] = from + (j - n - 1)
      BY <1>0, <2>1
    <2>5. q[n] - q[i] >= n - i
      BY <2>1, <2>2, <2>3, SMT
    <2>. QED BY <2>1, <2>3, <2>4, <2>5, SMT
  <1>4. j <= n \/ n < i \/ (i <= n /\ n < j)
    BY SMT
  <1>. QED BY <1>1, <1>2, <1>3, <1>4

-----------------------------------------------------------------------------
(* Content: what lies in the buffer, what has been found, what is taken.    *)

\* The byte of the device that comes behind the head.
Base == IF Producing THEN wchunk.from ELSE next

\* The byte behind the last one taken.
After == last + 1

IsHeader(b) == b % BytesPerMs = 0 \/ b \in LookAlikes

\* Nothing is missing since the first millisecond, and the last one was in its
\* place.
Unbroken == ~lost /\ last # NoByte
InStep == Unbroken /\ After % BytesPerMs = 0

\* The buffer holds bytes of this recording, in their order.
Stream ==
    /\ since \in Nat /\ since <= Base
    /\ Rising(Queue, Unread)
    /\ \A i \in 1 .. Unread : since <= Queue[i] /\ Queue[i] < Base
    /\ ~lost => \A i \in 1 .. Unread : Queue[i] = (Base - Unread) + (i - 1)
    /\ ~cb.recordingActive => ~Producing

\* What the search has found, and that it goes forward.
Course ==
    /\ last \in Nat \cup {NoByte}
    /\ pc = "idle" => IF cb.recordingActive THEN last = NoByte ELSE Unread = 0
    /\ pc \in {"await", "scan", "flush", "skip"} =>
           /\ After <= Base
           /\ \A i \in 1 .. Unread : After <= Queue[i]
           /\ Unbroken => Base - Unread = After
    /\ pc = "skip" =>
           /\ IsHeader(Queue[searchPos + 1])
           /\ IsHeader(Queue[searchPos + BytesPerMs + 1])
           /\ InStep => searchPos = 0
    /\ pc = "flush" =>
           \E k \in 1 .. ScanLen + BytesPerMs : Queue[k + 1] # Queue[k] + 1

\* The bytes of a millisecond as it is taken, and the byte behind it.
Millisecond(x) ==
    /\ After <= x[0]
    /\ IsHeader(x[0]) /\ IsHeader(x[BytesPerMs])
    /\ \A j, k \in 0 .. BytesPerMs : j < k => x[k] - x[j] >= k - j
    /\ \A k \in 0 .. BytesPerMs : since <= x[k]
    /\ ~lost => \A k \in 0 .. BytesPerMs : x[k] = x[0] + k
    /\ InStep => x[0] = After

\* They are in the buffer, in result, or partly here and partly there.
Placed(x) ==
    /\ pc \in {"copy", "rest"} =>
           \A k \in 0 .. BytesPerMs : Queue[k + 1] = x[k]
    /\ pc = "rest" => \A k \in 0 .. readLen - 1 : result[k] = x[k]
    /\ pc = "copy_rest" =>
           /\ \A k \in 0 .. BytesPerMs - readLen - 1 : result[k] = x[k]
           /\ \A k \in 0 .. readLen :
                  Queue[k + 1] = x[(BytesPerMs - readLen) + k]
    /\ pc \in {"confirm", "return"} =>
           \A k \in 0 .. BytesPerMs - 1 : result[k] = x[k]
    /\ pc = "confirm" => Queue[readLen + 1] = x[BytesPerMs]
    /\ pc = "return" => Queue[1] = x[BytesPerMs]

Taking == pc \in {"copy", "rest", "copy_rest", "confirm", "return"}

Taken ==
    Taking => \E x \in [0 .. BytesPerMs -> Int] : Millisecond(x) /\ Placed(x)

CInv == AInv /\ Stream /\ Course /\ Taken

LEMMA BaseTyped ==
    ASSUME AInv
    PROVE  Base \in Int /\ next \in Int
  <1>1. next \in Int /\ wchunk.from \in Int
    BY Lengths, SearchAssumption, SMT DEF AInv, ProducerTyped
  <1>. QED BY <1>1 DEF Base

LEMMA AfterTyped ==
    ASSUME NEW l \in Nat \cup {NoByte}
    PROVE  l \in Int /\ l + 1 \in Nat
  BY SMT DEF NoByte

LEMMA InitCInv == Init => CInv
  <1>. SUFFICES ASSUME Init PROVE CInv
    OBVIOUS
  <1>1. AInv /\ 0 < ReaderMaxCap /\ ZeroByte \in Int
    BY InitAInv, SearchAssumption, ReaderMaxCapAssumption, SMT
  <1>2. Unread = 0 /\ cb.recordingActive = FALSE
    <2>1. Sound(EmptyBuffer, Int) /\ EmptyBuffer.reader_cnt = 0
          /\ EmptyBuffer.data_head_offset = 0
          /\ EmptyBuffer.recordingActive = FALSE
      BY <1>1, EmptyBufferSound DEF EmptyBuffer
    <2>2. /\ Register(EmptyBuffer).readerOffset[0] = 0
          /\ Register(EmptyBuffer).data_head_offset = 0
          /\ Register(EmptyBuffer).recordingActive = FALSE
      BY <1>1, <2>1, SearchAssumption, ReaderMaxCapAssumption, SMT
      DEF Register, EmptyBuffer, Slots
    <2>. QED BY <2>2, DataLenAssumption, SMT
             DEF Init, Unread, AvailableData, Processor
  <1>3. /\ ~Producing /\ Base = next /\ next \in Nat /\ since = 0
        /\ last = NoByte /\ pc = "idle"
    BY Lengths, SMT DEF Init, Producing, Base, PositionInMs
  <1>4. \A i \in 1 .. 0 : FALSE
    BY SMT
  <1>5. Rising(Queue, Unread)
    BY <1>2, <1>4 DEF Rising
  <1>6. Stream
    BY <1>2, <1>3, <1>4, <1>5, SMT DEF Stream
  <1>. QED BY <1>1, <1>2, <1>3, <1>6 DEF CInv, Course, Taken, Taking

-----------------------------------------------------------------------------
(* The producer: what is in the buffer stays, and more may come behind it.  *)

More ==
    /\ UNCHANGED <<pc, searchPos, readLen, result, since, last>>
    /\ Unread' \in Nat /\ Unread <= Unread'
    /\ \A i \in 1 .. Unread : Queue'[i] = Queue[i]
    /\ \A i \in Unread + 1 .. Unread' :
           Queue'[i] \in Int /\ Base <= Queue'[i]
    /\ Base' \in Int /\ Base <= Base'
    /\ ~lost' => ~lost /\ Base' - Unread' = Base - Unread

LEMMA MoreKeepsCourse ==
    ASSUME AInv, Course, More,
           pc = "idle" => /\ cb'.recordingActive = cb.recordingActive
                          /\ ~cb.recordingActive => Unread' = Unread
    PROVE  Course'
  <1>1. Unread \in Nat /\ Base \in Int
    BY Reader, BaseTyped DEF AInv
  <1>2. /\ After' = After /\ After \in Nat
        /\ Unbroken' => Unbroken /\ ~lost'
        /\ InStep' => InStep
    BY AfterTyped DEF More, Course, After, InStep, Unbroken
  <1>3. ASSUME pc \in {"await", "scan", "flush", "skip"}
        PROVE  /\ After <= Base' /\ \A i \in 1 .. Unread' : After <= Queue'[i]
               /\ Unbroken' => Base' - Unread' = After
    <2>1. /\ After <= Base /\ \A i \in 1 .. Unread : After <= Queue[i]
          /\ Unbroken => Base - Unread = After
      BY <1>3 DEF Course
    <2>2. After <= Base'
      BY <1>1, <1>2, <2>1, SMT DEF More
    <2>3. ASSUME NEW i \in 1 .. Unread'
          PROVE  After <= Queue'[i]
      <3>1. CASE i \in 1 .. Unread
        BY <2>1, <3>1 DEF More
      <3>2. CASE i \in Unread + 1 .. Unread'
        <4>1. Base <= Queue'[i] /\ Queue'[i] \in Int
          BY <3>2 DEF More
        <4>. QED BY <1>1, <1>2, <2>1, <4>1, SMT
      <3>3. i \in 1 .. Unread \/ i \in Unread + 1 .. Unread'
        BY <1>1, SMT DEF More
      <3>. QED BY <3>1, <3>2, <3>3
    <2>4. Unbroken' => Base' - Unread' = After
      BY <1>2, <2>1 DEF More
    <2>. QED BY <2>2, <2>3, <2>4
  <1>4. ASSUME pc \in {"flush", "skip"}
        PROVE  /\ searchPos + 1 \in 1 .. Unread
               /\ searchPos + BytesPerMs + 1 \in 1 .. Unread
               /\ \A k \in 1 .. ScanLen + BytesPerMs :
                      k \in 1 .. Unread /\ k + 1 \in 1 .. Unread
    <2>1. Unread >= WindowLen /\ searchPos \in 0 .. ScanLen - 1
      BY <1>4 DEF AInv, MsThere, ProcessorTyped
    <2>. QED BY <1>1, <2>1, Lengths, SMT
  <1>5. pc = "skip" => /\ IsHeader(Queue'[searchPos + 1])
                       /\ IsHeader(Queue'[searchPos + BytesPerMs + 1])
                       /\ InStep' => searchPos = 0
    <2>. SUFFICES ASSUME pc = "skip"
                  PROVE  /\ IsHeader(Queue'[searchPos + 1])
                         /\ IsHeader(Queue'[searchPos + BytesPerMs + 1])
                         /\ InStep' => searchPos = 0
      OBVIOUS
    <2>1. /\ Queue'[searchPos + 1] = Queue[searchPos + 1]
          /\ Queue'[searchPos + BytesPerMs + 1]
                 = Queue[searchPos + BytesPerMs + 1]
      BY <1>4 DEF More
    <2>. QED BY <1>2, <2>1 DEF Course
  <1>6. pc = "flush" =>
            \E k \in 1 .. ScanLen + BytesPerMs : Queue'[k + 1] # Queue'[k] + 1
    <2>. SUFFICES ASSUME pc = "flush"
                  PROVE  \E k \in 1 .. ScanLen + BytesPerMs :
                             Queue'[k + 1] # Queue'[k] + 1
      OBVIOUS
    <2>1. PICK k \in 1 .. ScanLen + BytesPerMs : Queue[k + 1] # Queue[k] + 1
      BY DEF Course
    <2>2. Queue'[k + 1] = Queue[k + 1] /\ Queue'[k] = Queue[k]
      BY <1>4 DEF More
    <2>. QED BY <2>1, <2>2
  <1>7. /\ pc' = pc /\ last' = last /\ searchPos' = searchPos
        /\ last \in Nat \cup {NoByte}
        /\ pc = "idle" =>
               IF cb.recordingActive THEN last = NoByte ELSE Unread = 0
    BY DEF More, Course
  <1>8. pc = "idle" =>
            IF cb'.recordingActive THEN last' = NoByte ELSE Unread' = 0
    BY <1>7
  <1>9. pc \in {"await", "scan", "flush", "skip"} => After' <= Base'
        /\ (\A i \in 1 .. Unread' : After' <= Queue'[i])
        /\ (Unbroken' => Base' - Unread' = After')
    BY <1>2, <1>3
  <1>. QED BY <1>5, <1>6, <1>7, <1>8, <1>9 DEF Course, IsHeader

LEMMA MoreKeepsTaken ==
    ASSUME AInv, Course, Taken, More
    PROVE  Taken'
  <1>. SUFFICES ASSUME Taking
                PROVE  \E x \in [0 .. BytesPerMs -> Int] :
                           Millisecond(x)' /\ Placed(x)'
    BY DEF Taken, Taking, More
  <1>. PICK x \in [0 .. BytesPerMs -> Int] : Millisecond(x) /\ Placed(x)
    BY DEF Taken
  <1>1. /\ UNCHANGED <<pc, readLen, result, since, last>>
        /\ ~lost' => ~lost
    BY DEF More
  <1>2. Millisecond(x)'
    BY <1>1 DEF Millisecond, After, InStep, Unbroken
  <1>3. /\ pc \in {"copy", "rest"} => \A k \in 0 .. BytesPerMs :
               k + 1 \in 1 .. Unread
        /\ pc = "copy_rest" => \A k \in 0 .. readLen : k + 1 \in 1 .. Unread
        /\ pc = "confirm" => readLen + 1 \in 1 .. Unread
        /\ pc = "return" => 1 \in 1 .. Unread
    <2>1. /\ pc \in {"copy", "rest"} => Unread >= BytesPerMs + 1
          /\ pc = "copy_rest" => readLen \in 1 .. BytesPerMs - 1
                                 /\ Unread >= readLen + 1
          /\ pc = "confirm" => readLen \in 1 .. BytesPerMs
                               /\ Unread >= readLen + 1
          /\ pc = "return" => Unread >= 1
      BY DEF AInv, MsThere
    <2>2. Unread \in Nat /\ BytesPerMs \in Nat
      BY Reader, Lengths DEF AInv
    <2>3. pc \in {"copy", "rest"} => \A k \in 0 .. BytesPerMs :
              k + 1 \in 1 .. Unread
      BY <2>1, <2>2, SMT
    <2>4. pc = "copy_rest" => \A k \in 0 .. readLen : k + 1 \in 1 .. Unread
      BY <2>1, <2>2, SMT
    <2>5. /\ pc = "confirm" => readLen + 1 \in 1 .. Unread
          /\ pc = "return" => 1 \in 1 .. Unread
      BY <2>1, <2>2, SMT
    <2>. QED BY <2>3, <2>4, <2>5
  <1>4. \A i \in 1 .. Unread : Queue'[i] = Queue[i]
    BY DEF More
  <1>5. Placed(x)'
    BY <1>1, <1>3, <1>4 DEF Placed
  <1>. QED BY <1>2, <1>5

\* Nothing is written.
LEMMA SameQueueKeeps ==
    ASSUME AInv, Stream, Course, Taken,
           Queue' = Queue, Unread' = Unread,
           UNCHANGED <<pc, searchPos, readLen, result, since, last>>,
           Base' \in Int, Base <= Base',
           ~lost' => ~lost /\ Base' = Base,
           ~cb'.recordingActive => ~Producing',
           pc = "idle" => cb'.recordingActive = cb.recordingActive
    PROVE  Stream' /\ Course' /\ Taken'
  <1>1. /\ Unread \in Nat /\ Base \in Int
        /\ \A i \in 1 .. Unread : Queue[i] \in Int
    BY Reader, BaseTyped DEF AInv
  <1>2. Stream'
    <2>1. \A i \in 1 .. Unread : since <= Queue[i] /\ Queue[i] < Base'
      <3>. TAKE i \in 1 .. Unread
      <3>1. since <= Queue[i] /\ Queue[i] < Base /\ Queue[i] \in Int
        BY <1>1 DEF Stream
      <3>. QED BY <1>1, <3>1, SMT
    <2>2. since \in Nat /\ since <= Base'
      BY <1>1, SMT DEF Stream
    <2>3. Rising(Queue, Unread)
      BY DEF Stream
    <2>4. ~lost' => \A i \in 1 .. Unread :
                        Queue[i] = (Base' - Unread) + (i - 1)
      BY DEF Stream
    <2>5. Rising(Queue', Unread')
      BY <2>3 DEF Rising
    <2>. QED BY <2>1, <2>2, <2>4, <2>5 DEF Stream
  <1>3. More
    <2>1. \A i \in Unread + 1 .. Unread : FALSE
      BY <1>1, SMT
    <2>2. Unread <= Unread
      BY <1>1, SMT
    <2>. QED BY <1>1, <2>1, <2>2 DEF More
  <1>. QED BY <1>2, <1>3, MoreKeepsCourse, MoreKeepsTaken

LEMMA StartKeepsCInv ==
    ASSUME CInv, Start
    PROVE  Stream' /\ Course' /\ Taken'
  <1>1. /\ pc = "idle" /\ ~cb.recordingActive /\ ~Producing
        /\ cb' = [cb EXCEPT !.recordingActive = TRUE]
        /\ since' = next /\ lost' = FALSE /\ last' = NoByte
        /\ UNCHANGED <<next, wchunk, pc>>
    BY DEF Start
  <1>2. Unread' = Unread /\ cb'.recordingActive /\ Unread = 0
    BY <1>1, Flags DEF CInv, AInv, Course
  <1>3. next \in Nat /\ next <= next /\ Base' = next
    <2>1. next \in Nat
      BY Lengths, SearchAssumption, SMT DEF CInv, AInv, ProducerTyped
    <2>2. Base' = next
      BY <1>1 DEF Base, Producing
    <2>. QED BY <2>1, <2>2, SMT
  <1>4. \A i \in 1 .. 0 : FALSE
    BY SMT
  <1>5. Rising(Queue', Unread')
    BY <1>2, <1>4 DEF Rising
  <1>6. Stream'
    BY <1>1, <1>2, <1>3, <1>4, <1>5 DEF Stream
  <1>. QED BY <1>1, <1>2, <1>6 DEF Course, Taken, Taking

LEMMA QuietKeepsCInv ==
    ASSUME CInv, \/ End
                 \/ \E len \in 1 .. BytesPerMs : Gap(len)
                 \/ \E len \in ChunkSizes : Receive(len)
    PROVE  Stream' /\ Course' /\ Taken'
  <1>1. /\ AInv /\ Stream /\ Course /\ Taken /\ next \in Int
        /\ cb.recordingActive /\ ~Producing /\ Base = next
        /\ UNCHANGED <<pc, searchPos, readLen, result, since, last>>
    BY BaseTyped DEF CInv, End, Gap, Receive, producerVars, processorVars, Base
  <1>2. CASE End
    <2>1. /\ pc # "idle" /\ UNCHANGED <<next, wchunk, lost>>
          /\ cb' = [cb EXCEPT !.recordingActive = FALSE]
      BY <1>2 DEF End, producerVars
    <2>2. Unread' = Unread /\ Queue' = Queue /\ ~cb'.recordingActive
      BY <2>1, Flags DEF CInv, AInv
    <2>3. ~Producing' /\ Base' = next /\ next <= next
      BY <1>1, <2>1, SMT DEF Producing, Base
    <2>. QED BY <1>1, <2>1, <2>2, <2>3, SameQueueKeeps
  <1>3. ASSUME UNCHANGED cb, NEW len \in Nat, next' = next + len,
               \/ wchunk' = [from |-> next, len |-> len] /\ lost' = lost
               \/ wchunk' = wchunk /\ lost' = TRUE
        PROVE  Stream' /\ Course' /\ Taken'
    <2>1. Unread' = Unread /\ Queue' = Queue /\ cb'.recordingActive
      BY <1>1, <1>3 DEF Unread, Queue
    <2>2. next <= next + len /\ next + len \in Int /\ next <= next
      BY <1>1, <1>3, SMT
    <2>3. \/ Base' = next /\ lost' = lost
          \/ Base' = next + len /\ lost' = TRUE
      <3>1. CASE wchunk' = wchunk /\ lost' = TRUE
        BY <1>1, <1>3, <3>1 DEF Base, Producing
      <3>2. CASE wchunk' = [from |-> next, len |-> len] /\ lost' = lost
        <4>1. CASE len = 0
          <5>1. next + len = next
            BY <1>1, <4>1, SMT
          <5>. QED BY <1>3, <3>2, <5>1 DEF Base
        <4>2. CASE len # 0
          BY <3>2, <4>2 DEF Base, Producing, NoChunk
        <4>. QED BY <4>1, <4>2
      <3>. QED BY <1>3, <3>1, <3>2
    <2>4. Base' \in Int /\ Base <= Base' /\ (~lost' => ~lost /\ Base' = Base)
      BY <1>1, <2>2, <2>3
    <2>. QED BY <1>1, <1>3, <2>1, <2>4, SameQueueKeeps
  <1>4. ASSUME NEW len \in 1 .. BytesPerMs, Gap(len)
        PROVE  Stream' /\ Course' /\ Taken'
    <2>1. len \in Nat
      BY Lengths, SMT
    <2>. QED BY <1>3, <1>4, <2>1 DEF Gap
  <1>5. ASSUME NEW len \in ChunkSizes, Receive(len)
        PROVE  Stream' /\ Course' /\ Taken'
    <2>1. len \in Nat
      BY Lengths
    <2>. QED BY <1>3, <1>5, <2>1 DEF Receive
  <1>. QED BY <1>2, <1>4, <1>5

LEMMA WriteKeepsCInv ==
    ASSUME CInv, Write
    PROVE  Stream' /\ Course' /\ Taken'
  <1>. PICK from \in Int, len \in Nat :
           /\ from = wchunk.from /\ len = wchunk.len
           /\ len < DataLen
           /\ Unread + len <= DataLen - 1 /\ next = from + len
    <2>1. /\ wchunk.len \in ChunkSizes /\ Unread + wchunk.len <= DataLen - 1
          /\ next = wchunk.from + wchunk.len
      BY DEF Write, CInv, AInv, ChunkFits
    <2>2. wchunk.from \in Int
      BY SearchAssumption, SMT DEF CInv, AInv, ProducerTyped
    <2>. QED BY <2>1, <2>2, Lengths
  <1>. PICK n \in Nat : n = Unread
    BY Reader DEF CInv, AInv
  <1>1. /\ Producing /\ wchunk' = NoChunk /\ cb.recordingActive
        /\ UNCHANGED <<next, gaps, since, lost>>
        /\ UNCHANGED <<pc, searchPos, readLen, result, last>>
    BY DEF Write, processorVars, CInv, Stream
  <1>2. /\ Unread' = n + len
        /\ \A k \in 1 .. n : Queue'[k] = Queue[k]
        /\ \A k \in 1 .. len : Queue'[n + k] = from + (k - 1)
        /\ cb'.recordingActive = cb.recordingActive
    BY Writes DEF Write, CInv, AInv
  <1>3. Base = from /\ Base' = from + len /\ BytesPerMs \in Nat
    BY <1>1, Lengths DEF Base, Producing
  <1>4. /\ since \in Nat /\ since <= from
        /\ Rising(Queue, n)
        /\ \A i \in 1 .. n : since <= Queue[i] /\ Queue[i] < from
        /\ ~lost => \A i \in 1 .. n : Queue[i] = (from - n) + (i - 1)
        /\ \A i \in 1 .. n : Queue[i] \in Int
    BY <1>3, Reader DEF CInv, AInv, Stream
  <1>5. ASSUME NEW i \in 1 .. n + len
        PROVE  /\ Queue'[i] \in Int
               /\ since <= Queue'[i] /\ Queue'[i] < from + len
               /\ ~(i \in 1 .. n) => from <= Queue'[i]
               /\ ~lost => Queue'[i] = ((from + len) - (n + len)) + (i - 1)
    <2>1. CASE i \in 1 .. n
      <3>1. Queue'[i] = Queue[i]
        BY <1>2, <2>1
      <3>2. since <= Queue[i] /\ Queue[i] < from /\ Queue[i] \in Int
            /\ (~lost => Queue[i] = (from - n) + (i - 1))
        BY <1>4, <2>1
      <3>. QED BY <1>4, <2>1, <3>1, <3>2, SMT
    <2>2. CASE ~(i \in 1 .. n)
      <3>. PICK k \in 1 .. len : i = n + k
        <4>1. i - n \in 1 .. len /\ i = n + (i - n)
          BY <2>2, SMT
        <4>. QED BY <4>1
      <3>1. Queue'[i] = from + (k - 1)
        BY <1>2
      <3>. QED BY <1>4, <3>1, SMT
    <2>. QED BY <2>1, <2>2
  <1>6. Rising(Queue', n + len)
    BY <1>2, <1>4, RisingAppend, ZenonT(60)
  <1>7. Stream'
    <2>1. since <= from + len
      BY <1>4, SMT
    <2>. QED BY <1>1, <1>2, <1>3, <1>4, <1>5, <1>6, <2>1 DEF Stream
  <1>8. More
    <2>1. /\ n + len \in Nat /\ n <= n + len /\ from + len \in Int
          /\ from <= from + len
          /\ (from + len) - (n + len) = from - n
          /\ \A i \in n + 1 .. n + len : i \in 1 .. n + len /\ ~(i \in 1 .. n)
      BY SMT
    <2>2. \A i \in n + 1 .. n + len : Queue'[i] \in Int /\ from <= Queue'[i]
      BY <1>5, <2>1
    <2>. QED BY <1>1, <1>2, <1>3, <2>1, <2>2 DEF More
  <1>. QED BY <1>1, <1>2, <1>7, <1>8, MoreKeepsCourse, MoreKeepsTaken
           DEF CInv, Course

-----------------------------------------------------------------------------
(* The processor: it takes d bytes from the buffer.                         *)

Less(d) ==
    /\ UNCHANGED producerVars
    /\ Unread' = Unread - d
    /\ \A k \in 1 .. Unread - d : Queue'[k] = Queue[d + k]
    /\ cb'.recordingActive = cb.recordingActive

LEMMA LessKeepsStream ==
    ASSUME AInv, Stream, NEW d \in 0 .. Unread, Less(d)
    PROVE  Stream' /\ Base' = Base /\ Base' - Unread' = (Base - Unread) + d
  <1>. PICK n \in Nat : n = Unread
    BY Reader DEF AInv
  <1>1. /\ UNCHANGED <<next, wchunk, since, lost>> /\ d \in Nat
        /\ \A i \in 1 .. n : Queue[i] \in Int
    BY Reader DEF Less, producerVars, AInv
  <1>2. Base' = Base /\ Base \in Int /\ (Producing' <=> Producing)
    BY <1>1, BaseTyped DEF Base, Producing
  <1>3. Base - (n - d) = (Base - n) + d
    BY <1>1, <1>2, SMT
  <1>4. \A k \in 1 .. n - d : /\ d + k \in 1 .. n
                              /\ ((Base - n) + d) + (k - 1)
                                     = (Base - n) + ((d + k) - 1)
    BY <1>1, <1>2, SMT
  <1>5. Rising(Queue', n - d)
    <2>1. Rising(Queue, n) /\ \A k \in 1 .. n - d : Queue'[k] = Queue[d + k]
      BY DEF Stream, Less
    <2>. QED BY <1>1, <2>1, RisingDrop
  <1>6. \A k \in 1 .. n - d : Queue'[k] = Queue[d + k]
    BY DEF Less
  <1>7. \A k \in 1 .. n - d : since <= Queue'[k] /\ Queue'[k] < Base
    BY <1>4, <1>6 DEF Stream
  <1>8. ~lost => \A k \in 1 .. n - d :
                     Queue'[k] = (Base - (n - d)) + (k - 1)
    BY <1>3, <1>4, <1>6 DEF Stream
  <1>. QED BY <1>1, <1>2, <1>3, <1>5, <1>7, <1>8 DEF Stream, Less

\* Nothing is taken.
LEMMA SameBufferKeepsStream ==
    ASSUME AInv, Stream, UNCHANGED <<cb, producerVars>>
    PROVE  Stream' /\ Base' = Base /\ Unread' = Unread /\ Queue' = Queue
  <1>1. UNCHANGED <<next, wchunk, since, lost>>
    BY DEF producerVars
  <1>2. Base' = Base /\ Unread' = Unread /\ Queue' = Queue
        /\ (Producing' <=> Producing)
    BY <1>1 DEF Base, Producing, Unread, Queue
  <1>3. Rising(Queue', Unread')
    BY <1>2 DEF Stream, Rising
  <1>. QED BY <1>1, <1>2, <1>3 DEF Stream

\* Where no byte is missing, a millisecond is found within one.
LEMMA WholeBytes ==
    ASSUME NEW n \in Nat, NEW q, \A i \in 1 .. n : q[i] \in Int, n >= 1,
           \A k \in 1 .. n - 1 : q[k + 1] = q[k] + 1
    PROVE  \A i \in 1 .. n : q[i] = q[1] + (i - 1)
  <1>. DEFINE bad == {i \in 1 .. n : q[i] # q[1] + (i - 1)}
  <1>. SUFFICES ASSUME bad # {} PROVE FALSE
    OBVIOUS
  <1>1. bad \subseteq 0 .. n
    BY SMT
  <1>. PICK i \in bad : \A y \in bad : i <= y
    BY <1>1, LeastElement
  <1>2. i \in 1 .. n /\ q[i] # q[1] + (i - 1) /\ q[1] \in Int /\ i # 1
    <2>1. 1 \in 1 .. n
      BY SMT
    <2>2. q[1] = q[1] + (1 - 1)
      BY <2>1, SMT
    <2>. QED BY <2>1, <2>2
  <1>3. /\ i - 1 \in 1 .. n - 1 /\ i - 1 \in 1 .. n /\ ~(i <= i - 1)
        /\ (i - 1) + 1 = i
    BY <1>2, SMT
  <1>4. i - 1 \notin bad
    BY <1>3
  <1>5. q[i - 1] = q[1] + ((i - 1) - 1) /\ q[i] = q[i - 1] + 1
    BY <1>3, <1>4
  <1>. QED BY <1>2, <1>5, SMT

\* Await and WaitForRecording.
LEMMA AwaitKeepsCInv ==
    ASSUME CInv, Await \/ WaitForRecording
    PROVE  Stream' /\ Course' /\ Taken'
  <1>1. /\ AInv /\ Stream /\ Course
        /\ UNCHANGED <<cb, producerVars>> /\ UNCHANGED <<since, lost, last>>
    BY DEF CInv, Await, WaitForRecording, producerVars
  <1>2. /\ Stream' /\ Base' = Base /\ Unread' = Unread /\ Queue' = Queue
        /\ cb'.recordingActive = cb.recordingActive /\ After' = After
        /\ (Unbroken' <=> Unbroken) /\ (InStep' <=> InStep)
    BY <1>1, SameBufferKeepsStream DEF After, InStep, Unbroken
  <1>3. CASE Await
    <2>1. pc = "await" /\ pc' = IF cb.recordingActive THEN "scan" ELSE "drain"
      BY <1>3 DEF Await, Goto
    <2>2. Course'
      BY <1>1, <1>2, <2>1 DEF Course
    <2>. QED BY <1>2, <2>1, <2>2 DEF Taken, Taking
  <1>4. CASE WaitForRecording
    <2>1. pc = "idle" /\ pc' = "await" /\ cb.recordingActive
      BY <1>4 DEF WaitForRecording, Goto
    <2>2. last = NoByte /\ After = 0
      <3>1. last = NoByte
        BY <1>1, <2>1 DEF Course
      <3>. QED BY <3>1, SMT DEF After, NoByte
    <2>3. 0 <= Base /\ \A i \in 1 .. Unread : 0 <= Queue[i]
      <3>1. since \in Nat /\ since <= Base /\ Base \in Int
        BY <1>1, BaseTyped DEF Stream
      <3>2. ASSUME NEW i \in 1 .. Unread
            PROVE  0 <= Queue[i]
        <4>1. since <= Queue[i] /\ Queue[i] \in Int
          BY <1>1, Reader DEF AInv, Stream
        <4>. QED BY <3>1, <4>1, SMT
      <3>. QED BY <3>1, <3>2, SMT
    <2>4. ~Unbroken
      BY <2>2 DEF Unbroken
    <2>5. Course'
      BY <1>1, <1>2, <2>1, <2>2, <2>3, <2>4 DEF Course
    <2>. QED BY <1>2, <2>1, <2>5 DEF Taken, Taking
  <1>. QED BY <1>3, <1>4

\* What the search sees at an offset.
LEMMA SeenAt ==
    ASSUME AInv, pc = "scan", NEW p \in 0 .. ScanLen - 1
    PROVE  /\ p + 1 \in 1 .. Unread /\ p + BytesPerMs + 1 \in 1 .. Unread
           /\ MillisecondAt(p) => /\ IsHeader(Queue[p + 1])
                                  /\ IsHeader(Queue[p + BytesPerMs + 1])
           /\ /\ Queue[p + 1] % BytesPerMs = 0
              /\ Queue[p + 2] = Queue[p + 1] + 1
              /\ Queue[p + BytesPerMs + 1] = Queue[p + 1] + BytesPerMs
              /\ Queue[p + BytesPerMs + 2] = Queue[p + 1] + BytesPerMs + 1
              => MillisecondAt(p)
  <1>. PICK b \in Nat : b = BytesPerMs /\ b >= 3
    BY Lengths
  <1>1. /\ p \in 0 .. Unread - 1 /\ p + 1 \in 0 .. Unread - 1
        /\ p + b \in 0 .. Unread - 1 /\ p + b + 1 \in 0 .. Unread - 1
        /\ p + 1 \in 1 .. Unread /\ p + b + 1 \in 1 .. Unread
        /\ (p + 1) + 1 = p + 2 /\ (p + b) + 1 = p + b + 1
        /\ (p + b + 1) + 1 = p + b + 2
    <2>1. Unread >= WindowLen /\ Unread \in Nat
      BY Reader DEF AInv, MsThere
    <2>. QED BY <2>1, Lengths, SMT
  <1>2. /\ peekByte(p) = Queue[p + 1] /\ peekByte(p + 1) = Queue[p + 2]
        /\ peekByte(p + b) = Queue[p + b + 1]
        /\ peekByte(p + b + 1) = Queue[p + b + 2]
        /\ Queue[p + 1] \in Int
    BY <1>1, Reader DEF AInv
  <1>3. MillisecondAt(p) => IsHeader(Queue[p + 1])
                            /\ IsHeader(Queue[p + b + 1])
    BY <1>2 DEF MillisecondAt, HeaderAt, IsHeader
  <1>4. ASSUME Queue[p + 1] % b = 0, Queue[p + 2] = Queue[p + 1] + 1,
               Queue[p + b + 1] = Queue[p + 1] + b,
               Queue[p + b + 2] = Queue[p + 1] + b + 1
        PROVE  MillisecondAt(p)
    <2>. PICK c \in Int : c = Queue[p + 1]
      BY <1>2
    <2>1. b \in Nat \ {0} /\ 1 \in 0 .. b - 1 /\ c + b \in Int
      BY SMT
    <2>2. (c + b) % b = 0 /\ (c + 1) % b = 1
      BY <1>4, <2>1, PlacesBehind
    <2>3. (c + b + 1) % b = 1
      BY <2>1, <2>2, PlacesBehind
    <2>. QED BY <1>2, <1>4, <2>2, <2>3 DEF MillisecondAt, HeaderAt
  <1>. QED BY <1>1, <1>3, <1>4

LEMMA ScanKeepsCInv ==
    ASSUME CInv, Scan
    PROVE  Stream' /\ Course' /\ Taken'
  <1>. PICK n \in Nat : n = Unread
    BY Reader DEF CInv, AInv
  <1>. PICK b \in Nat : b = BytesPerMs /\ b >= 3 /\ b \in Nat \ {0}
    <2>1. BytesPerMs \in Nat \ {0}
      BY Lengths, SMT
    <2>. QED BY <2>1, Lengths
  <1>. PICK s \in Nat : s = ScanLen /\ s >= b
    BY Lengths
  <1>. DEFINE found == {p \in 0 .. s - 1 : MillisecondAt(p)}
  <1>1. /\ AInv /\ Stream /\ Course /\ pc = "scan"
        /\ \/ found = {} /\ pc' = "flush"
           \/ found # {} /\ pc' = "skip" /\ searchPos' = Min(found)
        /\ UNCHANGED <<cb, producerVars>> /\ UNCHANGED <<since, lost, last>>
    BY DEF CInv, Scan, Goto, ScanLen, producerVars
  <1>2. /\ Stream' /\ Base' = Base /\ Unread' = n /\ Queue' = Queue
        /\ cb'.recordingActive = cb.recordingActive /\ After' = After
        /\ (Unbroken' <=> Unbroken) /\ (InStep' <=> InStep)
    BY <1>1, SameBufferKeepsStream DEF After, InStep, Unbroken
  <1>3. n >= s + b + b /\ \A i \in 1 .. n : Queue[i] \in Int
    <2>1. n >= WindowLen
      BY <1>1 DEF AInv, MsThere
    <2>2. n >= s + b + b
      BY <2>1, Lengths, SMT
    <2>. QED BY <1>1, <2>2, Reader DEF AInv
  <1>4. found # {} => /\ Min(found) \in found
                      /\ \A y \in found : Min(found) <= y
    <2>1. s - 1 \in Nat
      BY SMT
    <2>. QED BY <2>1, MinOf
  <1>5. ASSUME NEW m \in Nat, m <= s + b + 1,
               \A k \in 1 .. m - 1 : Queue[k + 1] = Queue[k] + 1,
               NEW p \in 0 .. s - 1, p + b + 2 <= m,
               (Queue[1] + p) % b = 0
        PROVE  p \in found
    <2>1. /\ m >= 1 /\ 1 \in 1 .. n
          /\ \A i \in 1 .. m : i \in 1 .. n
          /\ p + 1 \in 1 .. m /\ p + 2 \in 1 .. m
          /\ p + b + 1 \in 1 .. m /\ p + b + 2 \in 1 .. m
      BY <1>3, <1>5, SMT
    <2>2. \A i \in 1 .. m : Queue[i] \in Int
      BY <1>3, <2>1
    <2>3. \A i \in 1 .. m : Queue[i] = Queue[1] + (i - 1)
      BY <1>5, <2>1, <2>2, WholeBytes
    <2>. PICK c \in Int : c = Queue[1]
      BY <1>3, <2>1
    <2>4. /\ Queue[p + 1] = c + ((p + 1) - 1)
          /\ Queue[p + 2] = c + ((p + 2) - 1)
          /\ Queue[p + b + 1] = c + ((p + b + 1) - 1)
          /\ Queue[p + b + 2] = c + ((p + b + 2) - 1)
      BY <2>1, <2>3
    <2>5. /\ Queue[p + 1] = c + p
          /\ Queue[p + 2] = Queue[p + 1] + 1
          /\ Queue[p + b + 1] = Queue[p + 1] + b
          /\ Queue[p + b + 2] = Queue[p + 1] + b + 1
      BY <2>4, SMT
    <2>6. Queue[p + 1] % b = 0
      BY <1>5, <2>5
    <2>7. MillisecondAt(p)
      BY <1>1, <2>5, <2>6, SeenAt
    <2>. QED BY <2>7
  <1>6. pc' = "flush" =>
            \E k \in 1 .. s + b : Queue[k + 1] # Queue[k] + 1
    <2>. SUFFICES ASSUME found = {},
                         \A k \in 1 .. s + b : Queue[k + 1] = Queue[k] + 1
                  PROVE  FALSE
      BY <1>1
    <2>1. 1 \in 1 .. n
      BY <1>3, SMT
    <2>. PICK p \in 0 .. b - 1 : (Queue[1] + p) % b = 0
      BY <1>3, <2>1, PlaceAhead
    <2>2. /\ s + b + 1 \in Nat /\ s + b + 1 <= s + b + 1
          /\ (s + b + 1) - 1 = s + b /\ p \in 0 .. s - 1
          /\ p + b + 2 <= s + b + 1
      BY SMT
    <2>3. p \in found
      BY <1>5, <2>2
    <2>. QED BY <2>3
  <1>7. pc' = "skip" /\ InStep => searchPos' = 0
    <2>. SUFFICES ASSUME pc' = "skip", InStep PROVE searchPos' = 0
      OBVIOUS
    <2>1. /\ Base - n = After
          /\ \A i \in 1 .. n : Queue[i] = (Base - n) + (i - 1)
      BY <1>1 DEF Course, Stream, InStep, Unbroken
    <2>2. After \in Nat /\ After % b = 0
      BY <1>1, AfterTyped DEF Course, After, InStep
    <2>3. \A k \in 1 .. (b + 2) - 1 : /\ k \in 1 .. n /\ k + 1 \in 1 .. n
                                      /\ (After + ((k + 1) - 1))
                                             = (After + (k - 1)) + 1
      BY <1>3, <2>2, SMT
    <2>4. \A k \in 1 .. (b + 2) - 1 : Queue[k + 1] = Queue[k] + 1
      BY <2>1, <2>3
    <2>5. Queue[1] + 0 = After
      <3>1. 1 \in 1 .. n
        BY <1>3, SMT
      <3>2. Queue[1] = After + (1 - 1)
        BY <2>1, <3>1
      <3>. QED BY <2>2, <3>2, SMT
    <2>6. b + 2 \in Nat /\ b + 2 <= s + b + 1 /\ 0 \in 0 .. s - 1
          /\ 0 + b + 2 <= b + 2
      BY SMT
    <2>7. 0 \in found
      BY <1>5, <2>2, <2>4, <2>5, <2>6
    <2>8. Min(found) \in 0 .. s - 1 /\ Min(found) <= 0
      BY <1>4, <2>7
    <2>. QED BY <1>1, <2>8, SMT
  <1>8. pc' = "skip" => /\ IsHeader(Queue[searchPos' + 1])
                        /\ IsHeader(Queue[searchPos' + b + 1])
    <2>. SUFFICES ASSUME found # {}, searchPos' = Min(found)
                  PROVE  /\ IsHeader(Queue[searchPos' + 1])
                         /\ IsHeader(Queue[searchPos' + b + 1])
      BY <1>1
    <2>1. searchPos' \in 0 .. s - 1 /\ MillisecondAt(searchPos')
      BY <1>4
    <2>. PICK p \in 0 .. s - 1 : p = searchPos'
      BY <2>1
    <2>. QED BY <1>1, <2>1, SeenAt
  <1>. HIDE DEF found
  <1>9. pc' \in {"flush", "skip"}
    BY <1>1
  <1>10. /\ After <= Base /\ \A i \in 1 .. n : After <= Queue[i]
         /\ Unbroken => Base - n = After
         /\ last' \in Nat \cup {NoByte}
    BY <1>1 DEF Course
  <1>11. Course'
    BY <1>2, <1>6, <1>7, <1>8, <1>9, <1>10 DEF Course, IsHeader
  <1>. QED BY <1>2, <1>9, <1>11 DEF Taken, Taking

\* Where a byte is missing, something is lost.
LEMMA FlushKeepsCInv ==
    ASSUME CInv, Flush
    PROVE  Stream' /\ Course' /\ Taken'
  <1>. PICK n \in Nat : n = Unread
    BY Reader DEF CInv, AInv
  <1>1. /\ AInv /\ Stream /\ Course /\ pc = "flush" /\ pc' = "await"
        /\ cb' = ConfirmRead(cb, Processor, ScanLen)
        /\ UNCHANGED producerVars /\ UNCHANGED <<since, lost, last>>
    BY DEF CInv, Flush, Goto, ScanLen, producerVars
  <1>2. /\ ScanLen \in 0 .. n
        /\ \A k \in 1 .. ScanLen + BytesPerMs : /\ k \in 1 .. n
                                                /\ k + 1 \in 1 .. n
    <2>1. n >= WindowLen
      BY <1>1 DEF AInv, MsThere
    <2>. QED BY <2>1, Lengths, SMT
  <1>3. Less(ScanLen)
    BY <1>1, <1>2, Confirms DEF AInv, Less
  <1>4. Stream' /\ Base' = Base
    BY <1>1, <1>2, <1>3, LessKeepsStream
  <1>5. lost
    <2>. SUFFICES ASSUME ~lost PROVE FALSE
      OBVIOUS
    <2>. PICK k \in 1 .. ScanLen + BytesPerMs : Queue[k + 1] # Queue[k] + 1
      BY <1>1 DEF Course
    <2>1. Queue[k] = (Base - n) + (k - 1)
          /\ Queue[k + 1] = (Base - n) + ((k + 1) - 1)
      BY <1>1, <1>2 DEF Stream
    <2>2. Base \in Int /\ k \in Int
      BY <1>1, <1>2, BaseTyped, SMT
    <2>. QED BY <2>1, <2>2, SMT
  <1>6. After' = After /\ ~Unbroken'
    BY <1>1, <1>5 DEF After, Unbroken
  <1>7. \A k \in 1 .. n - ScanLen : ScanLen + k \in 1 .. n
    BY <1>2, SMT
  <1>8. Course'
    BY <1>1, <1>3, <1>4, <1>6, <1>7 DEF Course, Less
  <1>. QED BY <1>1, <1>4, <1>8 DEF Taken, Taking

LEMMA SkipKeepsCInv ==
    ASSUME CInv, Skip
    PROVE  Stream' /\ Course' /\ Taken'
  <1>. PICK n \in Nat : n = Unread
    BY Reader DEF CInv, AInv
  <1>. PICK b \in Nat : b = BytesPerMs
    BY Lengths
  <1>1. /\ AInv /\ Stream /\ Course /\ pc = "skip" /\ pc' = "copy"
        /\ UNCHANGED producerVars /\ UNCHANGED <<since, lost, last>>
    BY DEF CInv, Skip, Goto, producerVars
  <1>. PICK s \in 0 .. n : s = searchPos
    BY <1>1, Skipped
  <1>2. Less(s)
    BY <1>1, Skipped DEF Less
  <1>3. Stream'
    BY <1>1, <1>2, LessKeepsStream
  <1>4. s + 1 \in 1 .. n - b /\ s + b + 1 \in 1 .. n /\ s + 1 \in 1 .. n
        /\ s + 1 < s + b + 1
        /\ \A k \in 0 .. b : /\ s + 1 + k \in 1 .. n /\ s + (k + 1) = s + 1 + k
                             /\ k + 1 \in 1 .. n - s
    <2>1. n - s >= b + 1
      BY <1>1, Skipped
    <2>2. b >= 3
      BY Lengths
    <2>. QED BY <2>1, <2>2, SMT
  <1>5. \A i \in 1 .. n : /\ Queue[i] \in Int /\ After <= Queue[i]
                          /\ since <= Queue[i]
    BY <1>1, Reader DEF AInv, Stream, Course
  <1>. PICK x \in [0 .. b -> Int] : \A k \in 0 .. b : x[k] = Queue[s + 1 + k]
    <2>1. [k \in 0 .. b |-> Queue[s + 1 + k]] \in [0 .. b -> Int]
      BY <1>4, <1>5
    <2>. QED BY <2>1
  <1>8. /\ 0 \in 0 .. b /\ b \in 0 .. b /\ s + 1 + 0 = s + 1
        /\ s + 1 + b = s + b + 1 /\ (s + b + 1) - (s + 1) = b
    BY SMT
  <1>9. x[0] = Queue[s + 1] /\ x[b] = Queue[s + b + 1]
    BY <1>8
  <1>10. Millisecond(x)
    <2>1. IsHeader(x[0]) /\ IsHeader(x[b]) /\ After <= x[0]
      BY <1>1, <1>4, <1>5, <1>9 DEF Course
    <2>2. \A j, k \in 0 .. b : j < k => x[k] - x[j] >= k - j
      <3>. SUFFICES ASSUME NEW j \in 0 .. b, NEW k \in 0 .. b, j < k
                    PROVE  x[k] - x[j] >= k - j
        OBVIOUS
      <3>1. s + 1 + j < s + 1 + k /\ (s + 1 + k) - (s + 1 + j) = k - j
        BY SMT
      <3>2. Queue[s + 1 + k] - Queue[s + 1 + j] >= k - j
        BY <1>1, <1>4, <3>1 DEF Stream, Rising
      <3>. QED BY <3>2
    <2>3. \A k \in 0 .. b : since <= x[k]
      BY <1>4, <1>5
    <2>4. ~lost => \A k \in 0 .. b : x[k] = x[0] + k
      <3>. SUFFICES ASSUME ~lost, NEW k \in 0 .. b PROVE x[k] = x[0] + k
        OBVIOUS
      <3>1. x[k] = (Base - n) + ((s + 1 + k) - 1)
            /\ x[0] = (Base - n) + ((s + 1) - 1)
        BY <1>1, <1>4, <1>9 DEF Stream
      <3>2. Base \in Int
        BY <1>1, BaseTyped
      <3>. QED BY <3>1, <3>2, SMT
    <2>5. InStep => x[0] = After
      <3>. SUFFICES ASSUME InStep PROVE x[0] = After
        OBVIOUS
      <3>1. s = 0 /\ Base - n = After /\ 1 \in 1 .. n
        BY <1>1, <1>4, SMT DEF Course, InStep
      <3>2. Queue[1] = (Base - n) + (1 - 1) /\ Queue[1] = x[0]
        BY <1>1, <1>9, <3>1 DEF Stream, InStep, Unbroken
      <3>3. Base \in Int
        BY <1>1, BaseTyped
      <3>. QED BY <3>1, <3>2, <3>3, SMT
    <2>. QED BY <2>1, <2>2, <2>3, <2>4, <2>5 DEF Millisecond
  <1>11. Millisecond(x)'
    BY <1>1, <1>10 DEF Millisecond, After, InStep, Unbroken
  <1>12. Placed(x)'
    <2>1. \A k \in 0 .. b : Queue'[k + 1] = x[k]
      <3>. TAKE k \in 0 .. b
      <3>1. Queue'[k + 1] = Queue[s + (k + 1)]
        BY <1>2, <1>4 DEF Less
      <3>2. s + (k + 1) = s + 1 + k
        BY <1>4
      <3>. QED BY <3>1, <3>2
    <2>. QED BY <1>1, <2>1 DEF Placed
  <1>13. Taken'
    BY <1>1, <1>11, <1>12 DEF Taken
  <1>14. Course'
    BY <1>1 DEF Course
  <1>. QED BY <1>3, <1>13, <1>14

\* The steps from Copy to Confirm carry the same bytes.
LEMMA TakingKeepsCourse ==
    ASSUME Course, UNCHANGED last,
           pc' \in {"copy", "rest", "copy_rest", "confirm", "return"}
    PROVE  Course'
  BY DEF Course

LEMMA TakingKeepsTaken ==
    ASSUME UNCHANGED <<since, lost, last>>,
           NEW x \in [0 .. BytesPerMs -> Int], Millisecond(x), Placed(x)'
    PROVE  Taken'
  <1>1. Millisecond(x)'
    BY DEF Millisecond, After, InStep, Unbroken
  <1>. QED BY <1>1 DEF Taken

LEMMA RawIsQueue ==
    ASSUME AInv, NEW len \in Nat, len <= Unread, TailOffset + len <= DataLen
    PROVE  \A k \in 0 .. len - 1 : cb.data_ptr[TailOffset + k] = Queue[k + 1]
  <1>. SUFFICES ASSUME NEW k \in 0 .. len - 1
                PROVE  cb.data_ptr[TailOffset + k] = Queue[k + 1]
    OBVIOUS
  <1>1. /\ k \in 0 .. Unread - 1 /\ k \in Offsets /\ TailOffset + k < DataLen
    <2>1. Unread \in Nat /\ TailOffset \in Offsets
      BY Reader DEF AInv
    <2>. QED BY <2>1, DataLenAssumption, SMT DEF Offsets
  <1>2. UnreadOffset(cb, Processor, k) = TailOffset + k
    BY <1>1, Reader, UnreadOffsetValue DEF AInv, Buffer, TailOffset
  <1>3. peekByte(k) = Queue[k + 1]
    BY <1>1, Reader DEF AInv
  <1>. QED BY <1>2, <1>3 DEF peekByte

LEMMA CopyKeepsCInv ==
    ASSUME CInv, Copy
    PROVE  Stream' /\ Course' /\ Taken'
  <1>1. /\ AInv /\ Stream /\ Course /\ Taken /\ pc = "copy"
        /\ result' = RawBytes(readLen)
        /\ pc' = IF readLen < BytesPerMs THEN "rest" ELSE "confirm"
        /\ UNCHANGED <<cb, producerVars>> /\ readLen' = readLen
        /\ UNCHANGED <<since, lost, last>>
    BY DEF CInv, Copy, Goto, producerVars
  <1>2. /\ readLen \in 1 .. BytesPerMs /\ Unread >= BytesPerMs + 1
        /\ TailOffset + readLen <= DataLen
    BY <1>1 DEF AInv, MsThere
  <1>3. /\ readLen \in Nat /\ readLen <= Unread
        /\ ~(readLen < BytesPerMs) => readLen = BytesPerMs
        /\ BytesPerMs \in 0 .. BytesPerMs
        /\ \A k \in 0 .. readLen - 1 : k \in 0 .. BytesPerMs
    BY <1>1, <1>2, Reader, Lengths, SMT DEF AInv
  <1>. PICK x \in [0 .. BytesPerMs -> Int] : Millisecond(x) /\ Placed(x)
    BY <1>1 DEF Taken, Taking
  <1>4. Stream' /\ Queue' = Queue
    BY <1>1, SameBufferKeepsStream
  <1>5. \A k \in 0 .. BytesPerMs : Queue[k + 1] = x[k]
    BY <1>1 DEF Placed
  <1>6. \A k \in 0 .. readLen - 1 : result'[k] = x[k]
    <2>1. \A k \in 0 .. readLen - 1 :
              cb.data_ptr[TailOffset + k] = Queue[k + 1]
      BY <1>1, <1>2, <1>3, RawIsQueue
    <2>. QED BY <1>1, <1>3, <1>5, <2>1 DEF RawBytes, TailOffset
  <1>7. Placed(x)'
    <2>1. CASE readLen < BytesPerMs
      BY <1>1, <1>4, <1>5, <1>6, <2>1 DEF Placed
    <2>2. CASE ~(readLen < BytesPerMs)
      BY <1>1, <1>3, <1>4, <1>5, <1>6, <2>2 DEF Placed
    <2>. QED BY <2>1, <2>2
  <1>8. Taken'
    BY <1>1, <1>7, TakingKeepsTaken
  <1>9. Course'
    BY <1>1, TakingKeepsCourse
  <1>. QED BY <1>4, <1>8, <1>9

LEMMA RestKeepsCInv ==
    ASSUME CInv, Rest
    PROVE  Stream' /\ Course' /\ Taken'
  <1>. PICK n \in Nat : n = Unread
    BY Reader DEF CInv, AInv
  <1>. PICK b \in Nat : b = BytesPerMs
    BY Lengths
  <1>1. /\ AInv /\ Stream /\ Course /\ Taken /\ pc = "rest"
        /\ pc' = "copy_rest" /\ result' = result
        /\ UNCHANGED producerVars /\ UNCHANGED <<since, lost, last>>
    BY DEF CInv, Rest, Goto, producerVars
  <1>. PICK d \in 1 .. b - 1 : d = readLen /\ d \in 0 .. n
    BY <1>1, RestLeaves
  <1>2. readLen' = b - d /\ n - d >= (b - d) + 1
    BY <1>1, RestLeaves
  <1>3. Less(d)
    BY <1>1, RestLeaves DEF Less
  <1>4. Stream'
    BY <1>1, <1>3, LessKeepsStream
  <1>. PICK x \in [0 .. BytesPerMs -> Int] : Millisecond(x) /\ Placed(x)
    BY <1>1 DEF Taken, Taking
  <1>5. /\ b - (b - d) = d
        /\ \A k \in 0 .. b - d : /\ k + 1 \in 1 .. n - d
                                 /\ d + (k + 1) = (d + k) + 1
                                 /\ d + k \in 0 .. b
    BY <1>2, SMT
  <1>6. \A k \in 0 .. b - d : Queue'[k + 1] = x[d + k]
    <2>. TAKE k \in 0 .. b - d
    <2>1. Queue'[k + 1] = Queue[d + (k + 1)]
      BY <1>3, <1>5 DEF Less
    <2>2. d + (k + 1) = (d + k) + 1 /\ Queue[(d + k) + 1] = x[d + k]
      BY <1>1, <1>5 DEF Placed
    <2>. QED BY <2>1, <2>2
  <1>7. \A k \in 0 .. d - 1 : result[k] = x[k]
    BY <1>1 DEF Placed
  <1>8. Placed(x)'
    BY <1>1, <1>2, <1>5, <1>6, <1>7 DEF Placed
  <1>9. Taken'
    BY <1>1, <1>8, TakingKeepsTaken
  <1>10. Course'
    BY <1>1, TakingKeepsCourse
  <1>. QED BY <1>4, <1>9, <1>10

LEMMA CopyRestKeepsCInv ==
    ASSUME CInv, CopyRest
    PROVE  Stream' /\ Course' /\ Taken'
  <1>. PICK b \in Nat : b = BytesPerMs
    BY Lengths
  <1>1. /\ AInv /\ Stream /\ Course /\ Taken /\ pc = "copy_rest"
        /\ pc' = "confirm" /\ readLen' = readLen
        /\ UNCHANGED <<cb, producerVars>> /\ UNCHANGED <<since, lost, last>>
    BY DEF CInv, CopyRest, Goto, producerVars
  <1>. PICK d \in 1 .. b - 1 : d = readLen
    BY <1>1, CopyRestGives
  <1>2. /\ \A k \in 0 .. (b - d) - 1 : result'[k] = result[k]
        /\ \A k \in 0 .. d - 1 : result'[(b - d) + k] = cb.data_ptr[k]
    BY <1>1, CopyRestGives
  <1>. PICK x \in [0 .. BytesPerMs -> Int] : Millisecond(x) /\ Placed(x)
    BY <1>1 DEF Taken, Taking
  <1>3. /\ \A k \in 0 .. b - d - 1 : result[k] = x[k]
        /\ \A k \in 0 .. d : Queue[k + 1] = x[(b - d) + k]
    BY <1>1 DEF Placed
  <1>4. Stream' /\ Queue' = Queue
    BY <1>1, SameBufferKeepsStream
  <1>5. \A k \in 0 .. d - 1 : cb.data_ptr[k] = Queue[k + 1]
    <2>1. Unread >= d + 1 /\ TailOffset = 0 /\ Unread \in Nat
      BY <1>1, Reader DEF AInv, MsThere
    <2>2. d \in Nat /\ d <= Unread /\ TailOffset + d <= DataLen
          /\ \A k \in 0 .. d - 1 : 0 + k = k
      BY <2>1, Lengths, SMT
    <2>3. \A k \in 0 .. d - 1 : cb.data_ptr[TailOffset + k] = Queue[k + 1]
      BY <1>1, <2>2, RawIsQueue
    <2>. QED BY <2>1, <2>2, <2>3
  <1>6. /\ \A k \in 0 .. b - 1 :
               \/ k \in 0 .. b - d - 1
               \/ k - (b - d) \in 0 .. d - 1 /\ (b - d) + (k - (b - d)) = k
        /\ \A k \in 0 .. d - 1 : k \in 0 .. d
        /\ d \in 0 .. d /\ (b - d) + d = b /\ (b - d) - 1 = b - d - 1
    BY SMT
  <1>7. ASSUME NEW k \in 0 .. b - 1
        PROVE  result'[k] = x[k]
    <2>1. CASE k \in 0 .. b - d - 1
      BY <1>2, <1>3, <1>6, <2>1
    <2>2. CASE k - (b - d) \in 0 .. d - 1 /\ (b - d) + (k - (b - d)) = k
      <3>. PICK j \in 0 .. d - 1 : (b - d) + j = k
        BY <2>2
      <3>1. result'[(b - d) + j] = cb.data_ptr[j]
        BY <1>2
      <3>2. cb.data_ptr[j] = x[(b - d) + j]
        BY <1>3, <1>5, <1>6
      <3>. QED BY <3>1, <3>2
    <2>. QED BY <1>6, <2>1, <2>2
  <1>8. Queue[d + 1] = x[b]
    BY <1>3, <1>6
  <1>9. Placed(x)'
    BY <1>1, <1>4, <1>7, <1>8 DEF Placed
  <1>10. Taken'
    BY <1>1, <1>9, TakingKeepsTaken
  <1>11. Course'
    BY <1>1, TakingKeepsCourse
  <1>. QED BY <1>4, <1>10, <1>11

LEMMA ConfirmKeepsCInv ==
    ASSUME CInv, Confirm
    PROVE  Stream' /\ Course' /\ Taken'
  <1>. PICK n \in Nat : n = Unread
    BY Reader DEF CInv, AInv
  <1>1. /\ AInv /\ Stream /\ Course /\ Taken /\ pc = "confirm"
        /\ pc' = "return" /\ result' = result
        /\ UNCHANGED producerVars /\ UNCHANGED <<since, lost, last>>
    BY DEF CInv, Confirm, Goto, producerVars
  <1>. PICK d \in 0 .. n : d = readLen
    BY <1>1, ConfirmTakes
  <1>2. Less(d)
    BY <1>1, ConfirmTakes DEF Less
  <1>3. Stream'
    BY <1>1, <1>2, LessKeepsStream
  <1>. PICK x \in [0 .. BytesPerMs -> Int] : Millisecond(x) /\ Placed(x)
    BY <1>1 DEF Taken, Taking
  <1>4. Queue'[1] = x[BytesPerMs]
    <2>1. n - d >= 1
      BY <1>1, ConfirmTakes
    <2>2. 1 \in 1 .. n - d
      BY <2>1, SMT
    <2>3. Queue'[1] = Queue[d + 1]
      BY <1>2, <2>2 DEF Less
    <2>. QED BY <1>1, <2>3 DEF Placed
  <1>5. Placed(x)'
    BY <1>1, <1>4 DEF Placed
  <1>6. Taken'
    BY <1>1, <1>5, TakingKeepsTaken
  <1>7. Course'
    BY <1>1, TakingKeepsCourse
  <1>. QED BY <1>3, <1>6, <1>7

LEMMA UseKeepsCInv ==
    ASSUME CInv, UseMillisecond
    PROVE  Stream' /\ Course' /\ Taken'
  <1>. PICK b \in Nat : b = BytesPerMs /\ b >= 3
    BY Lengths
  <1>. PICK n \in Nat : n = Unread
    BY Reader DEF CInv, AInv
  <1>1. /\ AInv /\ Stream /\ Course /\ Taken /\ pc = "return"
        /\ pc' \in {"await", "drain"} /\ last' = result[b - 1]
        /\ UNCHANGED <<cb, producerVars>> /\ UNCHANGED <<since, lost>>
    BY DEF CInv, UseMillisecond, Goto, producerVars
  <1>2. /\ Stream' /\ Base' = Base /\ Unread' = n /\ Queue' = Queue
        /\ cb'.recordingActive = cb.recordingActive
    BY <1>1, SameBufferKeepsStream
  <1>. PICK x \in [0 .. BytesPerMs -> Int] : Millisecond(x) /\ Placed(x)
    BY <1>1 DEF Taken, Taking
  <1>3. /\ 0 \in 0 .. b /\ b - 1 \in 0 .. b /\ b \in 0 .. b
        /\ b - 1 \in 0 .. b - 1 /\ 0 < b - 1 /\ b - 1 < b
    BY SMT
  <1>. PICK c \in Int, d \in Int, e \in Int :
           c = x[0] /\ d = x[b - 1] /\ e = x[b]
    BY <1>3
  <1>4. /\ last' = d /\ Queue[1] = e /\ After <= c
        /\ d - c >= (b - 1) - 0 /\ e - d >= b - (b - 1)
        /\ ~lost => d = c + (b - 1) /\ e = c + b
    BY <1>1, <1>3 DEF Placed, Millisecond
  <1>5. last' \in Nat /\ After' = d + 1 /\ d + 1 <= e
        /\ (~lost => d + 1 = e)
    <2>1. After \in Nat /\ After' = d + 1
      BY <1>1, <1>4, AfterTyped DEF Course, After
    <2>. PICK a \in Nat : a = After
      BY <2>1
    <2>2. /\ d \in Nat /\ d + 1 <= e
          /\ (d = c + (b - 1) /\ e = c + b => d + 1 = e)
      <3>1. a <= c /\ d - c >= (b - 1) - 0 /\ e - d >= b - (b - 1)
        BY <1>4
      <3>. QED BY <3>1, SMT
    <2>. QED BY <1>4, <2>1, <2>2
  <1>6. 1 \in 1 .. n /\ Base \in Int
    <2>1. n >= 1
      BY <1>1 DEF AInv, MsThere
    <2>2. 1 \in 1 .. n
      BY <2>1, SMT
    <2>. QED BY <1>1, <2>2, BaseTyped
  <1>7. \A i \in 1 .. n : After' <= Queue[i]
    <2>. TAKE i \in 1 .. n
    <2>1. Queue[i] \in Int
      BY <1>1, Reader DEF AInv
    <2>2. CASE i = 1
      BY <1>4, <1>5, <2>2
    <2>3. CASE i # 1
      <3>1. 1 < i /\ i - 1 >= 0
        BY <2>3, SMT
      <3>2. Queue[i] - e >= i - 1
        BY <1>1, <1>4, <1>6, <3>1 DEF Stream, Rising
      <3>. QED BY <1>5, <2>1, <3>1, <3>2, SMT
    <2>. QED BY <2>2, <2>3
  <1>8. After' <= Base
    <2>1. e < Base
      BY <1>1, <1>4, <1>6 DEF Stream
    <2>. QED BY <1>5, <1>6, <2>1, SMT
  <1>9. Unbroken' => Base - n = After'
    <2>. SUFFICES ASSUME ~lost PROVE Base - n = After'
      BY <1>1 DEF Unbroken
    <2>1. e = (Base - n) + (1 - 1)
      BY <1>1, <1>4, <1>6 DEF Stream
    <2>. QED BY <1>5, <1>6, <2>1, SMT
  <1>10. Course'
    BY <1>1, <1>2, <1>5, <1>7, <1>8, <1>9 DEF Course
  <1>. QED BY <1>1, <1>2, <1>10 DEF Taken, Taking

LEMMA DrainKeepsCInv ==
    ASSUME CInv, Drain
    PROVE  Stream' /\ Course' /\ Taken'
  <1>. PICK n \in Nat : n = Unread
    BY Reader DEF CInv, AInv
  <1>1. /\ AInv /\ Stream /\ Course /\ pc = "drain"
        /\ pc' = "drain" \/ (~cb.recordingActive /\ pc' = "idle")
        /\ cb' = ConfirmRead(cb, Processor, n)
        /\ UNCHANGED producerVars /\ last' = last
    BY DEF CInv, Drain, Goto
  <1>2. n \in 0 .. n /\ n - n = 0
    BY SMT
  <1>3. Less(n)
    BY <1>1, <1>2, Confirms DEF AInv, Less
  <1>4. Stream'
    BY <1>1, <1>2, <1>3, LessKeepsStream
  <1>5. Unread' = 0 /\ cb'.recordingActive = cb.recordingActive
    BY <1>2, <1>3 DEF Less
  <1>6. Course'
    <2>1. last' \in Nat \cup {NoByte}
      BY <1>1 DEF Course
    <2>2. CASE pc' = "drain"
      BY <2>1, <2>2 DEF Course
    <2>3. CASE pc' = "idle" /\ ~cb.recordingActive
      <3>1. ~cb'.recordingActive
        BY <1>5, <2>3
      <3>. QED BY <1>5, <2>1, <2>3, <3>1 DEF Course
    <2>. QED BY <1>1, <2>2, <2>3
  <1>. QED BY <1>1, <1>4, <1>6 DEF Taken, Taking

LEMMA NextKeepsCInv ==
    ASSUME CInv, [Next]_vars
    PROVE  CInv'
  <1>1. AInv'
    BY NextKeepsAInv DEF CInv
  <1>2. CASE UNCHANGED vars
    <2>1. /\ AInv /\ Stream /\ UNCHANGED <<cb, producerVars>>
          /\ UNCHANGED <<pc, searchPos, readLen, result, since, lost, last>>
      BY <1>2 DEF vars, producerVars, processorVars, CInv
    <2>2. Stream' /\ Base' = Base /\ Unread' = Unread /\ Queue' = Queue
      BY <2>1, SameBufferKeepsStream
    <2>3. /\ After' = After /\ (Unbroken' <=> Unbroken)
          /\ (InStep' <=> InStep)
      BY <2>1 DEF After, InStep, Unbroken
    <2>4. Course'
      BY <2>1, <2>2, <2>3 DEF CInv, Course
    <2>5. Taken'
      <3>. SUFFICES ASSUME Taking
                    PROVE  \E x \in [0 .. BytesPerMs -> Int] :
                               Millisecond(x)' /\ Placed(x)'
        BY <2>1 DEF Taken, Taking
      <3>. PICK x \in [0 .. BytesPerMs -> Int] : Millisecond(x) /\ Placed(x)
        BY DEF CInv, Taken
      <3>1. Millisecond(x)' /\ Placed(x)'
        BY <2>1, <2>2, <2>3 DEF Millisecond, Placed
      <3>. QED BY <3>1
    <2>. QED BY <1>1, <2>2, <2>4, <2>5 DEF CInv
  <1>3. CASE Next
    <2>1. Stream' /\ Course' /\ Taken'
      BY <1>3, StartKeepsCInv, QuietKeepsCInv, WriteKeepsCInv, AwaitKeepsCInv,
         ScanKeepsCInv, FlushKeepsCInv, SkipKeepsCInv, CopyKeepsCInv,
         RestKeepsCInv, CopyRestKeepsCInv, ConfirmKeepsCInv, UseKeepsCInv,
         DrainKeepsCInv DEF Next, Producer, getValidMillisecond
    <2>. QED BY <1>1, <2>1 DEF CInv
  <1>. QED BY <1>2, <1>3

LEMMA AlwaysCInv == Spec => []CInv
  <1>1. CInv /\ [Next]_vars => CInv'
    BY NextKeepsCInv
  <1>. QED BY <1>1, InitCInv, PTL DEF Spec

-----------------------------------------------------------------------------
(* What follows from the content.                                           *)

\* A search that finds nothing has looked at a gap: good milliseconds are never
\* flushed, whatever looks like a header (client_behaviours.c:1098-1130).
THEOREM SearchFlushesOnlyGaps == Spec => []FlushOnlyGaps
  <1>1. ASSUME CInv
        PROVE  FlushOnlyGaps
    <2>. SUFFICES ASSUME pc = "flush"
                  PROVE  \E k \in 1 .. (ScanMs + 1) * BytesPerMs :
                             peekByte(k) # peekByte(k - 1) + 1
      BY DEF FlushOnlyGaps
    <2>. PICK k \in 1 .. ScanLen + BytesPerMs : Queue[k + 1] # Queue[k] + 1
      BY <1>1 DEF CInv, Course
    <2>1. /\ k \in 0 .. Unread - 1 /\ k - 1 \in 0 .. Unread - 1
          /\ (k - 1) + 1 = k
      <3>1. Unread >= WindowLen /\ Unread \in Nat
        BY <1>1, Reader DEF CInv, AInv, MsThere
      <3>. QED BY <3>1, Lengths, SMT
    <2>2. peekByte(k) = Queue[k + 1] /\ peekByte(k - 1) = Queue[k]
      BY <1>1, <2>1, Reader DEF CInv, AInv
    <2>. QED BY <2>2, Lengths
  <1>. QED BY <1>1, AlwaysCInv, PTL

\* While a millisecond is returned, its bytes and the one behind it.
LEMMA Returned ==
    ASSUME CInv, pc = "return"
    PROVE  \E x \in [0 .. BytesPerMs -> Int] :
               /\ Millisecond(x)
               /\ \A k \in 0 .. BytesPerMs : TakenByte(k) = x[k]
               /\ \A k \in PositionInMs : result[k] = x[k]
  <1>. PICK x \in [0 .. BytesPerMs -> Int] : Millisecond(x) /\ Placed(x)
    BY DEF CInv, Taken, Taking
  <1>1. \A k \in PositionInMs : result[k] = x[k]
    BY DEF Placed, PositionInMs
  <1>2. peekByte(0) = x[BytesPerMs]
    <2>1. Unread >= 1 /\ Unread \in Nat
      BY Reader DEF CInv, AInv, MsThere
    <2>2. 0 \in 0 .. Unread - 1 /\ 0 + 1 = 1
      BY <2>1, SMT
    <2>. QED BY <2>2, Reader DEF CInv, AInv, Placed
  <1>3. ASSUME NEW k \in 0 .. BytesPerMs
        PROVE  TakenByte(k) = x[k]
    <2>1. /\ k < BytesPerMs => k \in PositionInMs
          /\ ~(k < BytesPerMs) => k = BytesPerMs
      BY Lengths, SMT DEF PositionInMs
    <2>. QED BY <1>1, <1>2, <2>1 DEF TakenByte
  <1>. QED BY <1>1, <1>3

\* Between two seams no byte is missing.
LEMMA BetweenSeams ==
    ASSUME NEW x \in [0 .. BytesPerMs -> Int], NEW i \in 0 .. BytesPerMs,
           NEW j \in i .. BytesPerMs,
           \A k \in i + 1 .. j : x[k] = x[k - 1] + 1
    PROVE  x[j] = x[i] + (j - i)
  <1>. PICK n \in Nat : n = j - i + 1 /\ n >= 1
    <2>1. j - i + 1 \in Nat /\ j - i + 1 >= 1
      BY Lengths, SMT
    <2>. QED BY <2>1
  <1>. DEFINE q == [m \in 1 .. n |-> x[i + m - 1]]
  <1>1. /\ \A m \in 1 .. n : i + m - 1 \in 0 .. BytesPerMs
        /\ \A m \in 1 .. n - 1 : /\ m \in 1 .. n /\ m + 1 \in 1 .. n
                                 /\ i + (m + 1) - 1 = i + m
                                 /\ i + m \in i + 1 .. j
        /\ 1 \in 1 .. n /\ n \in 1 .. n /\ i + 1 - 1 = i /\ i + n - 1 = j
        /\ n - 1 = j - i
    BY Lengths, SMT
  <1>2. \A m \in 1 .. n : q[m] = x[i + m - 1] /\ q[m] \in Int
    BY <1>1
  <1>. HIDE DEF q
  <1>3. \A m \in 1 .. n - 1 : q[m + 1] = q[m] + 1
    <2>. TAKE m \in 1 .. n - 1
    <2>1. q[m + 1] = x[i + m] /\ q[m] = x[(i + m) - 1]
      BY <1>1, <1>2
    <2>2. x[i + m] = x[(i + m) - 1] + 1
      BY <1>1
    <2>. QED BY <2>1, <2>2
  <1>4. q[n] = q[1] + (n - 1)
    <2>1. \A m \in 1 .. n : q[m] \in Int
      BY <1>2
    <2>2. \A m \in 1 .. n : q[m] = q[1] + (m - 1)
      BY <1>3, <2>1, WholeBytes
    <2>. QED BY <1>1, <2>2
  <1>. QED BY <1>1, <1>2, <1>4

\* Where nothing is missing one true header is enough.
LEMMA InPlaceWhole ==
    ASSUME NEW x \in [0 .. BytesPerMs -> Int], Millisecond(x),
           \A k \in 0 .. BytesPerMs : x[k] = x[0] + k,
           ~({x[0], x[BytesPerMs]} \subseteq LookAlikes),
           NEW k \in 0 .. BytesPerMs - 1
    PROVE  x[k] % BytesPerMs = k
  <1>. PICK b \in Nat \ {0} : b = BytesPerMs
    <2>1. BytesPerMs \in Nat \ {0}
      BY Lengths, SMT
    <2>. QED BY <2>1
  <1>1. 0 \in 0 .. b /\ b \in 0 .. b /\ 0 \in 0 .. b - 1 /\ k \in 0 .. b
    BY SMT
  <1>. PICK c \in Int : c = x[0]
    BY <1>1
  <1>2. x[b] = c + b /\ c + b \in Int /\ (c + b) - b = c /\ c + 0 = c
    BY <1>1, SMT
  <1>3. c % b = 0
    <2>1. CASE c \notin LookAlikes
      BY <2>1 DEF Millisecond, IsHeader
    <2>2. CASE c + b \notin LookAlikes
      <3>1. (c + b) % b = 0
        BY <1>2, <2>2 DEF Millisecond, IsHeader
      <3>2. (((c + b) - b) + 0) % b = 0
        BY <1>1, <1>2, <3>1, PlacesBehind
      <3>. QED BY <1>2, <3>2
    <2>. QED BY <1>2, <2>1, <2>2
  <1>4. (c + k) % b = k
    BY <1>3, PlacesBehind
  <1>. QED BY <1>1, <1>4

\* Two true headers are enough where bytes are missing at one place only: those
\* before it follow the first one, the others precede the second one.
LEMMA InPlaceBent ==
    ASSUME NEW x \in [0 .. BytesPerMs -> Int],
           x[0] % BytesPerMs = 0, x[BytesPerMs] % BytesPerMs = 0,
           NEW m \in 1 .. BytesPerMs,
           \A k \in 1 .. BytesPerMs : k # m => x[k] = x[k - 1] + 1,
           NEW k \in 0 .. BytesPerMs - 1
    PROVE  x[k] % BytesPerMs = k
  <1>. PICK b \in Nat \ {0} : b = BytesPerMs
    <2>1. BytesPerMs \in Nat \ {0}
      BY Lengths, SMT
    <2>. QED BY <2>1
  <1>1. /\ 0 \in 0 .. b /\ b \in 0 .. b /\ k \in 0 .. b
        /\ k \in 0 .. b /\ b \in k .. b
    BY SMT
  <1>. PICK c \in Int, d \in Int, y \in Int : c = x[0] /\ d = x[b] /\ y = x[k]
    BY <1>1
  <1>2. CASE k < m
    <2>1. \A l \in 0 + 1 .. k : l \in 1 .. b /\ l # m
      BY <1>2, SMT
    <2>2. y = c + (k - 0)
      <3>1. \A l \in 0 + 1 .. k : x[l] = x[l - 1] + 1
        BY <2>1
      <3>2. 0 \in 0 .. BytesPerMs /\ k \in 0 .. BytesPerMs
        BY <1>1
      <3>3. x[k] = x[0] + (k - 0)
        BY <3>1, <3>2, BetweenSeams
      <3>. QED BY <3>3
    <2>3. y = c + k
      BY <2>2, SMT
    <2>. QED BY <2>3, PlacesBehind
  <1>3. CASE ~(k < m)
    <2>1. \A l \in k + 1 .. b : l \in 1 .. b /\ l # m
      BY <1>3, SMT
    <2>2. d = y + (b - k)
      <3>1. \A l \in k + 1 .. b : x[l] = x[l - 1] + 1
        BY <2>1
      <3>2. x[b] = x[k] + (b - k)
        BY <1>1, <3>1, BetweenSeams
      <3>. QED BY <3>2
    <2>3. y = (d - b) + k
      BY <2>2, SMT
    <2>. QED BY <2>3, PlacesBehind
  <1>. QED BY <1>2, <1>3

\* Seams at two places are at least two.
LEMMA TwoSeams ==
    ASSUME NEW m \in Seams, NEW l \in Seams, l # m
    PROVE  Cardinality(Seams) >= 2
  <1>1. IsFiniteSet(Seams)
    <2>1. IsFiniteSet(1 .. BytesPerMs)
      BY Lengths, FS_Interval, SMT
    <2>. QED BY <2>1, FS_Subset DEF Seams
  <1>2. Cardinality({m}) = 1 /\ IsFiniteSet({m})
    BY FS_Singleton
  <1>3. Cardinality({m} \cup {l}) = 2
    <2>1. Cardinality({m} \cup {l}) = Cardinality({m}) + 1
      BY <1>2, FS_AddElement
    <2>. QED BY <1>2, <2>1
  <1>4. Cardinality({m} \cup {l}) <= Cardinality(Seams)
    BY <1>1, FS_Subset
  <1>. QED BY <1>1, <1>3, <1>4, FS_CardinalityType, SMT

\* For chunks, losses and look-alikes of every kind: the bytes of what is
\* returned are in their places, unless two bytes exactly a millisecond apart
\* both look like a header and are none, one does and bytes are missing between
\* the two, or bytes are missing at two places (client_behaviours.c:1098-1160).
THEOREM SearchKeepsPlaces == Spec => []SamplesInPlace
  <1>1. ASSUME CInv
        PROVE  SamplesInPlace
    <2>. DEFINE found == {TakenByte(0), TakenByte(BytesPerMs)}
    <2>. SUFFICES ASSUME pc = "return",
                         ~(found \subseteq LookAlikes),
                         lost => /\ Seams = {} \/ found \cap LookAlikes = {}
                                 /\ ~(Cardinality(Seams) >= 2),
                         NEW k \in PositionInMs
                  PROVE  result[k] % BytesPerMs = k
      BY DEF SamplesInPlace
    <2>. PICK x \in [0 .. BytesPerMs -> Int] :
                  /\ Millisecond(x)
                  /\ \A j \in 0 .. BytesPerMs : TakenByte(j) = x[j]
                  /\ \A j \in PositionInMs : result[j] = x[j]
      BY <1>1, Returned
    <2>1. /\ k \in 0 .. BytesPerMs - 1
          /\ 0 \in 0 .. BytesPerMs /\ BytesPerMs \in 0 .. BytesPerMs
          /\ \A j \in 1 .. BytesPerMs : /\ j \in 0 .. BytesPerMs
                                        /\ j - 1 \in 0 .. BytesPerMs
      BY Lengths, SMT DEF PositionInMs
    <2>2. found = {x[0], x[BytesPerMs]}
      BY <2>1
    <2>3. \A j \in 1 .. BytesPerMs : j \notin Seams => x[j] = x[j - 1] + 1
      BY <2>1 DEF Seams
    <2>4. CASE ~lost
      <3>1. \A j \in 0 .. BytesPerMs : x[j] = x[0] + j
        BY <2>4 DEF Millisecond
      <3>. QED BY <2>1, <2>2, <3>1, InPlaceWhole
    <2>5. CASE Seams = {}
      <3>1. ASSUME NEW j \in 0 .. BytesPerMs
            PROVE  x[j] = x[0] + j
        <4>1. /\ j \in 0 .. BytesPerMs /\ j - 0 = j
              /\ \A l \in 0 + 1 .. j : l \in 1 .. BytesPerMs
          BY Lengths, SMT
        <4>2. x[j] = x[0] + (j - 0)
          BY <2>1, <2>3, <2>5, <4>1, BetweenSeams
        <4>. QED BY <4>1, <4>2
      <3>. QED BY <2>1, <2>2, <3>1, InPlaceWhole
    <2>6. CASE lost /\ Seams # {}
      <3>. PICK m \in Seams : TRUE
        BY <2>6
      <3>1. \A l \in Seams : l = m
        BY <2>6, TwoSeams
      <3>2. m \in 1 .. BytesPerMs
        BY DEF Seams
      <3>3. \A j \in 1 .. BytesPerMs : j # m => x[j] = x[j - 1] + 1
        BY <2>3, <3>1
      <3>4. x[0] % BytesPerMs = 0 /\ x[BytesPerMs] % BytesPerMs = 0
        BY <2>2, <2>6 DEF Millisecond, IsHeader
      <3>. QED BY <2>1, <3>2, <3>3, <3>4, InPlaceBent
    <2>. QED BY <2>4, <2>5, <2>6
  <1>. QED BY <1>1, AlwaysCInv, PTL

\* Milliseconds are returned in their order, none twice and none into another,
\* those of a recording while it lasts, and one behind the other where nothing
\* is lost (client_behaviours.c:1068-1168 and its caller).
THEOREM SearchInOrder == Spec => []MillisecondsInOrder
  <1>1. ASSUME CInv, pc = "return"
        PROVE  MillisecondsInOrder
    <2>. PICK x \in [0 .. BytesPerMs -> Int] :
                  /\ Millisecond(x)
                  /\ \A j \in PositionInMs : result[j] = x[j]
      BY <1>1, Returned
    <2>1. /\ \A k \in PositionInMs : k \in 0 .. BytesPerMs
          /\ \A k \in 1 .. BytesPerMs - 1 :
                 /\ k \in PositionInMs /\ k - 1 \in PositionInMs
                 /\ k - 1 < k /\ k - (k - 1) = 1
          /\ 0 \in PositionInMs
      BY Lengths, SMT DEF PositionInMs
    <2>2. last \in Int /\ since \in Int /\ \A k \in PositionInMs : x[k] \in Int
      BY <1>1, <2>1, AfterTyped DEF CInv, Course, Stream
    <2>3. result[0] > last
      <3>1. last + 1 <= x[0] /\ x[0] \in Int
        BY <2>1, <2>2 DEF Millisecond, After
      <3>. QED BY <2>1, <2>2, <3>1, SMT
    <2>4. ASSUME NEW k \in 1 .. BytesPerMs - 1
          PROVE  result[k] > result[k - 1]
      <3>1. x[k] - x[k - 1] >= 1
        BY <2>1 DEF Millisecond
      <3>. PICK c \in Int, d \in Int : c = x[k] /\ d = x[k - 1]
        BY <2>1, <2>2
      <3>2. c > d
        BY <3>1, SMT
      <3>. QED BY <2>1, <3>2
    <2>5. ASSUME NEW k \in PositionInMs
          PROVE  result[k] >= since
      <3>1. since <= x[k] /\ x[k] \in Int
        BY <2>1, <2>2 DEF Millisecond
      <3>. QED BY <2>2, <3>1, SMT
    <2>6. ~lost => \A k \in PositionInMs : result[k] = result[0] + k
      BY <2>1 DEF Millisecond
    <2>7. ~lost => (last # NoByte /\ (last + 1) % BytesPerMs = 0 =>
                        result[0] = last + 1)
      BY <2>1 DEF Millisecond, InStep, Unbroken, After
    <2>. QED BY <2>3, <2>4, <2>5, <2>6, <2>7 DEF MillisecondsInOrder
  <1>2. CInv => MillisecondsInOrder
    BY <1>1 DEF MillisecondsInOrder
  <1>. QED BY <1>2, AlwaysCInv, PTL

=============================================================================
