------------------------ MODULE CircularBufferProofs ------------------------
(***************************************************************************)
(* Lemmas about the functions of CircularBuffer.c, for buffers of every    *)
(* length and any number of readers.  The argument is the same throughout: *)
(* around the circle the unread bytes of a reader and the space it leaves  *)
(* the writer are complements, up to the one guard offset.                 *)
(***************************************************************************)
EXTENDS CircularBuffer, FiniteSetTheorems, SequenceTheorems, TLAPS

\* A buffer in which every registered slot holds an offset.
Sound(cb, Byte) ==
    /\ cb \in CircularBufferOf(Byte)
    /\ \A i \in Registered(cb) : cb.readerOffset[i] \in Offsets

-----------------------------------------------------------------------------
(* Arithmetic. *)

\* A sum of an offset and at most one length is reduced by at most one wrap.
LEMMA ModSmall ==
    ASSUME NEW N \in Nat \ {0}, NEW x \in 0 .. N - 1
    PROVE  x % N = x
  BY SMT

\* One turn past the end.
LEMMA ModWrap ==
    ASSUME NEW N \in Nat \ {0}, NEW x \in N .. 2 * N - 1
    PROVE  x % N = x - N
  BY SMT

\* The form in which the updates of head and tails use it.
LEMMA WrapSum ==
    ASSUME NEW x \in Offsets, NEW y \in Offsets
    PROVE  /\ (x + y) % DataLen \in Offsets
           /\ x + y < DataLen => (x + y) % DataLen = x + y
           /\ x + y >= DataLen => (x + y) % DataLen = x + y - DataLen
  <1>1. x \in Nat /\ y \in Nat /\ x < DataLen /\ y < DataLen
    BY DataLenAssumption, SMT DEF Offsets
  <1>2. CASE x + y < DataLen
    <2>1. x + y \in 0 .. DataLen - 1
      BY <1>1, <1>2, DataLenAssumption, SMT
    <2>2. (x + y) % DataLen = x + y
      BY <2>1, ModSmall, DataLenAssumption
    <2>. QED BY <1>1, <1>2, <2>1, <2>2, DataLenAssumption, SMT DEF Offsets
  <1>3. CASE x + y >= DataLen
    <2>1. x + y \in DataLen .. 2 * DataLen - 1
      BY <1>1, <1>3, DataLenAssumption, SMT
    <2>2. (x + y) % DataLen = (x + y) - DataLen
      BY <2>1, ModWrap, DataLenAssumption
    <2>. QED BY <1>1, <1>3, <2>1, <2>2, DataLenAssumption, SMT DEF Offsets
  <1>. QED BY <1>1, <1>2, <1>3, DataLenAssumption, SMT

\* A nonempty set of numbers from an interval 0 .. n has a least element:
\* the size of the set of the positive numbers below all of them.
LEMMA LeastElement ==
    ASSUME NEW n \in Nat, NEW S, S # {}, S \subseteq 0 .. n
    PROVE  \E x \in S : \A y \in S : x =< y
  <1> DEFINE D == {k \in 1 .. n : \A s \in S : k =< s}
             m == Cardinality(D)
  <1>1. IsFiniteSet(D) /\ m \in Nat
    <2>1. IsFiniteSet(1 .. n)
      BY FS_Interval
    <2>2. D \subseteq 1 .. n
      OBVIOUS
    <2>. QED BY <2>1, <2>2, FS_Subset, FS_CardinalityType
  <1>2. D = 1 .. m
    <2>1. \A k \in D : \A j \in 1 .. k : j \in D
      BY SMT
    <2>2. ASSUME NEW k \in D PROVE k =< m
      <3>1. (1 .. k) \subseteq D
        BY <2>1
      <3>2. IsFiniteSet(1 .. k) /\ Cardinality(1 .. k) = k
        BY FS_Interval, SMT
      <3>. QED BY <1>1, <3>1, <3>2, FS_Subset
    <2>3. D \subseteq 1 .. m
      BY <2>2, <1>1
    <2>4. ASSUME NEW k \in 1 .. m, k \notin D PROVE FALSE
      <3>1. D \subseteq 1 .. (k - 1)
        BY <2>1, <2>3, <2>4, <1>1, SMT
      <3>2. IsFiniteSet(1 .. (k - 1)) /\ Cardinality(1 .. (k - 1)) = k - 1
        <4>1. 1 \in Int /\ k - 1 \in Int /\ k - 1 >= 0
          BY <1>1
        <4>. HIDE DEF m
        <4>. QED BY <4>1, FS_Interval
      <3>3. m =< k - 1
        BY <3>1, <3>2, FS_Subset
      <3>. QED BY <1>1, <3>3, SMT
    <2>. QED BY <2>3, <2>4
  <1>3. \A s \in S : m =< s
    <2>1. CASE m = 0
      BY <2>1, SMT
    <2>2. CASE m # 0
      <3>1. m \in 1 .. m
        BY <1>1, <2>2
      <3>2. m \in D
        BY <1>2, <3>1
      <3>. QED BY <3>2
    <2>. QED BY <2>1, <2>2
  <1>4. m \in S
    <2>1. SUFFICES ASSUME m \notin S PROVE FALSE
      OBVIOUS
    <2>2. \A s \in S : m + 1 =< s
      BY <1>1, <1>3, <2>1, SMT
    <2>3. PICK s \in S : TRUE
      OBVIOUS
    <2>4. m + 1 \in 1 .. n
      BY <1>1, <2>2, <2>3, SMT
    <2>5. m + 1 \in D
      BY <2>2, <2>4
    <2>. QED BY <1>1, <1>2, <2>5, SMT
  <1>. QED BY <1>3, <1>4

-----------------------------------------------------------------------------
(* The amounts. *)

\* circularBufferAvailableData of a registered slot is less than the length.
LEMMA AvailableRange ==
    ASSUME NEW Byte, NEW cb, Sound(cb, Byte), NEW i \in Registered(cb)
    PROVE  AvailableData(cb, i) \in Offsets
  <1>1. cb.readerOffset[i] \in Offsets /\ cb.data_head_offset \in Offsets
    BY DEF Sound, CircularBufferOf
  <1>. QED BY <1>1, DataLenAssumption, SMT DEF AvailableData, Offsets

\* What a reader leaves the writer and what it has not read add up to the
\* length less the guard offset.
LEMMA SpaceIsComplement ==
    ASSUME NEW Byte, NEW cb, Sound(cb, Byte), NEW i \in Registered(cb)
    PROVE  ReaderSpace(cb, i) = DataLen - 1 - AvailableData(cb, i)
  <1> DEFINE tail == cb.readerOffset[i]
             head == cb.data_head_offset
  <1>1. tail \in Offsets /\ head \in Offsets
    BY DEF Sound, CircularBufferOf
  <1>2. CASE tail >= head
    <2>1. tail - head + DataLen \in DataLen .. 2 * DataLen - 1
      BY <1>1, <1>2, DataLenAssumption, SMT DEF Offsets
    <2>2. (tail - head + DataLen) % DataLen = tail - head
      BY <1>1, <2>1, ModWrap, DataLenAssumption, SMT DEF Offsets
    <2>. QED BY <1>1, <1>2, <2>2, DataLenAssumption, SMT
             DEF ReaderSpace, AvailableData, Offsets
  <1>3. CASE tail < head
    <2>1. tail - head + DataLen \in 0 .. DataLen - 1
      BY <1>1, <1>3, DataLenAssumption, SMT DEF Offsets
    <2>2. (tail - head + DataLen) % DataLen = tail - head + DataLen
      BY <2>1, ModSmall, DataLenAssumption
    <2>. QED BY <1>1, <1>3, <2>2, DataLenAssumption, SMT
             DEF ReaderSpace, AvailableData, Offsets
  <1>. QED BY <1>1, <1>2, <1>3, DataLenAssumption, SMT DEF Offsets

\* circularBufferWriterSpace is a number, the least of what the readers leave.
LEMMA WriterSpaceLeast ==
    ASSUME NEW Byte, NEW cb, Sound(cb, Byte)
    PROVE  /\ WriterSpace(cb) \in 0 .. DataLen - 1
           /\ \A i \in Registered(cb) : WriterSpace(cb) =< ReaderSpace(cb, i)
  <1> DEFINE S == {DataLen - 1} \cup {ReaderSpace(cb, j) : j \in Registered(cb)}
  <1>1. S \subseteq 0 .. DataLen - 1
    <2>1. \A j \in Registered(cb) : ReaderSpace(cb, j) \in 0 .. DataLen - 1
      <3>. SUFFICES ASSUME NEW j \in Registered(cb)
                    PROVE  ReaderSpace(cb, j) \in 0 .. DataLen - 1
        OBVIOUS
      <3>. QED BY SpaceIsComplement, AvailableRange, DataLenAssumption, SMT
               DEF Offsets
    <2>. QED BY <2>1, DataLenAssumption
  <1>2. \E x \in S : \A y \in S : x =< y
    <2>1. DataLen - 1 \in Nat
      BY DataLenAssumption
    <2>. HIDE DEF S
    <2>. QED BY <1>1, <2>1, LeastElement DEF S
  <1>3. WriterSpace(cb) \in S /\ \A y \in S : WriterSpace(cb) =< y
    BY <1>2 DEF WriterSpace, Min
  <1>4. \A i \in Registered(cb) : ReaderSpace(cb, i) \in S
    OBVIOUS
  <1>. QED BY <1>1, <1>3, <1>4

\* circularBufferWriterSpace never promises more than the slowest reader
\* leaves.
LEMMA WriterSpaceFits ==
    ASSUME NEW Byte, NEW cb, Sound(cb, Byte), NEW i \in Registered(cb),
           NEW len \in Nat, WriterSpace(cb) >= len
    PROVE  AvailableData(cb, i) + len =< DataLen - 1
  <1>1. /\ WriterSpace(cb) \in Int
        /\ WriterSpace(cb) =< ReaderSpace(cb, i)
    BY WriterSpaceLeast
  <1>2. AvailableData(cb, i) \in Int
    BY AvailableRange DEF Offsets
  <1>. QED BY <1>1, <1>2, SpaceIsComplement, DataLenAssumption, SMT

\* circularBufferReadData returns a nonempty piece that the reader has not
\* confirmed and that does not reach past the end of the buffer.
LEMMA ReadDataPiece ==
    ASSUME NEW Byte, NEW cb, Sound(cb, Byte), NEW i \in Registered(cb),
           NEW len \in Nat \ {0}, len =< AvailableData(cb, i)
    PROVE  /\ ReadData(cb, i, len) \in 1 .. AvailableData(cb, i)
           /\ cb.readerOffset[i] + ReadData(cb, i, len) =< DataLen
  <1>1. cb.readerOffset[i] \in Offsets /\ cb.data_head_offset \in Offsets
    BY DEF Sound, CircularBufferOf
  <1>. QED BY <1>1, DataLenAssumption, SMT
           DEF ReadData, AvailableData, Offsets

-----------------------------------------------------------------------------
(* The updates. *)

\* A fresh buffer is sound.
LEMMA EmptyBufferSound ==
    ASSUME NEW Byte, ZeroByte \in Byte
    PROVE  Sound(EmptyBuffer, Byte)
  BY DataLenAssumption, ReaderMaxCapAssumption, SMT
  DEF Sound, EmptyBuffer, CircularBufferOf, Registered, Offsets, Slots

\* circularBufferMemWrite moves neither the head nor a tail.
LEMMA MemWriteAmounts ==
    ASSUME NEW Byte, NEW cb, Sound(cb, Byte), NEW len \in Offsets,
           NEW src \in [0 .. len - 1 -> Byte]
    PROVE  /\ Sound(MemWrite(cb, src, len), Byte)
           /\ MemWrite(cb, src, len).reader_cnt = cb.reader_cnt
           /\ MemWrite(cb, src, len).readerOffset = cb.readerOffset
           /\ \A i : AvailableData(MemWrite(cb, src, len), i)
                       = AvailableData(cb, i)
  <1> DEFINE data == [x \in Offsets |->
                        IF x \notin WriteOffsets(cb, len) THEN cb.data_ptr[x]
                        ELSE IF x >= cb.data_head_offset
                             THEN src[x - cb.data_head_offset]
                             ELSE src[x - cb.data_head_offset + DataLen]]
  <1>1. cb.data_head_offset \in Offsets /\ cb.data_ptr \in [Offsets -> Byte]
    BY DEF Sound, CircularBufferOf
  <1>2. data \in [Offsets -> Byte]
    <2>. SUFFICES ASSUME NEW x \in Offsets
                  PROVE  data[x] \in Byte
      OBVIOUS
    <2>1. CASE x \notin WriteOffsets(cb, len)
      BY <1>1, <2>1
    <2>2. CASE x \in WriteOffsets(cb, len) /\ x >= cb.data_head_offset
      <3>1. x - cb.data_head_offset \in 0 .. len - 1
        BY <1>1, <2>2, DataLenAssumption, SMT DEF WriteOffsets, Offsets
      <3>. QED BY <2>2, <3>1
    <2>3. CASE x \in WriteOffsets(cb, len) /\ ~(x >= cb.data_head_offset)
      <3>1. x - cb.data_head_offset + DataLen \in 0 .. len - 1
        BY <1>1, <2>3, DataLenAssumption, SMT DEF WriteOffsets, Offsets
      <3>. QED BY <2>3, <3>1
    <2>. QED BY <2>1, <2>2, <2>3
  <1>3. MemWrite(cb, src, len) = [cb EXCEPT !.data_ptr = data]
    BY DEF MemWrite
  <1>. HIDE DEF data
  <1>. QED BY <1>2, <1>3 DEF Sound, CircularBufferOf, Registered, AvailableData

\* circularBufferConfirmWrite adds what it commits to every queue that has
\* room for it.
LEMMA ConfirmWriteAmounts ==
    ASSUME NEW Byte, NEW cb, Sound(cb, Byte), NEW len \in Offsets
    PROVE  /\ Sound(ConfirmWrite(cb, len), Byte)
           /\ ConfirmWrite(cb, len).reader_cnt = cb.reader_cnt
           /\ ConfirmWrite(cb, len).readerOffset = cb.readerOffset
           /\ \A i \in Registered(cb) :
                  AvailableData(cb, i) + len =< DataLen - 1 =>
                      AvailableData(ConfirmWrite(cb, len), i)
                          = AvailableData(cb, i) + len
  <1> DEFINE head == cb.data_head_offset
             b == ConfirmWrite(cb, len)
  <1>1. head \in Offsets
    BY DEF Sound, CircularBufferOf
  <1>2. /\ (head + len) % DataLen \in Offsets
        /\ head + len < DataLen => (head + len) % DataLen = head + len
        /\ head + len >= DataLen => (head + len) % DataLen = head + len - DataLen
    BY <1>1, WrapSum
  <1>3. (head + len) % DataLen \in Offsets
    BY <1>2
  <1>4. /\ b.data_head_offset = (head + len) % DataLen
        /\ b.reader_cnt = cb.reader_cnt
        /\ b.readerOffset = cb.readerOffset
    BY DEF ConfirmWrite, Sound, CircularBufferOf
  <1>5. Sound(b, Byte)
    BY <1>3 DEF Sound, CircularBufferOf, Registered, ConfirmWrite
  <1>6. ASSUME NEW i \in Registered(cb),
               AvailableData(cb, i) + len =< DataLen - 1
        PROVE  AvailableData(b, i) = AvailableData(cb, i) + len
    <2>1. cb.readerOffset[i] \in Offsets
      BY DEF Sound
    <2>2. b.readerOffset[i] = cb.readerOffset[i]
      BY <1>4
    <2>. HIDE DEF b
    <2>3. CASE head + len < DataLen
      <3>1. b.data_head_offset = head + len
        BY <1>2, <1>4, <2>3
      <3>. QED BY <1>1, <1>6, <2>1, <2>2, <2>3, <3>1, DataLenAssumption, SMT
               DEF AvailableData, Offsets
    <2>4. CASE head + len >= DataLen
      <3>1. b.data_head_offset = head + len - DataLen
        BY <1>2, <1>4, <2>4
      <3>. QED BY <1>1, <1>6, <2>1, <2>2, <2>4, <3>1, DataLenAssumption, SMT
               DEF AvailableData, Offsets
    <2>. QED BY <1>1, <2>3, <2>4, DataLenAssumption, SMT DEF Offsets
  <1>. QED BY <1>4, <1>5, <1>6

\* circularBufferConfirmRead takes what it confirms off the reader's own
\* queue and leaves the others alone.
LEMMA ConfirmReadAmounts ==
    ASSUME NEW Byte, NEW cb, Sound(cb, Byte), NEW i \in Registered(cb),
           NEW len \in 1 .. AvailableData(cb, i)
    PROVE  /\ Sound(ConfirmRead(cb, i, len), Byte)
           /\ ConfirmRead(cb, i, len).reader_cnt = cb.reader_cnt
           /\ AvailableData(ConfirmRead(cb, i, len), i)
                  = AvailableData(cb, i) - len
           /\ \A j \in Registered(cb) \ {i} :
                  /\ ConfirmRead(cb, i, len).readerOffset[j]
                         = cb.readerOffset[j]
                  /\ AvailableData(ConfirmRead(cb, i, len), j)
                         = AvailableData(cb, j)
  <1> DEFINE tail == cb.readerOffset[i]
             b == ConfirmRead(cb, i, len)
  <1>1. /\ tail \in Offsets /\ cb.data_head_offset \in Offsets
        /\ i \in Slots /\ cb.readerOffset \in [Slots -> 0 .. DataLen]
        /\ Registered(cb) \subseteq Slots
    BY ReaderMaxCapAssumption, SMT
    DEF Sound, CircularBufferOf, Registered, Slots
  <1>2. AvailableData(cb, i) \in Offsets
    BY AvailableRange
  <1>3. len \in Offsets
    BY <1>2, DataLenAssumption, SMT DEF Offsets
  <1>4. /\ (tail + len) % DataLen \in Offsets
        /\ tail + len < DataLen => (tail + len) % DataLen = tail + len
        /\ tail + len >= DataLen => (tail + len) % DataLen = tail + len - DataLen
    BY <1>1, <1>3, WrapSum
  <1>5. /\ b.data_head_offset = cb.data_head_offset
        /\ b.reader_cnt = cb.reader_cnt
        /\ b.readerOffset[i] = (tail + len) % DataLen
        /\ \A j \in Registered(cb) \ {i} : b.readerOffset[j] = cb.readerOffset[j]
    BY <1>1 DEF ConfirmRead, Sound, CircularBufferOf
  <1>6. Sound(b, Byte)
    <2>1. b \in CircularBufferOf(Byte)
      <3>1. Offsets \subseteq 0 .. DataLen
        BY DataLenAssumption, SMT DEF Offsets
      <3>. QED BY <1>1, <1>4, <3>1 DEF Sound, CircularBufferOf, ConfirmRead
    <2>2. \A j \in Registered(b) : b.readerOffset[j] \in Offsets
      BY <1>4, <1>5 DEF Sound, Registered
    <2>. QED BY <2>1, <2>2 DEF Sound
  <1>7. AvailableData(b, i) = AvailableData(cb, i) - len
    <2>. HIDE DEF b
    <2>. QED BY <1>1, <1>2, <1>4, <1>5, DataLenAssumption, SMT
             DEF AvailableData, Offsets
  <1>8. \A j \in Registered(cb) \ {i} : AvailableData(b, j) = AvailableData(cb, j)
    BY <1>5 DEF AvailableData
  <1>. QED BY <1>5, <1>6, <1>7, <1>8

\* A reader registers with an empty queue; the others keep theirs.
LEMMA RegisterAmounts ==
    ASSUME NEW Byte, NEW cb, Sound(cb, Byte), cb.reader_cnt < ReaderMaxCap
    PROVE  /\ Sound(Register(cb), Byte)
           /\ Register(cb).reader_cnt = cb.reader_cnt + 1
           /\ Registered(Register(cb)) = Registered(cb) \cup {cb.reader_cnt}
           /\ cb.reader_cnt \notin Registered(cb)
           /\ AvailableData(Register(cb), cb.reader_cnt) = 0
           /\ \A i \in Registered(cb) :
                  /\ Register(cb).readerOffset[i] = cb.readerOffset[i]
                  /\ AvailableData(Register(cb), i) = AvailableData(cb, i)
  <1> DEFINE n == cb.reader_cnt
             b == Register(cb)
  <1>1. /\ n \in Slots /\ n \in Nat
        /\ cb.data_head_offset \in Offsets /\ Offsets \subseteq 0 .. DataLen
        /\ cb.readerOffset \in [Slots -> 0 .. DataLen]
        /\ n + 1 \in 0 .. ReaderMaxCap
    BY ReaderMaxCapAssumption, DataLenAssumption, SMT
    DEF Sound, CircularBufferOf, Slots, Offsets
  <1>2. n \notin Registered(cb) /\ Registered(cb) \subseteq Slots
    BY <1>1, ReaderMaxCapAssumption, SMT DEF Registered, Slots
  <1>3. /\ b.data_head_offset = cb.data_head_offset
        /\ b.reader_cnt = n + 1
        /\ b.readerOffset[n] = cb.data_head_offset
        /\ \A i \in Registered(cb) : b.readerOffset[i] = cb.readerOffset[i]
    BY <1>1, <1>2 DEF Register, Sound, CircularBufferOf
  <1>4. Registered(b) = Registered(cb) \cup {n}
    BY <1>1, <1>3, SMT DEF Registered
  <1>5. Sound(b, Byte)
    <2>1. b \in CircularBufferOf(Byte)
      BY <1>1 DEF Sound, CircularBufferOf, Register
    <2>. QED BY <1>1, <1>3, <1>4, <2>1 DEF Sound
  <1>6. AvailableData(b, n) = 0
    BY <1>1, <1>3, SMT DEF AvailableData, Offsets
  <1>7. \A i \in Registered(cb) : AvailableData(b, i) = AvailableData(cb, i)
    BY <1>3 DEF AvailableData
  <1>. QED BY <1>2, <1>3, <1>4, <1>5, <1>6, <1>7

\* Aligning the tail of a reader whose queue is empty changes nothing.
LEMMA AlignTailIdle ==
    ASSUME NEW Byte, NEW cb, Sound(cb, Byte), NEW i \in Registered(cb),
           ~(AvailableData(cb, i) > 0)
    PROVE  AlignTail(cb, i) = cb
  <1>1. /\ cb.readerOffset[i] \in Offsets /\ cb.data_head_offset \in Offsets
        /\ cb.readerOffset \in [Slots -> 0 .. DataLen]
    BY DEF Sound, CircularBufferOf
  <1>2. cb.readerOffset[i] = cb.data_head_offset
    BY <1>1, DataLenAssumption, SMT DEF AvailableData, Offsets
  <1>3. [cb.readerOffset EXCEPT ![i] = cb.data_head_offset] = cb.readerOffset
    BY <1>1, <1>2
  <1>. QED BY <1>3 DEF AlignTail, Sound, CircularBufferOf

-----------------------------------------------------------------------------
(* The two copies. *)

\* A write that fits beside the unread bytes of a reader and a piece of those
\* unread bytes have no offset in common.
LEMMA CopiesAreDisjoint ==
    ASSUME NEW Byte, NEW cb, Sound(cb, Byte), NEW i \in Registered(cb),
           NEW w \in Nat, AvailableData(cb, i) + w =< DataLen - 1,
           NEW r \in 1 .. AvailableData(cb, i)
    PROVE  WriteOffsets(cb, w) \cap ReadOffsets(cb, i, r) = {}
  <1>1. cb.readerOffset[i] \in Offsets /\ cb.data_head_offset \in Offsets
    BY DEF Sound, CircularBufferOf
  <1>2. AvailableData(cb, i) \in Offsets
    BY AvailableRange
  <1>. QED BY <1>1, <1>2, DataLenAssumption, SMT
           DEF AvailableData, WriteOffsets, ReadOffsets, Offsets

-----------------------------------------------------------------------------
(* The unread bytes themselves, and not only their number.                  *)

\* What reader i of buffer b has not confirmed, oldest byte first.
UnreadOf(b, i) ==
    [k \in 1 .. AvailableData(b, i) |-> b.data_ptr[UnreadOffset(b, i, k - 1)]]

\* The offset of an unread byte, with the wrap written out.
LEMMA UnreadOffsetValue ==
    ASSUME NEW Byte, NEW b, Sound(b, Byte), NEW i \in Registered(b),
           NEW k \in Offsets
    PROVE  /\ UnreadOffset(b, i, k) \in Offsets
           /\ b.readerOffset[i] + k < DataLen =>
                  UnreadOffset(b, i, k) = b.readerOffset[i] + k
           /\ b.readerOffset[i] + k >= DataLen =>
                  UnreadOffset(b, i, k) = b.readerOffset[i] + k - DataLen
  <1>1. b.readerOffset[i] \in Offsets
    BY DEF Sound
  <1>. QED BY <1>1, WrapSum DEF UnreadOffset

\* The unread bytes are a sequence, as long as AvailableData says.
LEMMA UnreadIsSeq ==
    ASSUME NEW Byte, NEW b, Sound(b, Byte), NEW i \in Registered(b)
    PROVE  /\ UnreadOf(b, i) \in Seq(Byte)
           /\ Len(UnreadOf(b, i)) = AvailableData(b, i)
           /\ \A k \in 1 .. AvailableData(b, i) :
                  /\ k - 1 \in Offsets
                  /\ UnreadOf(b, i)[k] = b.data_ptr[UnreadOffset(b, i, k - 1)]
  <1> DEFINE n == AvailableData(b, i)
             u == UnreadOf(b, i)
  <1>1. n \in Offsets
    BY AvailableRange
  <1>2. n \in Nat
    BY <1>1, SMT DEF Offsets
  <1>3. \A k \in 1 .. n : k - 1 \in Offsets
    BY <1>1, DataLenAssumption, SMT DEF Offsets
  <1>4. \A k \in 1 .. n : b.data_ptr[UnreadOffset(b, i, k - 1)] \in Byte
    BY <1>3, UnreadOffsetValue DEF Sound, CircularBufferOf
  <1>5. u \in [1 .. n -> Byte]
    BY <1>4 DEF UnreadOf
  <1>6. u \in Seq(Byte) /\ Len(u) = n
    BY <1>2, <1>5, SMT
  <1>. QED BY <1>3, <1>6 DEF UnreadOf

\* Bytes that fit beside the unread ones land outside them.
LEMMA UnreadNotWritten ==
    ASSUME NEW Byte, NEW b, Sound(b, Byte), NEW i \in Registered(b),
           NEW len \in Nat, AvailableData(b, i) + len =< DataLen - 1,
           NEW k \in 0 .. AvailableData(b, i) - 1
    PROVE  UnreadOffset(b, i, k) \notin WriteOffsets(b, len)
  <1>1. b.readerOffset[i] \in Offsets /\ b.data_head_offset \in Offsets
    BY DEF Sound, CircularBufferOf
  <1>2. k \in Offsets
    BY AvailableRange, DataLenAssumption, SMT DEF Offsets
  <1>3. /\ b.readerOffset[i] + k < DataLen =>
               UnreadOffset(b, i, k) = b.readerOffset[i] + k
        /\ b.readerOffset[i] + k >= DataLen =>
               UnreadOffset(b, i, k) = b.readerOffset[i] + k - DataLen
    BY <1>2, UnreadOffsetValue
  <1> DEFINE x == UnreadOffset(b, i, k)
             tail == b.readerOffset[i]
             head == b.data_head_offset
  <1>4. ~(head <= x /\ x < head + len) /\ ~(x < head + len - DataLen)
    <2>1. tail \in Offsets /\ head \in Offsets /\ k \in Offsets
      BY <1>1, <1>2
    <2>2. \/ tail < head /\ head - tail + len =< DataLen - 1 /\ k < head - tail
          \/ /\ tail > head
             /\ DataLen - tail + head + len =< DataLen - 1
             /\ k < DataLen - tail + head
      BY <2>1, DataLenAssumption, SMT DEF AvailableData, Offsets
    <2>3. \/ tail + k < DataLen /\ x = tail + k
          \/ tail + k >= DataLen /\ x = tail + k - DataLen
      BY <1>3, <2>1, DataLenAssumption, SMT DEF Offsets
    <2>. HIDE DEF x, tail, head
    <2>. QED BY <2>1, <2>2, <2>3, DataLenAssumption, SMT DEF Offsets
  <1>. QED BY <1>4 DEF WriteOffsets

\* circularBufferMemWrite of a block that fits changes no queue.
LEMMA MemWriteUnread ==
    ASSUME NEW Byte, NEW b, Sound(b, Byte), NEW len \in Offsets,
           NEW src \in [0 .. len - 1 -> Byte], NEW i \in Registered(b),
           AvailableData(b, i) + len =< DataLen - 1
    PROVE  UnreadOf(MemWrite(b, src, len), i) = UnreadOf(b, i)
  <1> DEFINE w == MemWrite(b, src, len)
  <1>1. /\ w.readerOffset = b.readerOffset
        /\ AvailableData(w, i) = AvailableData(b, i)
    BY MemWriteAmounts
  <1>2. \A x \in Offsets \ WriteOffsets(b, len) : w.data_ptr[x] = b.data_ptr[x]
    BY DEF MemWrite, Sound, CircularBufferOf
  <1>3. ASSUME NEW k \in 1 .. AvailableData(b, i)
        PROVE  /\ UnreadOffset(w, i, k - 1) = UnreadOffset(b, i, k - 1)
               /\ UnreadOffset(b, i, k - 1) \in Offsets \ WriteOffsets(b, len)
    <2>1. k - 1 \in 0 .. AvailableData(b, i) - 1 /\ k - 1 \in Offsets
      BY AvailableRange, DataLenAssumption, SMT DEF Offsets
    <2>2. len \in Nat
      BY SMT DEF Offsets
    <2>3. UnreadOffset(b, i, k - 1) \in Offsets
      BY <2>1, UnreadOffsetValue
    <2>4. UnreadOffset(b, i, k - 1) \notin WriteOffsets(b, len)
      BY <2>1, <2>2, UnreadNotWritten
    <2>. QED BY <1>1, <2>3, <2>4 DEF UnreadOffset
  <1>. HIDE DEF w
  <1>4. UnreadOf(w, i) = UnreadOf(b, i)
    BY <1>1, <1>2, <1>3 DEF UnreadOf
  <1>. QED BY <1>4 DEF w

\* It puts the k-th byte of the block k offsets after the head.
LEMMA MemWriteBlock ==
    ASSUME NEW Byte, NEW b, Sound(b, Byte), NEW len \in Offsets,
           NEW src, NEW k \in 0 .. len - 1
    PROVE  MemWrite(b, src, len).data_ptr[(b.data_head_offset + k) % DataLen]
               = src[k]
  <1> DEFINE head == b.data_head_offset
             x == (head + k) % DataLen
  <1>1. head \in Offsets /\ k \in Offsets
    BY DataLenAssumption, SMT DEF Sound, CircularBufferOf, Offsets
  <1>2. /\ x \in Offsets
        /\ head + k < DataLen => x = head + k
        /\ head + k >= DataLen => x = head + k - DataLen
    BY <1>1, WrapSum
  <1>. HIDE DEF x
  <1>3. x \in WriteOffsets(b, len)
    BY <1>1, <1>2, DataLenAssumption, SMT DEF WriteOffsets, Offsets
  <1>4. IF x >= head THEN x - head = k ELSE x - head + DataLen = k
    BY <1>1, <1>2, DataLenAssumption, SMT DEF Offsets
  <1>5. MemWrite(b, src, len).data_ptr[x]
          = IF x >= head THEN src[x - head] ELSE src[x - head + DataLen]
    BY <1>2, <1>3 DEF MemWrite, Sound, CircularBufferOf
  <1>. QED BY <1>4, <1>5 DEF x

\* Behind the last unread byte comes the head, perhaps a turn later.
LEMMA HeadAfterUnread ==
    ASSUME NEW Byte, NEW b, Sound(b, Byte), NEW i \in Registered(b)
    PROVE  \/ b.readerOffset[i] + AvailableData(b, i) = b.data_head_offset
           \/ b.readerOffset[i] + AvailableData(b, i)
                  = b.data_head_offset + DataLen
  <1>1. b.readerOffset[i] \in Offsets /\ b.data_head_offset \in Offsets
    BY DEF Sound, CircularBufferOf
  <1>. QED BY <1>1, DataLenAssumption, SMT DEF AvailableData, Offsets

\* Two ways around the circle to the same offset.
LEMMA SameOffset ==
    ASSUME NEW x \in Offsets, NEW y \in Offsets,
           NEW j \in Offsets, NEW k \in Offsets,
           x + j = y + k \/ x + j = y + k + DataLen
    PROVE  (x + j) % DataLen = (y + k) % DataLen
  <1> DEFINE v == (x + j) % DataLen
             w == (y + k) % DataLen
  <1>1. /\ x + j < DataLen => v = x + j
        /\ x + j >= DataLen => v = x + j - DataLen
    BY WrapSum
  <1>2. /\ y + k < DataLen => w = y + k
        /\ y + k >= DataLen => w = y + k - DataLen
    BY WrapSum
  <1>. HIDE DEF v, w
  <1>3. v = w
    BY <1>1, <1>2, DataLenAssumption, SMT DEF Offsets
  <1>. QED BY <1>3 DEF v, w

\* The k-th byte of n unread ones and a block behind them is the (k - n)-th of
\* the block.
LEMMA PastTheUnread ==
    ASSUME NEW n \in Nat, NEW len \in Nat, n + len =< DataLen - 1,
           NEW tail \in Offsets, NEW head \in Offsets,
           tail + n = head \/ tail + n = head + DataLen,
           NEW k \in n + 1 .. n + len
    PROVE  /\ k - n \in 1 .. len
           /\ (tail + (k - 1)) % DataLen = (head + (k - n - 1)) % DataLen
  <1>1. k \in Int /\ k - n \in 1 .. len
    BY SMT
  <1>2. k - 1 \in Offsets /\ k - n - 1 \in Offsets
    BY DataLenAssumption, SMT DEF Offsets
  <1>3. \/ tail + (k - 1) = head + (k - n - 1)
        \/ tail + (k - 1) = head + (k - n - 1) + DataLen
    BY <1>1, DataLenAssumption, SMT DEF Offsets
  <1>. QED BY <1>1, <1>2, <1>3, SameOffset

\* circularBufferConfirmWrite of a block that has been copied in appends it
\* to every queue.
LEMMA ConfirmWriteUnread ==
    ASSUME NEW Byte, NEW b, Sound(b, Byte), NEW block \in Seq(Byte),
           Len(block) \in Offsets,
           \A k \in 1 .. Len(block) :
               b.data_ptr[(b.data_head_offset + (k - 1)) % DataLen] = block[k],
           NEW i \in Registered(b),
           AvailableData(b, i) + Len(block) =< DataLen - 1
    PROVE  UnreadOf(ConfirmWrite(b, Len(block)), i) = UnreadOf(b, i) \o block
  <1> DEFINE len == Len(block)
             w == ConfirmWrite(b, len)
             n == AvailableData(b, i)
             tail == b.readerOffset[i]
             head == b.data_head_offset
  <1>1. /\ Sound(w, Byte)
        /\ i \in Registered(w)
        /\ w.readerOffset = b.readerOffset
        /\ w.data_ptr = b.data_ptr
        /\ AvailableData(w, i) = n + len
    BY ConfirmWriteAmounts DEF Registered, ConfirmWrite
  <1>2. /\ n \in Offsets /\ n \in Nat /\ len \in Nat
        /\ tail \in Offsets /\ head \in Offsets
    <2>1. n \in Offsets
      BY AvailableRange
    <2>. QED BY <2>1, SMT DEF Sound, CircularBufferOf, Offsets
  <1>. HIDE DEF w
  <1>3. /\ UnreadOf(w, i) \in Seq(Byte) /\ Len(UnreadOf(w, i)) = n + len
        /\ \A k \in 1 .. n + len :
               UnreadOf(w, i)[k] = b.data_ptr[(tail + (k - 1)) % DataLen]
    BY <1>1, UnreadIsSeq DEF UnreadOffset
  <1>4. /\ UnreadOf(b, i) \in Seq(Byte) /\ Len(UnreadOf(b, i)) = n
        /\ \A k \in 1 .. n :
               UnreadOf(b, i)[k] = b.data_ptr[(tail + (k - 1)) % DataLen]
    BY UnreadIsSeq DEF UnreadOffset
  <1>5. ASSUME NEW k \in n + 1 .. n + len
        PROVE  /\ k - n \in 1 .. len
               /\ (tail + (k - 1)) % DataLen
                      = (head + (k - n - 1)) % DataLen
    <2>1. tail + n = head \/ tail + n = head + DataLen
      BY HeadAfterUnread
    <2>2. n + len =< DataLen - 1
      OBVIOUS
    <2>. HIDE DEF n, tail, head, len
    <2>. QED BY <1>2, <2>1, <2>2, PastTheUnread, ZenonT(60)
  <1>6. /\ UnreadOf(b, i) \o block \in Seq(Byte)
        /\ Len(UnreadOf(b, i) \o block) = n + len
        /\ \A k \in 1 .. n + len : (UnreadOf(b, i) \o block)[k]
               = IF k <= n THEN UnreadOf(b, i)[k] ELSE block[k - n]
    BY <1>4, ConcatProperties
  <1>7. ASSUME NEW k \in 1 .. n + len
        PROVE  UnreadOf(w, i)[k] = (UnreadOf(b, i) \o block)[k]
    <2>1. CASE k <= n
      <3>1. k \in 1 .. n
        BY <1>2, <2>1
      <3>. QED BY <1>3, <1>4, <1>6, <2>1, <3>1
    <2>2. CASE ~(k <= n)
      <3>1. k \in n + 1 .. n + len
        BY <1>2, <2>2
      <3>2. k - n \in 1 .. len
        BY <1>5, <3>1
      <3>3. UnreadOf(w, i)[k] = b.data_ptr[(head + (k - n - 1)) % DataLen]
        BY <1>3, <1>5, <3>1
      <3>. QED BY <1>6, <2>2, <3>2, <3>3
    <2>. QED BY <2>1, <2>2
  <1>8. UnreadOf(w, i) = UnreadOf(b, i) \o block
    BY <1>3, <1>6, <1>7, SeqEqual
  <1>. QED BY <1>8 DEF w

\* circularBufferConfirmRead takes from the front of the reader's own queue.
LEMMA ConfirmReadUnread ==
    ASSUME NEW Byte, NEW b, Sound(b, Byte), NEW i \in Registered(b),
           NEW len \in 1 .. AvailableData(b, i)
    PROVE  /\ UnreadOf(ConfirmRead(b, i, len), i)
                  = SubSeq(UnreadOf(b, i), len + 1, Len(UnreadOf(b, i)))
           /\ \A j \in Registered(b) \ {i} :
                  UnreadOf(ConfirmRead(b, i, len), j) = UnreadOf(b, j)
  <1> DEFINE r == ConfirmRead(b, i, len)
             n == AvailableData(b, i)
             tail == b.readerOffset[i]
             front == SubSeq(UnreadOf(b, i), len + 1, n)
  <1>1. /\ Sound(r, Byte)
        /\ i \in Registered(r)
        /\ AvailableData(r, i) = n - len
        /\ \A j \in Registered(b) \ {i} :
               /\ r.readerOffset[j] = b.readerOffset[j]
               /\ AvailableData(r, j) = AvailableData(b, j)
    BY ConfirmReadAmounts DEF Registered
  <1>2. i \in Slots
    BY ReaderMaxCapAssumption, SMT
    DEF Sound, CircularBufferOf, Registered, Slots
  <1>3. /\ r.data_ptr = b.data_ptr
        /\ r.readerOffset[i] = (tail + len) % DataLen
    BY <1>2 DEF ConfirmRead, Sound, CircularBufferOf
  <1>4. /\ n \in Offsets /\ n \in Nat /\ len \in Offsets /\ len \in Nat
        /\ tail \in Offsets
    <2>1. n \in Offsets
      BY AvailableRange
    <2>. QED BY <2>1, DataLenAssumption, SMT DEF Sound, Offsets
  <1>. HIDE DEF r
  <1>5. /\ UnreadOf(r, i) \in Seq(Byte) /\ Len(UnreadOf(r, i)) = n - len
        /\ \A k \in 1 .. n - len : UnreadOf(r, i)[k]
               = b.data_ptr[(((tail + len) % DataLen) + (k - 1)) % DataLen]
    BY <1>1, <1>3, UnreadIsSeq DEF UnreadOffset
  <1>6. /\ UnreadOf(b, i) \in Seq(Byte) /\ Len(UnreadOf(b, i)) = n
        /\ \A k \in 1 .. n :
               UnreadOf(b, i)[k] = b.data_ptr[(tail + (k - 1)) % DataLen]
    BY UnreadIsSeq DEF UnreadOffset
  <1>7. ASSUME NEW k \in 1 .. n - len
        PROVE  (((tail + len) % DataLen) + (k - 1)) % DataLen
                   = (tail + (len + k - 1)) % DataLen
    <2> DEFINE t == (tail + len) % DataLen
               x == (t + (k - 1)) % DataLen
               y == (tail + (len + k - 1)) % DataLen
    <2>1. k - 1 \in Offsets /\ len + k - 1 \in Offsets
      BY <1>4, DataLenAssumption, SMT DEF Offsets
    <2>2. /\ t \in Offsets
          /\ tail + len < DataLen => t = tail + len
          /\ tail + len >= DataLen => t = tail + len - DataLen
      BY <1>4, WrapSum
    <2>. HIDE DEF t
    <2>3. /\ t + (k - 1) < DataLen => x = t + (k - 1)
          /\ t + (k - 1) >= DataLen => x = t + (k - 1) - DataLen
      BY <2>1, <2>2, WrapSum
    <2>4. /\ tail + (len + k - 1) < DataLen => y = tail + (len + k - 1)
          /\ tail + (len + k - 1) >= DataLen => y = tail + (len + k - 1) - DataLen
      BY <1>4, <2>1, WrapSum
    <2>5. x = y
      <3>. HIDE DEF x, y, n, tail
      <3>. QED BY <1>4, <2>1, <2>2, <2>3, <2>4, DataLenAssumption, SMT
               DEF Offsets
    <2>. QED BY <2>5 DEF t
  <1>8. /\ front \in Seq(Byte) /\ Len(front) = n - len
        /\ \A k \in 1 .. n - len : front[k] = UnreadOf(b, i)[len + k]
    <2>1. \A k \in len + 1 .. n : UnreadOf(b, i)[k] \in Byte
      BY <1>4, <1>6, ElementOfSeq
    <2>2. /\ len + 1 \in Int /\ n \in Int
          /\ n - (len + 1) + 1 = n - len
          /\ (IF len + 1 <= n THEN n - (len + 1) + 1 ELSE 0) = n - len
          /\ \A k \in 1 .. n - len : (len + 1) + k - 1 = len + k
      BY <1>4, SMT
    <2>. HIDE DEF n
    <2>. QED BY <2>1, <2>2, SubSeqProperties
  <1>9. ASSUME NEW k \in 1 .. n - len
        PROVE  UnreadOf(r, i)[k] = front[k]
    <2>1. len + k \in 1 .. n /\ (len + k) - 1 = len + k - 1
      BY <1>4, SMT
    <2>2. UnreadOf(b, i)[len + k] = b.data_ptr[(tail + (len + k - 1)) % DataLen]
      BY <1>6, <2>1
    <2>3. UnreadOf(r, i)[k] = b.data_ptr[(tail + (len + k - 1)) % DataLen]
      BY <1>5, <1>7
    <2>4. front[k] = UnreadOf(b, i)[len + k]
      BY <1>8
    <2>. QED BY <2>2, <2>3, <2>4
  <1>10. UnreadOf(r, i) = front
    <2>. HIDE DEF front, n
    <2>. QED BY <1>5, <1>8, <1>9, SeqEqual
  <1>11. \A j \in Registered(b) \ {i} : UnreadOf(r, j) = UnreadOf(b, j)
    BY <1>1, <1>3 DEF UnreadOf, UnreadOffset
  <1>. QED BY <1>6, <1>10, <1>11 DEF r

\* A reader registers with an empty queue; the others keep theirs.
LEMMA RegisterUnread ==
    ASSUME NEW Byte, NEW b, Sound(b, Byte), b.reader_cnt < ReaderMaxCap
    PROVE  /\ UnreadOf(Register(b), b.reader_cnt) = <<>>
           /\ \A i \in Registered(b) :
                  UnreadOf(Register(b), i) = UnreadOf(b, i)
  <1> DEFINE r == Register(b)
  <1>1. /\ Sound(r, Byte)
        /\ b.reader_cnt \in Registered(r)
        /\ AvailableData(r, b.reader_cnt) = 0
        /\ \A i \in Registered(b) :
               /\ r.readerOffset[i] = b.readerOffset[i]
               /\ AvailableData(r, i) = AvailableData(b, i)
    BY RegisterAmounts
  <1>2. r.data_ptr = b.data_ptr
    BY DEF Register, Sound, CircularBufferOf
  <1>. HIDE DEF r
  <1>3. UnreadOf(r, b.reader_cnt) = <<>>
    BY <1>1, UnreadIsSeq, EmptySeq
  <1>4. \A i \in Registered(b) : UnreadOf(r, i) = UnreadOf(b, i)
    BY <1>1, <1>2 DEF UnreadOf, UnreadOffset
  <1>. QED BY <1>3, <1>4 DEF r

=============================================================================
