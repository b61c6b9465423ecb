--------------------------- MODULE CircularBuffer ---------------------------
(***************************************************************************)
(* data_transfer/CircularBuffer.c: the ring buffer through which one       *)
(* producer thread feeds every consumer thread of a session.  A buffer is  *)
(* a record; the functions of the C file are operators from a buffer to a  *)
(* value or to a new buffer.  The module has no state of its own, so that  *)
(* several buffers (the client's pipeline) can share it.                   *)
(*                                                                         *)
(* A buffer `cb' has                                                       *)
(*   data_ptr          the bytes, one per offset                           *)
(*   data_head_offset  where the producer writes next                      *)
(*   readerOffset      per reader slot, where that reader reads next;      *)
(*                     DataLen marks a slot nobody registered              *)
(*   reader_cnt        how many slots are registered                       *)
(*   recordingActive   the flag the scheduler flips                        *)
(***************************************************************************)
EXTENDS Integers, FiniteSetsExt

CONSTANTS DataLen,       \* data_len, the length of the buffer
          ReaderMaxCap,  \* READER_MAX_CAP, the length of readerOffset
          ZeroByte       \* what memset() leaves in a fresh buffer

ASSUME DataLenAssumption == DataLen \in Nat \ {0}
ASSUME ReaderMaxCapAssumption == ReaderMaxCap \in Nat

Offsets == 0 .. DataLen - 1
Slots == 0 .. ReaderMaxCap - 1

\* The buffers the C structure can hold, over a set of byte values.
CircularBufferOf(Byte) ==
    [data_ptr : [Offsets -> Byte],
     data_head_offset : Offsets,
     readerOffset : [Slots -> 0 .. DataLen],
     reader_cnt : 0 .. ReaderMaxCap,
     recordingActive : BOOLEAN]

\* circularBufferInit
EmptyBuffer ==
    [data_ptr |-> [x \in Offsets |-> ZeroByte],
     data_head_offset |-> 0,
     readerOffset |-> [i \in Slots |-> DataLen],
     reader_cnt |-> 0,
     recordingActive |-> FALSE]

\* The slots that have been handed out.
Registered(cb) == 0 .. cb.reader_cnt - 1

-----------------------------------------------------------------------------
(* The writer's side. *)

\* The offsets a write of len bytes touches: one memcpy up to the end of the
\* buffer and, when it wraps, a second one from its start.
WriteOffsets(cb, len) ==
    {x \in Offsets : \/ /\ cb.data_head_offset <= x
                        /\ x < cb.data_head_offset + len
                     \/ x < cb.data_head_offset + len - DataLen}

\* Mutant: the second memcpy is missing.
MemWriteOneCopy(cb, src, len) ==
    [cb EXCEPT !.data_ptr =
        [x \in Offsets |->
            IF x \in WriteOffsets(cb, len) /\ x >= cb.data_head_offset
            THEN src[x - cb.data_head_offset]
            ELSE cb.data_ptr[x]]]

\* circularBufferMemWrite: src[k] lands k offsets after the head, around the
\* end of the buffer.  The head does not move.
MemWrite(cb, src, len) ==
    [cb EXCEPT !.data_ptr =
        [x \in Offsets |->
            IF x \notin WriteOffsets(cb, len) THEN cb.data_ptr[x]
            ELSE IF x >= cb.data_head_offset
                 THEN src[x - cb.data_head_offset]
                 ELSE src[x - cb.data_head_offset + DataLen]]]

\* Mutant: the head does not wrap.
ConfirmWriteNoWrap(cb, writeLen) ==
    [cb EXCEPT !.data_head_offset = cb.data_head_offset + writeLen]

\* circularBufferConfirmWrite
ConfirmWrite(cb, writeLen) ==
    [cb EXCEPT !.data_head_offset = (cb.data_head_offset + writeLen) % DataLen]

\* The body of the loop in circularBufferWriterSpace: what reader i leaves
\* the writer.  One offset always stays free, to tell full from empty.
ReaderSpace(cb, i) ==
    LET rawWriterSpace ==
            (cb.readerOffset[i] - cb.data_head_offset + DataLen) % DataLen
    IN  IF rawWriterSpace = 0 THEN DataLen - 1 ELSE rawWriterSpace - 1

\* Mutant: the loop stops after the first reader.
WriterSpaceOfFirst(cb) ==
    Min({DataLen - 1} \cup {ReaderSpace(cb, i) : i \in Registered(cb) \cap {0}})

\* circularBufferWriterSpace: the slowest registered reader decides.
WriterSpace(cb) ==
    Min({DataLen - 1} \cup {ReaderSpace(cb, i) : i \in Registered(cb)})

-----------------------------------------------------------------------------
(* The readers' side. *)

\* Mutant: a reader registers at the start of the buffer.
RegisterAtStart(cb) ==
    [cb EXCEPT !.readerOffset[cb.reader_cnt] = 0,
               !.reader_cnt = cb.reader_cnt + 1]

\* What the consumer threads do to register: the next slot, at the head.
Register(cb) ==
    [cb EXCEPT !.readerOffset[cb.reader_cnt] = cb.data_head_offset,
               !.reader_cnt = cb.reader_cnt + 1]

\* circularBufferAvailableData
AvailableData(cb, i) ==
    IF cb.readerOffset[i] < cb.data_head_offset
    THEN cb.data_head_offset - cb.readerOffset[i]
    ELSE IF cb.readerOffset[i] > cb.data_head_offset
         THEN DataLen - cb.readerOffset[i] + cb.data_head_offset
         ELSE 0

\* Mutant: the end of the buffer is forgotten.
ReadDataUncut(cb, i, readLen) == readLen

\* circularBufferReadData: how much of readLen lies before the end of the
\* buffer.  The caller has made sure that readLen bytes are available.
ReadData(cb, i, readLen) ==
    IF \/ cb.readerOffset[i] < cb.data_head_offset
       \/ DataLen - cb.readerOffset[i] >= readLen
    THEN readLen
    ELSE DataLen - cb.readerOffset[i]

\* The offsets a caller of circularBufferReadData then copies from, through
\* the raw pointer it got and so without wrapping.
ReadOffsets(cb, i, readLen) ==
    cb.readerOffset[i] .. cb.readerOffset[i] + readLen - 1

\* circularBufferConfirmRead
ConfirmRead(cb, i, readLen) ==
    [cb EXCEPT !.readerOffset[i] = (cb.readerOffset[i] + readLen) % DataLen]

\* "align tail to writer", which the consumers do when a recording is over.
AlignTail(cb, i) == [cb EXCEPT !.readerOffset[i] = cb.data_head_offset]

\* The offset of the k-th byte reader i has not confirmed yet, k from 0.
UnreadOffset(cb, i, k) == (cb.readerOffset[i] + k) % DataLen

=============================================================================
