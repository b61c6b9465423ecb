------------------------------ MODULE MsSearch ------------------------------
(***************************************************************************)
(* getValidMillisecond (client_behaviours.c): how the data processor cuts  *)
(* a stream of bytes into milliseconds.  A millisecond is BytesPerMs bytes *)
(* that begin with a header of two bytes (HEADER, then H_MATCH under       *)
(* H_MASK).  The stream begins at any byte, and bytes are missing from it  *)
(* where the server, the connection or the client had to drop some; so the *)
(* function looks for two headers one millisecond apart.  It peeks into    *)
(* the ring buffer without the mutex while the producer writes.            *)
(*                                                                         *)
(* Around it, the producer of the stream (networkProducerThread) and as    *)
(* much of its caller (dataProcessorThread) as one stream sees: wait for a *)
(* recording, take milliseconds until there is no more, drain.             *)
(*                                                                         *)
(* A byte is its place in the stream that the device has sent: byte b is   *)
(* the (b % BytesPerMs)-th of millisecond b \div BytesPerMs.  A critical   *)
(* section is one step (BufferSession has the mutex), and so is a wait     *)
(* with the critical section it ends in.                                   *)
(***************************************************************************)
EXTENDS CircularBuffer

CONSTANTS BytesPerMs,  \* BYTES_PER_MS
          WindowMs,    \* the 10 ms that must be there before a search
          ScanMs,      \* the 8 ms that it may begin in
          ChunkSizes,  \* lengths of what the producer commits at once
          LookAlikes,  \* bytes that are no header but look, with the byte
                       \* behind them, like one
          MaxBytes,    \* BOUND on the length of the stream
          MaxGaps      \* BOUND on the losses before the client's buffer

\* Chunks may be shorter than a millisecond (the server's drain sends up to
\* 1000 bytes, and an FTDI read may be short), so that there may be several gaps
\* in one.
ASSUME SearchAssumption ==
    /\ BytesPerMs \in Nat /\ BytesPerMs >= 3
    /\ {WindowMs, ScanMs, MaxBytes, MaxGaps} \subseteq Nat
    /\ ScanMs >= 1 /\ WindowMs >= ScanMs + 2
    /\ DataLen > WindowMs * BytesPerMs
    /\ ChunkSizes \subseteq 1 .. DataLen - 1
    /\ LookAlikes \subseteq Nat
    /\ ReaderMaxCap >= 1 /\ ZeroByte \in Nat

VARIABLES
    cb,         \* the session's buffer; the processor is its only reader
    next,       \* the next byte of the device's stream
    wchunk,     \* what the producer is writing: its first byte and length
    pc,         \* of the processor
    searchPos,
    readLen,
    result,     \* outBuffer: the bytes of a millisecond
    gaps,       \* losses so far
    since,      \* history: the first byte of the current recording
    last,       \* history: the last byte taken from it, or NoByte
    lost        \* history: bytes of it have been lost

Processor == 0  \* its reader slot
NoByte == -1

producerVars == <<next, wchunk, gaps, since, lost>>
processorVars == <<pc, searchPos, readLen, result, last>>
vars == <<cb, producerVars, processorVars>>

NoChunk == [from |-> 0, len |-> 0]
PositionInMs == 0 .. BytesPerMs - 1

-----------------------------------------------------------------------------
(* networkProducerThread. *)

Producing == wchunk # NoChunk

\* START and END.  Ten minutes of aiming lie before a START, and the processor
\* has long drained its streams; it has also seen a START before the END comes.
Start ==
    /\ ~cb.recordingActive /\ ~Producing
    /\ pc = "idle"
    /\ cb' = [cb EXCEPT !.recordingActive = TRUE]
    /\ since' = next /\ lost' = FALSE /\ last' = NoByte
    /\ UNCHANGED <<next, wchunk, gaps, pc, searchPos, readLen, result>>

End ==
    /\ cb.recordingActive /\ ~Producing
    /\ pc # "idle"
    /\ cb' = [cb EXCEPT !.recordingActive = FALSE]
    /\ UNCHANGED <<producerVars, processorVars>>

\* Bytes get lost before they reach this client (server_producer.c:210).
Gap(len) ==
    /\ cb.recordingActive /\ ~Producing
    /\ gaps < MaxGaps
    /\ next + len <= MaxBytes
    /\ gaps' = gaps + 1 /\ next' = next + len /\ lost' = TRUE
    /\ UNCHANGED <<cb, wchunk, since, processorVars>>

\* A chunk arrives; if there is no space for it, it is dropped.
Receive(len) ==
    /\ cb.recordingActive /\ ~Producing
    /\ next + len <= MaxBytes
    /\ next' = next + len
    /\ IF WriterSpace(cb) >= len
       THEN wchunk' = [from |-> next, len |-> len] /\ UNCHANGED lost
       ELSE lost' = TRUE /\ UNCHANGED wchunk
    /\ UNCHANGED <<cb, gaps, since, processorVars>>

\* The copy, without the mutex, and the confirmation.  (The write is atomic;
\* that it is under way while the processor peeks is what Producing says.)
Write ==
    /\ Producing
    /\ cb' = ConfirmWrite(
                 MemWrite(cb, [k \in 0 .. wchunk.len - 1 |-> wchunk.from + k],
                          wchunk.len),
                 wchunk.len)
    /\ wchunk' = NoChunk
    /\ UNCHANGED <<next, gaps, since, lost, processorVars>>

-----------------------------------------------------------------------------
(* getValidMillisecond. *)

Unread == AvailableData(cb, Processor)
peekByte(offset) == cb.data_ptr[UnreadOffset(cb, Processor, offset)]

Goto(label) == pc' = label

\* The two bytes from an offset on look like a header.
HeaderAt(offset) ==
    LET b1 == peekByte(offset)
        b2 == peekByte(offset + 1)
    IN  /\ b1 % BytesPerMs = 0 \/ b1 \in LookAlikes
        /\ b2 % BytesPerMs = 1 \/ b2 - 1 \in LookAlikes

\* Mutant: the second header is not looked for.
MillisecondAtFirst(offset) == HeaderAt(offset)

MillisecondAt(offset) == HeaderAt(offset) /\ HeaderAt(offset + BytesPerMs)

\* Mutant: the wait is for what is scanned only.
AwaitScan ==
    /\ pc = "await"
    /\ ~cb.recordingActive \/ Unread >= (ScanMs + 1) * BytesPerMs
    /\ Goto(IF cb.recordingActive THEN "scan" ELSE "drain")
    /\ UNCHANGED <<cb, producerVars, searchPos, readLen, result, last>>

\* Wait for WindowMs of data; -1 if the recording is over.
Await ==
    /\ pc = "await"
    /\ ~cb.recordingActive \/ Unread >= WindowMs * BytesPerMs
    /\ Goto(IF cb.recordingActive THEN "scan" ELSE "drain")
    /\ UNCHANGED <<cb, producerVars, searchPos, readLen, result, last>>

\* Mutant: the scan ends one byte early.
ScanShort ==
    /\ pc = "scan"
    /\ LET found == {p \in 0 .. ScanMs * BytesPerMs - 2 : MillisecondAt(p)}
       IN  IF found = {} THEN Goto("flush") /\ UNCHANGED searchPos
                         ELSE Goto("skip") /\ searchPos' = Min(found)
    /\ UNCHANGED <<cb, producerVars, readLen, result, last>>

\* The scan, all of it without the mutex.
Scan ==
    /\ pc = "scan"
    /\ LET found == {p \in 0 .. ScanMs * BytesPerMs - 1 : MillisecondAt(p)}
       IN  IF found = {} THEN Goto("flush") /\ UNCHANGED searchPos
                         ELSE Goto("skip") /\ searchPos' = Min(found)
    /\ UNCHANGED <<cb, producerVars, readLen, result, last>>

\* "no ms found in 8 ms, flush all and continue loop"
Flush ==
    /\ pc = "flush"
    /\ cb' = ConfirmRead(cb, Processor, ScanMs * BytesPerMs)
    /\ Goto("await")
    /\ UNCHANGED <<producerVars, searchPos, readLen, result, last>>

\* "throw away up to h1", then take what lies before the end of the buffer.
Skip ==
    /\ pc = "skip"
    /\ cb' = ConfirmRead(cb, Processor, searchPos)
    /\ readLen' = ReadData(cb', Processor, BytesPerMs)
    /\ Goto("copy")
    /\ UNCHANGED <<producerVars, searchPos, result, last>>

\* The bytes that a raw pointer to the reader's offset gives.
RawBytes(len) == [k \in 0 .. len - 1 |->
                     cb.data_ptr[cb.readerOffset[Processor] + k]]

Copy ==
    /\ pc = "copy"
    /\ result' = RawBytes(readLen)
    /\ Goto(IF readLen < BytesPerMs THEN "rest" ELSE "confirm")
    /\ UNCHANGED <<cb, producerVars, searchPos, readLen, last>>

\* Mutant: after a split read a whole millisecond is confirmed.
RestConfirmsAll ==
    /\ pc = "rest"
    /\ cb' = ConfirmRead(cb, Processor, readLen)
    /\ readLen' = BytesPerMs
    /\ Goto("copy_rest")
    /\ UNCHANGED <<producerVars, searchPos, result, last>>

\* "was at end of buffer, split read": confirm the first part and take the
\* second.
Rest ==
    /\ pc = "rest"
    /\ cb' = ConfirmRead(cb, Processor, readLen)
    /\ readLen' = BytesPerMs - readLen
    /\ Goto("copy_rest")
    /\ UNCHANGED <<producerVars, searchPos, result, last>>

CopyRest ==
    /\ pc = "copy_rest"
    /\ result' = [k \in PositionInMs |->
                     IF k \in DOMAIN result THEN result[k]
                     ELSE RawBytes(BytesPerMs)[k - Cardinality(DOMAIN result)]]
    /\ Goto("confirm")
    /\ UNCHANGED <<cb, producerVars, searchPos, readLen, last>>

Confirm ==
    /\ pc = "confirm"
    /\ cb' = ConfirmRead(cb, Processor, readLen)
    /\ Goto("return")
    /\ UNCHANGED <<producerVars, searchPos, readLen, result, last>>

-----------------------------------------------------------------------------
(* dataProcessorThread, as one of its streams sees it. *)

WaitForRecording ==
    /\ pc = "idle"
    /\ cb.recordingActive
    /\ Goto("await")
    /\ UNCHANGED <<cb, producerVars, searchPos, readLen, result, last>>

\* The millisecond is used, and the next one asked for, unless another stream
\* has ended.
UseMillisecond ==
    /\ pc = "return"
    /\ last' = result[BytesPerMs - 1]
    /\ Goto("await") \/ Goto("drain")
    /\ UNCHANGED <<cb, producerVars, searchPos, readLen, result>>

\* The drain: confirm everything, again while this recording or that of another
\* stream is active.
Drain ==
    /\ pc = "drain"
    /\ cb' = ConfirmRead(cb, Processor, Unread)
    /\ Goto("drain") \/ (~cb.recordingActive /\ Goto("idle"))
    /\ UNCHANGED <<producerVars, searchPos, readLen, result, last>>

-----------------------------------------------------------------------------
(* The specification. *)

\* The stream begins anywhere in a millisecond.
Init ==
    /\ cb = Register(EmptyBuffer)
    /\ next \in PositionInMs
    /\ wchunk = NoChunk
    /\ pc = "idle" /\ searchPos = 0 /\ readLen = 0
    /\ result = [k \in PositionInMs |-> ZeroByte]
    /\ gaps = 0 /\ since = 0 /\ last = NoByte /\ lost = FALSE

Producer ==
    \/ Start \/ End \/ Write
    \/ \E len \in ChunkSizes : Receive(len)
    \/ \E len \in 1 .. BytesPerMs : Gap(len)

getValidMillisecond ==
    \/ Await \/ Scan \/ Flush \/ Skip \/ Copy \/ Rest \/ CopyRest \/ Confirm

Next == Producer \/ getValidMillisecond
            \/ WaitForRecording \/ UseMillisecond \/ Drain

Spec == Init /\ [][Next]_vars

-----------------------------------------------------------------------------
(* Properties. *)

\* The types of the buffer and of the processor's locals.
TypeOK ==
    /\ cb \in CircularBufferOf(Int)
    /\ next \in 0 .. MaxBytes + BytesPerMs
    /\ wchunk \in [from : 0 .. MaxBytes, len : ChunkSizes \cup {0}]
    /\ pc \in {"idle", "await", "scan", "flush", "skip", "copy", "rest",
               "copy_rest", "confirm", "return", "drain"}
    /\ searchPos \in 0 .. ScanMs * BytesPerMs - 1
    /\ readLen \in 0 .. BytesPerMs
    /\ \E n \in 1 .. BytesPerMs : result \in [0 .. n - 1 -> Int]
    /\ gaps \in 0 .. MaxGaps /\ lost \in BOOLEAN

\* The offsets that the processor looks at without the mutex in this state.
PeekedOffsets ==
    IF pc = "scan"
    THEN {UnreadOffset(cb, Processor, k) : k \in 0 .. (ScanMs + 1) * BytesPerMs}
    ELSE IF pc \in {"copy", "copy_rest"}
         THEN ReadOffsets(cb, Processor, readLen)
         ELSE {}

\* Without the mutex the processor looks only at bytes that have been
\* committed and that it has not confirmed, so the producer is not writing
\* them: "stop at 8 ms, dont risk going over" (client_behaviours.c:1099).
PeeksAreSafe ==
    /\ PeekedOffsets \subseteq
           {UnreadOffset(cb, Processor, k) : k \in 0 .. Unread - 1}
    /\ Producing => PeekedOffsets \cap WriteOffsets(cb, wchunk.len) = {}

\* The bytes of a millisecond that has been taken, and the one behind it, where
\* the second header was found.
TakenByte(k) == IF k < BytesPerMs THEN result[k] ELSE peekByte(0)

\* Where bytes are missing between them.
Seams == {k \in 1 .. BytesPerMs : TakenByte(k) # TakenByte(k - 1) + 1}

\* What is taken for a millisecond has its bytes in their places, wherever the
\* stream begins, whatever is lost and where the buffer wraps: otherwise every
\* sample decoded from it would be noise.  The search is misled by three things
\* only: two bytes exactly a millisecond apart that both look like a header, one
\* that does where bytes are missing as well, or bytes that are missing at two
\* places of one millisecond.
SamplesInPlace ==
    pc = "return" =>
        LET found == {TakenByte(0), TakenByte(BytesPerMs)}
        IN  \/ \A k \in PositionInMs : result[k] % BytesPerMs = k
            \/ found \subseteq LookAlikes
            \/ /\ lost
               /\ \/ Seams # {} /\ found \cap LookAlikes # {}
                  \/ Cardinality(Seams) >= 2

\* Milliseconds are taken in their order, none twice and none into another, as
\* DataProcessor has it, and those taken while a recording lasts are of that
\* recording; while nothing is lost they are whole, and behind one that was in
\* its place the next one follows at once.
MillisecondsInOrder ==
    pc = "return" =>
        /\ result[0] > last
        /\ \A k \in 1 .. BytesPerMs - 1 : result[k] > result[k - 1]
        /\ cb.recordingActive => \A k \in PositionInMs : result[k] >= since
        /\ ~lost =>
            /\ \A k \in PositionInMs : result[k] = result[0] + k
            /\ last # NoByte /\ (last + 1) % BytesPerMs = 0 =>
                   result[0] = last + 1

\* A search fails only over a gap: it does not throw away good milliseconds.
FlushOnlyGaps ==
    pc = "flush" =>
        \E k \in 1 .. (ScanMs + 1) * BytesPerMs :
            peekByte(k) # peekByte(k - 1) + 1

=============================================================================
