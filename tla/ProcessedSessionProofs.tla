----------------------- MODULE ProcessedSessionProofs -----------------------
(***************************************************************************)
(* Theorems about ProcessedSession, for every length of buffer and block,  *)
(* every ratio and any number of recordings:                               *)
(*                                                                         *)
(*   the images the archiver keeps come in pairs                           *)
(*   the types, and that no block is torn: the space the writer has found, *)
(*   and the items the averager has found, are there until the commit      *)
(*   what an average is of.  The invariant for it lists the milliseconds   *)
(*   of all blocks that are in the running sum or in the session, and says *)
(*   which item of which block every unread item is, at each of the points *)
(*   between the two commits of a write and the two parts of a read.       *)
(***************************************************************************)
EXTENDS ProcessedSession, CircularBufferProofs

-----------------------------------------------------------------------------
(* The images.  That they come in pairs is not inductive: it depends on     *)
(* what the archiver remembers of the poll before, and on the item not      *)
(* changing while the archiver still takes the recording for one.           *)

\* The archiver is inside a recording exactly when the last image is not an
\* "end"; then the image, its own copy and the session speak of one item.
Archived ==
    /\ wasRecording \in BOOLEAN
    /\ wasRecording <=> image.kind \in {"start", "hour"}
    /\ ~wasRecording <=> image.kind \in {"none", "end"}
    /\ wasRecording => image.of = currentRecInfo /\ currentRecInfo = info

\* A pair of images, as a relation of the states before and after a step.
Paired ==
    image' # image =>
        IF image'.kind = "start"
        THEN image.kind \in {"none", "end"} /\ image'.of = info
        ELSE image.kind \in {"start", "hour"} /\ image'.of = image.of

\* One poll of imageArchiverThread, whatever the flag is, keeps the archiver
\* in step and its images in pairs; the flag is all it sees of the session.
LEMMA PollArchives ==
    ASSUME Archived, cb.recordingActive \in BOOLEAN, Poll
    PROVE  Archived' /\ Paired
<1> DEFINE up == cb.recordingActive
<1>1. wasRecording' = up /\ info' = info
      BY DEF Poll, writerVars
<1>2. CASE up /\ ~wasRecording
      <2>1. currentRecInfo' = info /\ image' = [kind |-> "start", of |-> info]
            BY <1>2 DEF Poll, KeepImage
      <2> QED
          BY <1>1, <1>2, <2>1 DEF Archived, Paired
<1>3. CASE ~up /\ wasRecording
      <2>1. /\ currentRecInfo' = currentRecInfo
            /\ image' = [kind |-> "end", of |-> currentRecInfo]
            BY <1>3 DEF Poll, KeepImage
      <2> QED
          BY <1>1, <1>3, <2>1 DEF Archived, Paired
<1>4. CASE up /\ wasRecording
      <2>1. /\ currentRecInfo' = info
            /\ \/ image' = [kind |-> "hour", of |-> info]
               \/ image' = image
            BY <1>4 DEF Poll, KeepImage
      <2> QED
          BY <1>1, <1>4, <2>1 DEF Archived, Paired
<1>5. CASE ~up /\ ~wasRecording
      <2>1. image' = image
            BY <1>5 DEF Poll
      <2> QED
          BY <1>1, <1>5, <2>1 DEF Archived, Paired
<1> QED
    BY <1>2, <1>3, <1>4, <1>5 DEF Archived

\* The flag is a Boolean field of the buffer, which only the writer's Announce
\* and End assign: the functions of CircularBuffer.c leave it alone.
HasFlag(c) == "recordingActive" \in DOMAIN c /\ c.recordingActive \in BOOLEAN

LEMMA BufferKeepsFlag ==
    ASSUME NEW c, HasFlag(c), NEW src, NEW i, NEW len
    PROVE  /\ HasFlag(MemWrite(c, src, len))
           /\ HasFlag(ConfirmWrite(c, len))
           /\ HasFlag(ConfirmRead(c, i, len))
           /\ HasFlag([c EXCEPT !.recordingActive = TRUE])
           /\ HasFlag([c EXCEPT !.recordingActive = FALSE])
BY DEF HasFlag, MemWrite, ConfirmWrite, ConfirmRead

IInv == HasFlag(cb) /\ Archived

LEMMA InitIInv == Init => IInv
<1> SUFFICES ASSUME Init PROVE IInv
    OBVIOUS
<1>1. HasFlag(cb)
    BY DEF Init, HasFlag, Register, EmptyBuffer
<1>2. Archived
    BY DEF Init, Archived
<1> QED
    BY <1>1, <1>2 DEF IInv

\* Of the other threads the archiver sees only an item that is set while it is
\* itself outside a recording.
LEMMA NextIInv ==
    ASSUME IInv, [Next]_vars
    PROVE  IInv' /\ Paired
<1> USE DEF IInv
<1>1. CASE Poll
    <2>1. Archived' /\ Paired
        BY <1>1, PollArchives DEF HasFlag
    <2>2. cb' = cb
        BY <1>1 DEF Poll
    <2> QED
        BY <2>1, <2>2
<1>2. CASE Announce
    <2>1. HasFlag(cb')
        BY <1>2, BufferKeepsFlag DEF Announce
    <2>2. UNCHANGED archiverVars /\ ~wasRecording
        BY <1>2 DEF Announce
    <2> QED
        BY <2>1, <2>2 DEF archiverVars, Archived, Paired
<1>3. CASE \/ Check \/ WriteMs \/ CommitMs \/ WriteSamples
           \/ CommitSamples \/ End
    <2>1. HasFlag(cb')
        BY <1>3, BufferKeepsFlag
        DEF Check, WriteMs, CommitMs, WriteSamples, CommitSamples, End
    <2>2. UNCHANGED <<archiverVars, info>>
        BY <1>3
        DEF Check, WriteMs, CommitMs, WriteSamples, CommitSamples, End
    <2> QED
        BY <2>1, <2>2 DEF archiverVars, Archived, Paired
<1>4. CASE AveragerStep
    <2>1. HasFlag(cb')
        BY <1>4, BufferKeepsFlag
        DEF AveragerStep, WaitForRecording, AnnounceAverages, AwaitBlock,
            ReadBlock, ConfirmFirst, ReadRest, Accumulate, EmitAverage,
            FinishAverages, DrainBlocks
    <2>2. UNCHANGED <<archiverVars, info>>
        BY <1>4
        DEF AveragerStep, WaitForRecording, AnnounceAverages, AwaitBlock,
            ReadBlock, ConfirmFirst, ReadRest, Accumulate, EmitAverage,
            FinishAverages, DrainBlocks, writerVars
    <2> QED
        BY <2>1, <2>2 DEF archiverVars, Archived, Paired
<1>5. CASE UNCHANGED vars
    BY <1>5 DEF vars, writerVars, archiverVars, Archived, Paired
<1> QED
    BY <1>1, <1>2, <1>3, <1>4, <1>5 DEF Next, Writer

\* Images come in pairs (client_behaviours.c:967-1001): every "end" is of the
\* recording whose "start" was kept last, whatever the lengths of recordings and
\* of the archiver's second.
THEOREM ImagesPaired == Spec => ImagesInPairs
<1>1. Spec => []IInv
    BY InitIInv, NextIInv, PTL DEF Spec
<1>2. IInv /\ [Next]_vars => [Paired]_vars
    BY NextIInv
<1> QED
    BY <1>1, <1>2, PTL DEF Spec, ImagesInPairs, Paired

-----------------------------------------------------------------------------
(* Types, and who may touch which part of the buffer. *)

Blocks == [0 .. BlockLen - 1 -> Items]

WriterTyped ==
    /\ info \in 0 .. MaxRecordings /\ ms \in 0 .. MaxMs /\ dropped \in BOOLEAN
    /\ wpc \in {"idle", "check", "write_ms", "commit_ms", "write_samples",
                "commit_samples"}
    /\ wpc \notin {"idle", "check"} => ms < MaxMs

AveragerTyped ==
    /\ apc \in {"wait", "announce", "await", "read", "confirm_first",
                "read_rest", "confirm", "emit", "finish", "drain"}
    /\ readLen \in 0 .. BlockLen
    /\ \E n \in 1 .. BlockLen : input \in [0 .. n - 1 -> Items]
    /\ sum \in Seq(Blocks) /\ Len(sum) \in 0 .. Ratio
    /\ apc \in {"await", "read", "confirm_first", "read_rest", "confirm"} =>
           Len(sum) < Ratio
    /\ apc = "emit" => Len(sum) = Ratio
    /\ recording \in 0 .. MaxRecordings
    /\ out \in [active : BOOLEAN, recording : 0 .. MaxRecordings]

ArchiverTyped ==
    /\ wasRecording \in BOOLEAN /\ currentRecInfo \in 0 .. MaxRecordings
    /\ lastHourlySave \in 0 .. HourPolls
    /\ image \in [kind : {"none", "start", "hour", "end"},
                  of : 0 .. MaxRecordings]

\* The space that was found stays, until the block is committed.
SpaceLeft ==
    /\ wpc \in {"write_ms", "commit_ms"} => Unread + BlockLen =< DataLen - 1
    /\ wpc \in {"write_samples", "commit_samples"} =>
           Unread + (BlockLen - 1) =< DataLen - 1

\* The items that were found stay, until they are confirmed.
BlockThere ==
    /\ apc = "read" => BlockLen =< Unread
    /\ apc = "confirm_first" =>
           /\ readLen \in 1 .. BlockLen - 1 /\ BlockLen =< Unread
           /\ cb.readerOffset[Averager] + readLen = DataLen
           /\ input \in [0 .. readLen - 1 -> Items]
    /\ apc = "read_rest" =>
           /\ readLen \in 1 .. BlockLen - 1 /\ BlockLen - readLen =< Unread
           /\ cb.readerOffset[Averager] = 0
           /\ input \in [0 .. readLen - 1 -> Items]
    /\ apc = "confirm" =>
           /\ readLen \in 1 .. BlockLen /\ readLen =< Unread
           /\ input \in Blocks

AInv ==
    /\ Sound(cb, Items) /\ cb.reader_cnt = 1
    /\ WriterTyped /\ AveragerTyped /\ ArchiverTyped
    /\ SpaceLeft /\ BlockThere

\* BlockAssumption, one constant at a time, with those of the buffer.
LEMMA BlockLenTyped ==
    /\ BlockLen \in Nat /\ 2 =< BlockLen /\ BlockLen < DataLen
    /\ Ratio \in Nat \ {0} /\ HourPolls \in Nat \ {0}
    /\ MaxRecordings \in Nat \ {0} /\ MaxMs \in Nat /\ DataLen \in Nat \ {0}
    /\ ReaderMaxCap \in Nat /\ 1 =< ReaderMaxCap
  BY BlockAssumption, BufferAssumption, DataLenAssumption,
     ReaderMaxCapAssumption

\* The averager's slot is the only one.
LEMMA OnlyReader ==
    ASSUME AInv
    PROVE  /\ Averager \in Registered(cb) /\ Registered(cb) = {Averager}
           /\ Unread \in Offsets /\ Unread \in Nat /\ DataLen \in Nat \ {0}
           /\ cb.readerOffset[Averager] \in Offsets
           /\ cb.data_ptr \in [Offsets -> Items]
  <1>1. Averager \in Registered(cb) /\ Registered(cb) = {Averager}
    BY SMT DEF AInv, Registered, Averager
  <1>2. Unread \in Offsets
    BY <1>1, AvailableRange DEF AInv, Unread
  <1>. QED BY <1>1, <1>2, DataLenAssumption
           DEF AInv, Sound, CircularBufferOf, Offsets

\* What the writer's copies and commits do to the amounts.
LEMMA CopiesKeep ==
    ASSUME AInv, NEW len \in Offsets, NEW src \in [0 .. len - 1 -> Items],
           cb' = MemWrite(cb, src, len)
    PROVE  /\ Sound(cb, Items)' /\ cb'.reader_cnt = 1
           /\ Unread' = Unread /\ cb'.readerOffset = cb.readerOffset
  BY MemWriteAmounts DEF AInv, Unread

LEMMA CommitsAdd ==
    ASSUME AInv, NEW len \in Offsets, Unread + len =< DataLen - 1,
           cb' = ConfirmWrite(cb, len)
    PROVE  /\ Sound(cb, Items)' /\ cb'.reader_cnt = 1
           /\ Unread' = Unread + len /\ cb'.readerOffset = cb.readerOffset
  BY OnlyReader, ConfirmWriteAmounts DEF AInv, Unread

LEMMA ConfirmsTake ==
    ASSUME AInv, NEW len \in 1 .. Unread,
           cb' = ConfirmRead(cb, Averager, len)
    PROVE  /\ Sound(cb, Items)' /\ cb'.reader_cnt = 1
           /\ Unread' = Unread - len
           /\ cb'.readerOffset[Averager]
                  = (cb.readerOffset[Averager] + len) % DataLen
  <1>1. /\ Sound(cb, Items)' /\ cb'.reader_cnt = 1
        /\ Unread' = Unread - len
    BY OnlyReader, ConfirmReadAmounts DEF AInv, Unread
  <1>2. cb.readerOffset \in [Slots -> 0 .. DataLen] /\ Averager \in Slots
    BY BlockLenTyped, SMT DEF AInv, Sound, CircularBufferOf, Slots, Averager
  <1>. QED BY <1>1, <1>2 DEF ConfirmRead

\* Everything may be confirmed, also if that is nothing.
LEMMA DrainTakesAll ==
    ASSUME AInv, cb' = ConfirmRead(cb, Averager, Unread)
    PROVE  Sound(cb, Items)' /\ cb'.reader_cnt = 1 /\ Unread' = 0
  <1>1. CASE Unread = 0
    <2>1. cb.readerOffset \in [Slots -> 0 .. DataLen]
      BY DEF AInv, Sound, CircularBufferOf
    <2>2. (cb.readerOffset[Averager] + 0) % DataLen = cb.readerOffset[Averager]
      BY OnlyReader, ModSmall, SMT DEF Offsets
    <2>3. [cb.readerOffset EXCEPT ![Averager] = cb.readerOffset[Averager]]
              = cb.readerOffset
      BY <2>1
    <2>4. cb' = [cb EXCEPT !.readerOffset =
                     [cb.readerOffset EXCEPT ![Averager] =
                          (cb.readerOffset[Averager] + 0) % DataLen]]
      BY <1>1 DEF ConfirmRead
    <2>5. cb' = cb
      BY <2>2, <2>3, <2>4 DEF AInv, Sound, CircularBufferOf
    <2>. QED BY <1>1, <2>5 DEF AInv, Unread
  <1>2. CASE Unread # 0
    <2>1. Unread \in 1 .. Unread
      BY <1>2, OnlyReader, SMT
    <2>2. Unread - Unread = 0
      BY OnlyReader, SMT
    <2>. QED BY <2>1, <2>2, ConfirmsTake
  <1>. QED BY <1>1, <1>2

\* A step that leaves the buffer's bytes and offsets alone.
LEMMA FlagKeepsAmounts ==
    ASSUME AInv, NEW flag \in BOOLEAN,
           cb' = [cb EXCEPT !.recordingActive = flag]
    PROVE  /\ Sound(cb, Items)' /\ cb'.reader_cnt = 1
           /\ Unread' = Unread /\ cb'.readerOffset = cb.readerOffset
  BY DEF AInv, Sound, CircularBufferOf, Registered, Unread, AvailableData

\* The items that the writer copies.
LEMMA ItemTyped ==
    ASSUME AInv, NEW k \in 0 .. BlockLen - 1
    PROVE  Item(k) \in Items
  BY DEF AInv, WriterTyped, Item, Items

\* What the averager copies, without the mutex, is inside the buffer.
LEMMA RawItemsTyped ==
    ASSUME AInv, NEW len \in Nat, len =< DataLen,
           cb.readerOffset[Averager] + len =< DataLen
    PROVE  RawItems(len) \in [0 .. len - 1 -> Items]
  <1>1. ASSUME NEW k \in 0 .. len - 1
        PROVE  cb.readerOffset[Averager] + k \in Offsets
    BY OnlyReader, SMT DEF Offsets
  <1>2. \A k \in 0 .. len - 1 :
            cb.data_ptr[cb.readerOffset[Averager] + k] \in Items
    BY <1>1, OnlyReader
  <1>. QED BY <1>2 DEF RawItems

\* The invariant holds in the initial state.
LEMMA InitAInv == Init => AInv
  <1>. SUFFICES ASSUME Init PROVE AInv
    OBVIOUS
  <1>1. ZeroByte \in Items
    BY BufferAssumption, BlockLenTyped, SMT DEF Items
  <1>2. Sound(EmptyBuffer, Items) /\ EmptyBuffer.reader_cnt = 0
    BY <1>1, EmptyBufferSound DEF EmptyBuffer
  <1>3. Sound(cb, Items) /\ cb.reader_cnt = 1
    BY <1>2, RegisterAmounts, BlockLenTyped, SMT DEF Init
  <1>4. WriterTyped
    <2>1. 0 \in 0 .. MaxRecordings /\ 0 \in 0 .. MaxMs
      BY BlockLenTyped, SMT
    <2>. QED BY <2>1 DEF Init, WriterTyped
  <1>5. AveragerTyped
    <2>1. input \in [0 .. BlockLen - 1 -> Items]
      BY <1>1 DEF Init
    <2>2. \E n \in 1 .. BlockLen : input \in [0 .. n - 1 -> Items]
      BY <2>1, BlockLenTyped, SMT
    <2>3. sum \in Seq(Blocks) /\ Len(sum) \in 0 .. Ratio
      BY BlockLenTyped, EmptySeq, SMT DEF Init
    <2>4. /\ readLen \in 0 .. BlockLen /\ recording \in 0 .. MaxRecordings
          /\ out \in [active : BOOLEAN, recording : 0 .. MaxRecordings]
      BY BlockLenTyped, SMT DEF Init
    <2>. QED BY <2>2, <2>3, <2>4 DEF Init, AveragerTyped
  <1>6. ArchiverTyped
    <2>1. 0 \in 0 .. MaxRecordings /\ 0 \in 0 .. HourPolls
      BY BlockLenTyped, SMT
    <2>. QED BY <2>1 DEF Init, ArchiverTyped
  <1>7. SpaceLeft /\ BlockThere
    BY DEF Init, SpaceLeft, BlockThere
  <1>. QED BY <1>3, <1>4, <1>5, <1>6, <1>7 DEF AInv

\* The writer keeps it.
LEMMA WriterKeepsAInv ==
    ASSUME AInv, Writer
    PROVE  AInv'
  <1>a. Unread \in Nat /\ DataLen \in Nat /\ BlockLen \in Nat
        /\ 2 =< BlockLen /\ BlockLen < DataLen
    BY OnlyReader, BlockLenTyped
  <1>b. WriterTyped /\ AveragerTyped /\ ArchiverTyped /\ SpaceLeft
        /\ BlockThere
    BY DEF AInv
  <1>c. UNCHANGED <<averagerVars, archiverVars>>
    BY DEF Writer, Announce, Check, WriteMs, CommitMs, WriteSamples,
           CommitSamples, End
  <1>d. AveragerTyped' /\ ArchiverTyped'
    BY <1>b, <1>c
       DEF AveragerTyped, ArchiverTyped, averagerVars, archiverVars
  <1>e. ASSUME Unread' \in Nat, Unread =< Unread',
               cb'.readerOffset = cb.readerOffset
        PROVE  BlockThere'
    BY <1>a, <1>b, <1>c, <1>e, SMT DEF BlockThere, averagerVars
  <1>1. CASE Announce
    <2>1. /\ cb' = [cb EXCEPT !.recordingActive = TRUE]
          /\ wpc' = "check" /\ info < MaxRecordings /\ info' = info + 1
          /\ ms' = 0 /\ dropped' = FALSE
      BY <1>1 DEF Announce
    <2>2. info + 1 \in 0 .. MaxRecordings /\ 0 \in 0 .. MaxMs
      BY <1>b, <2>1, BlockLenTyped, SMT DEF WriterTyped
    <2>3. WriterTyped' /\ SpaceLeft'
      BY <2>1, <2>2 DEF WriterTyped, SpaceLeft
    <2>4. /\ Sound(cb, Items)' /\ cb'.reader_cnt = 1
          /\ Unread' = Unread /\ cb'.readerOffset = cb.readerOffset
      BY <2>1, FlagKeepsAmounts
    <2>5. BlockThere'
      BY <1>a, <1>e, <2>4, SMT
    <2>. QED BY <1>d, <2>3, <2>4, <2>5 DEF AInv
  <1>2. CASE Check
    <2>1. cb' = cb /\ info' = info
      BY <1>2 DEF Check
    <2>2. /\ ms < MaxMs
          /\ \/ /\ WriterSpace(cb) > BlockLen /\ wpc' = "write_ms"
                /\ UNCHANGED <<ms, dropped>>
             \/ ms' = ms + 1 /\ dropped' = TRUE /\ wpc' = "check"
      BY <1>2 DEF Check
    <2>3. WriterTyped'
      <3>1. ms < MaxMs => ms + 1 \in 0 .. MaxMs
        BY <1>b, BlockLenTyped, SMT DEF WriterTyped
      <3>. QED BY <1>b, <2>1, <2>2, <3>1 DEF WriterTyped
    <2>4. wpc' = "write_ms" => Unread + BlockLen =< DataLen - 1
      <3>1. SUFFICES ASSUME WriterSpace(cb) > BlockLen
                     PROVE  Unread + BlockLen =< DataLen - 1
        BY <2>2
      <3>0. WriterSpace(cb) \in 0 .. DataLen - 1
        BY WriterSpaceLeast DEF AInv
      <3>2. WriterSpace(cb) >= BlockLen
        BY <1>a, <3>1, <3>0, SMT
      <3>. QED BY <1>a, <3>2, OnlyReader, WriterSpaceFits DEF AInv, Unread
    <2>5. SpaceLeft'
      BY <2>1, <2>2, <2>4 DEF SpaceLeft, Unread
    <2>6. Unread' = Unread /\ cb'.readerOffset = cb.readerOffset
      BY <2>1 DEF Unread
    <2>7. BlockThere'
      BY <1>a, <1>e, <2>6, SMT
    <2>. QED BY <1>d, <2>1, <2>3, <2>5, <2>7 DEF AInv
  <1>3. CASE WriteMs
    <2>1. /\ wpc = "write_ms" /\ wpc' = "commit_ms"
          /\ cb' = MemWrite(cb, [k \in {0} |-> Item(0)], 1)
          /\ UNCHANGED <<info, ms, dropped>>
      BY <1>3 DEF WriteMs
    <2>2. 1 \in Offsets /\ {0} = 0 .. 1 - 1 /\ 0 \in 0 .. BlockLen - 1
      BY <1>a, SMT DEF Offsets
    <2>3. [k \in {0} |-> Item(0)] \in [0 .. 1 - 1 -> Items]
      BY <2>2, ItemTyped
    <2>4. /\ Sound(cb, Items)' /\ cb'.reader_cnt = 1
          /\ Unread' = Unread /\ cb'.readerOffset = cb.readerOffset
      BY <2>1, <2>2, <2>3, CopiesKeep
    <2>5. WriterTyped' /\ SpaceLeft'
      BY <1>b, <2>1, <2>4 DEF WriterTyped, SpaceLeft
    <2>. QED BY <1>a, <1>d, <1>e, <2>4, <2>5, SMT DEF AInv
  <1>4. CASE CommitMs
    <2>1. /\ wpc = "commit_ms" /\ wpc' = "write_samples"
          /\ cb' = ConfirmWrite(cb, 1)
          /\ UNCHANGED <<info, ms, dropped>>
      BY <1>4 DEF CommitMs
    <2>2. 1 \in Offsets /\ Unread + 1 =< DataLen - 1
      BY <1>a, <1>b, <2>1, SMT DEF Offsets, SpaceLeft
    <2>3. /\ Sound(cb, Items)' /\ cb'.reader_cnt = 1
          /\ Unread' = Unread + 1 /\ cb'.readerOffset = cb.readerOffset
      BY <2>1, <2>2, CommitsAdd
    <2>4. WriterTyped' /\ SpaceLeft'
      BY <1>a, <1>b, <2>1, <2>3, SMT DEF WriterTyped, SpaceLeft
    <2>. QED BY <1>a, <1>d, <1>e, <2>3, <2>4, SMT DEF AInv
  <1>5. CASE WriteSamples
    <2>1. /\ wpc = "write_samples" /\ wpc' = "commit_samples"
          /\ cb' = MemWrite(cb, [k \in 0 .. BlockLen - 2 |-> Item(k + 1)],
                            BlockLen - 1)
          /\ UNCHANGED <<info, ms, dropped>>
      BY <1>5 DEF WriteSamples
    <2>2. /\ BlockLen - 1 \in Offsets /\ BlockLen - 2 = BlockLen - 1 - 1
          /\ \A k \in 0 .. BlockLen - 2 : k + 1 \in 0 .. BlockLen - 1
      BY <1>a, SMT DEF Offsets
    <2>3. [k \in 0 .. BlockLen - 2 |-> Item(k + 1)]
              \in [0 .. BlockLen - 1 - 1 -> Items]
      BY <2>2, ItemTyped
    <2>4. /\ Sound(cb, Items)' /\ cb'.reader_cnt = 1
          /\ Unread' = Unread /\ cb'.readerOffset = cb.readerOffset
      BY <2>1, <2>2, <2>3, CopiesKeep
    <2>5. WriterTyped' /\ SpaceLeft'
      BY <1>b, <2>1, <2>4 DEF WriterTyped, SpaceLeft
    <2>. QED BY <1>a, <1>d, <1>e, <2>4, <2>5, SMT DEF AInv
  <1>6. CASE CommitSamples
    <2>1. /\ wpc = "commit_samples" /\ wpc' = "check"
          /\ cb' = ConfirmWrite(cb, BlockLen - 1)
          /\ ms' = ms + 1
          /\ UNCHANGED <<info, dropped>>
      BY <1>6 DEF CommitSamples
    <2>2. BlockLen - 1 \in Offsets /\ Unread + (BlockLen - 1) =< DataLen - 1
      BY <1>a, <1>b, <2>1, SMT DEF Offsets, SpaceLeft
    <2>3. /\ Sound(cb, Items)' /\ cb'.reader_cnt = 1
          /\ Unread' = Unread + (BlockLen - 1)
          /\ cb'.readerOffset = cb.readerOffset
      BY <2>1, <2>2, CommitsAdd
    <2>4. WriterTyped' /\ SpaceLeft'
      <3>1. ms + 1 \in 0 .. MaxMs
        BY <1>b, <2>1, BlockLenTyped, SMT DEF WriterTyped
      <3>. QED BY <1>b, <2>1, <3>1 DEF WriterTyped, SpaceLeft
    <2>. QED BY <1>a, <1>d, <1>e, <2>3, <2>4, SMT DEF AInv
  <1>7. CASE End
    <2>1. /\ cb' = [cb EXCEPT !.recordingActive = FALSE] /\ wpc' = "idle"
          /\ UNCHANGED <<info, ms, dropped>>
      BY <1>7 DEF End
    <2>2. WriterTyped' /\ SpaceLeft'
      BY <1>b, <2>1 DEF WriterTyped, SpaceLeft
    <2>3. /\ Sound(cb, Items)' /\ cb'.reader_cnt = 1
          /\ Unread' = Unread /\ cb'.readerOffset = cb.readerOffset
      BY <2>1, FlagKeepsAmounts
    <2>4. BlockThere'
      BY <1>a, <1>e, <2>3, SMT
    <2>. QED BY <1>d, <2>2, <2>3, <2>4 DEF AInv
  <1>. QED BY <1>1, <1>2, <1>3, <1>4, <1>5, <1>6, <1>7 DEF Writer

\* circularBufferReadData returns all that was asked for, or what is left up to
\* the end of the buffer.
LEMMA ReadDataCut ==
    ASSUME AInv, BlockLen =< Unread
    PROVE  LET len == ReadData(cb, Averager, BlockLen)
           IN  /\ len \in 1 .. BlockLen
               /\ cb.readerOffset[Averager] + len =< DataLen
               /\ len < BlockLen => cb.readerOffset[Averager] + len = DataLen
  <1>1. cb.readerOffset[Averager] \in Offsets /\ cb.data_head_offset \in Offsets
    BY OnlyReader DEF AInv, Sound, CircularBufferOf
  <1>. QED BY <1>1, BlockLenTyped, SMT
           DEF ReadData, Unread, AvailableData, Offsets

\* The averager keeps the invariant.
LEMMA AveragerKeepsAInv ==
    ASSUME AInv, AveragerStep
    PROVE  AInv'
  <1>a. Unread \in Nat /\ DataLen \in Nat /\ BlockLen \in Nat
        /\ 2 =< BlockLen /\ BlockLen < DataLen
    BY OnlyReader, BlockLenTyped
  <1>b. WriterTyped /\ AveragerTyped /\ ArchiverTyped /\ SpaceLeft
        /\ BlockThere
    BY DEF AInv
  <1>c. UNCHANGED <<writerVars, archiverVars>>
    BY DEF AveragerStep, WaitForRecording, AnnounceAverages, AwaitBlock,
           ReadBlock, ConfirmFirst, ReadRest, Accumulate, EmitAverage,
           FinishAverages, DrainBlocks
  <1>d. WriterTyped' /\ ArchiverTyped'
    BY <1>b, <1>c DEF WriterTyped, ArchiverTyped, writerVars, archiverVars
  <1>e. ASSUME Unread' \in Nat, Unread' =< Unread
        PROVE  SpaceLeft'
    <2>1. wpc' = wpc
      BY <1>c DEF writerVars
    <2>2. \A u, v, n \in Nat : u =< v /\ v + n =< DataLen - 1
                                 => u + n =< DataLen - 1
      BY <1>a, SMT
    <2>3. BlockLen - 1 \in Nat
      BY <1>a, SMT
    <2>. QED BY <1>a, <1>b, <1>e, <2>1, <2>2, <2>3 DEF SpaceLeft
  <1>f. ASSUME cb' = cb
        PROVE  /\ Sound(cb, Items)' /\ cb'.reader_cnt = 1 /\ SpaceLeft'
               /\ Unread' = Unread
    <2>1. Unread' = Unread
      BY <1>f DEF Unread
    <2>. QED BY <1>a, <1>e, <1>f, <2>1, SMT DEF AInv
  <1>g. sum \in Seq(Blocks) /\ Len(sum) \in Nat /\ Ratio \in Nat /\ 1 =< Ratio
    BY <1>b, BlockLenTyped, SMT DEF AveragerTyped
  <1>1. CASE WaitForRecording
    <2>1. /\ cb' = cb /\ recording' = info /\ apc' = "announce"
          /\ UNCHANGED <<readLen, input, sum, out>>
      BY <1>1 DEF WaitForRecording
    <2>2. AveragerTyped' /\ BlockThere'
      BY <1>b, <2>1 DEF AveragerTyped, WriterTyped, BlockThere
    <2>. QED BY <1>d, <1>f, <2>1, <2>2 DEF AInv
  <1>2. CASE AnnounceAverages
    <2>1. /\ cb' = cb /\ apc' = "await" /\ sum' = <<>>
          /\ out' = [active |-> TRUE, recording |-> recording]
          /\ UNCHANGED <<readLen, input, recording>>
      BY <1>2 DEF AnnounceAverages
    <2>2. sum' \in Seq(Blocks) /\ Len(sum') \in 0 .. Ratio /\ Len(sum') < Ratio
      BY <1>g, <2>1, EmptySeq, SMT
    <2>3. AveragerTyped' /\ BlockThere'
      BY <1>b, <2>1, <2>2 DEF AveragerTyped, BlockThere
    <2>. QED BY <1>d, <1>f, <2>1, <2>3 DEF AInv
  <1>3. CASE AwaitBlock
    <2>1. /\ cb' = cb /\ apc = "await"
          /\ UNCHANGED <<readLen, input, sum, recording, out>>
          /\ \/ apc' = "read" /\ Unread >= BlockLen
             \/ apc' = "finish"
      BY <1>3 DEF AwaitBlock
    <2>2. apc' = "read" => BlockLen =< Unread'
      BY <1>a, <1>f, <2>1, SMT
    <2>3. AveragerTyped' /\ BlockThere'
      BY <1>b, <2>1, <2>2 DEF AveragerTyped, BlockThere
    <2>. QED BY <1>d, <1>f, <2>1, <2>3 DEF AInv
  <1>4. CASE ReadBlock
    <2>1. /\ cb' = cb /\ apc = "read"
          /\ readLen' = ReadData(cb, Averager, BlockLen)
          /\ input' = RawItems(readLen')
          /\ apc' = IF readLen' < BlockLen THEN "confirm_first" ELSE "confirm"
          /\ UNCHANGED <<sum, recording, out>>
      BY <1>4 DEF ReadBlock
    <2>2. BlockLen =< Unread
      BY <1>b, <2>1 DEF BlockThere
    <2>3. /\ readLen' \in 1 .. BlockLen
          /\ cb.readerOffset[Averager] + readLen' =< DataLen
          /\ readLen' < BlockLen
                 => cb.readerOffset[Averager] + readLen' = DataLen
      BY <2>1, <2>2, ReadDataCut
    <2>4. readLen' \in 0 .. BlockLen /\ readLen' \in Nat /\ readLen' =< DataLen
      BY <1>a, <2>3, SMT
    <2>5. input' \in [0 .. readLen' - 1 -> Items]
      BY <2>1, <2>3, <2>4, RawItemsTyped
    <2>6. AveragerTyped'
      BY <1>b, <2>1, <2>3, <2>4, <2>5 DEF AveragerTyped
    <2>7. CASE readLen' < BlockLen
      <3>1. readLen' \in 1 .. BlockLen - 1
        BY <1>a, <2>3, <2>7, SMT
      <3>2. BlockThere'
        BY <1>f, <2>1, <2>2, <2>3, <2>5, <2>7, <3>1 DEF BlockThere
      <3>. QED BY <1>d, <1>f, <2>1, <2>6, <3>2 DEF AInv
    <2>8. CASE ~(readLen' < BlockLen)
      <3>1. readLen' = BlockLen
        BY <1>a, <2>3, <2>8, SMT
      <3>2. BlockThere'
        BY <1>f, <2>1, <2>2, <2>3, <2>5, <2>8, <3>1 DEF BlockThere, Blocks
      <3>. QED BY <1>d, <1>f, <2>1, <2>6, <3>2 DEF AInv
    <2>. QED BY <2>7, <2>8
  <1>5. CASE ConfirmFirst
    <2>1. /\ apc = "confirm_first" /\ apc' = "read_rest"
          /\ cb' = ConfirmRead(cb, Averager, readLen)
          /\ UNCHANGED <<readLen, input, sum, recording, out>>
      BY <1>5 DEF ConfirmFirst
    <2>2. /\ readLen \in 1 .. BlockLen - 1 /\ BlockLen =< Unread
          /\ cb.readerOffset[Averager] + readLen = DataLen
          /\ input \in [0 .. readLen - 1 -> Items]
      BY <1>b, <2>1 DEF BlockThere
    <2>3. readLen \in 1 .. Unread
      BY <1>a, <2>2, SMT
    <2>4. /\ Sound(cb, Items)' /\ cb'.reader_cnt = 1
          /\ Unread' = Unread - readLen
          /\ cb'.readerOffset[Averager] = DataLen % DataLen
      BY <2>1, <2>2, <2>3, ConfirmsTake
    <2>5. DataLen % DataLen = 0
      <3>1. DataLen \in DataLen .. 2 * DataLen - 1 /\ DataLen - DataLen = 0
        BY DataLenAssumption, SMT
      <3>. QED BY <3>1, ModWrap, DataLenAssumption
    <2>6. /\ BlockLen - readLen =< Unread' /\ Unread' \in Nat
          /\ Unread' =< Unread
      BY <1>a, <2>2, <2>4, SMT
    <2>7. BlockThere' /\ AveragerTyped'
      BY <1>b, <2>1, <2>2, <2>4, <2>5, <2>6 DEF BlockThere, AveragerTyped
    <2>. QED BY <1>d, <1>e, <2>4, <2>6, <2>7 DEF AInv
  <1>6. CASE ReadRest
    <2>1. /\ cb' = cb /\ apc = "read_rest" /\ apc' = "confirm"
          /\ readLen' = BlockLen - readLen
          /\ input' = [k \in 0 .. BlockLen - 1 |->
                          IF k < readLen THEN input[k]
                                         ELSE RawItems(readLen')[k - readLen]]
          /\ UNCHANGED <<sum, recording, out>>
      BY <1>6 DEF ReadRest
    <2>2. /\ readLen \in 1 .. BlockLen - 1 /\ BlockLen - readLen =< Unread
          /\ cb.readerOffset[Averager] = 0
          /\ input \in [0 .. readLen - 1 -> Items]
      BY <1>b, <2>1 DEF BlockThere
    <2>3. /\ readLen' \in 1 .. BlockLen /\ readLen' \in 0 .. BlockLen
          /\ readLen' \in Nat /\ readLen' =< DataLen
          /\ cb.readerOffset[Averager] + readLen' =< DataLen
          /\ readLen' =< Unread /\ BlockLen \in 1 .. BlockLen
      BY <1>a, <2>1, <2>2, SMT
    <2>4. RawItems(readLen') \in [0 .. readLen' - 1 -> Items]
      BY <2>3, RawItemsTyped
    <2>5. ASSUME NEW k \in 0 .. BlockLen - 1
          PROVE  input'[k] \in Items
      <3>1. IF k < readLen THEN k \in 0 .. readLen - 1
                           ELSE k - readLen \in 0 .. readLen' - 1
        BY <1>a, <2>1, <2>2, SMT
      <3>. QED BY <2>1, <2>2, <2>4, <3>1
    <2>6. input' \in Blocks
      BY <2>1, <2>5 DEF Blocks
    <2>7. BlockThere' /\ AveragerTyped'
      BY <1>b, <1>f, <2>1, <2>3, <2>6 DEF BlockThere, AveragerTyped, Blocks
    <2>. QED BY <1>d, <1>f, <2>1, <2>7 DEF AInv
  <1>7. CASE Accumulate
    <2>1. /\ apc = "confirm" /\ cb' = ConfirmRead(cb, Averager, readLen)
          /\ sum' = Append(sum, input)
          /\ apc' = IF Len(sum') = Ratio THEN "emit" ELSE "await"
          /\ UNCHANGED <<readLen, input, recording, out>>
      BY <1>7 DEF Accumulate
    <2>2. /\ readLen \in 1 .. BlockLen /\ readLen =< Unread /\ input \in Blocks
      BY <1>b, <2>1 DEF BlockThere
    <2>3. readLen \in 1 .. Unread
      BY <1>a, <2>2, SMT
    <2>4. /\ Sound(cb, Items)' /\ cb'.reader_cnt = 1
          /\ Unread' = Unread - readLen
      BY <2>1, <2>3, ConfirmsTake
    <2>5. Unread' \in Nat /\ Unread' =< Unread
      BY <1>a, <2>2, <2>4, SMT
    <2>6. sum' \in Seq(Blocks) /\ Len(sum') = Len(sum) + 1
      BY <1>g, <2>1, <2>2, AppendProperties
    <2>7. Len(sum) < Ratio
      BY <1>b, <2>1 DEF AveragerTyped
    <2>8. Len(sum') \in 0 .. Ratio /\ (Len(sum') = Ratio \/ Len(sum') < Ratio)
      BY <1>g, <2>6, <2>7, SMT
    <2>9. BlockThere' /\ AveragerTyped'
      BY <1>b, <2>1, <2>6, <2>8 DEF BlockThere, AveragerTyped
    <2>. QED BY <1>d, <1>e, <2>4, <2>5, <2>9 DEF AInv
  <1>8. CASE EmitAverage
    <2>1. /\ cb' = cb /\ apc' = "await" /\ sum' = <<>>
          /\ UNCHANGED <<readLen, input, recording, out>>
      BY <1>8 DEF EmitAverage
    <2>2. sum' \in Seq(Blocks) /\ Len(sum') \in 0 .. Ratio /\ Len(sum') < Ratio
      BY <1>g, <2>1, EmptySeq, SMT
    <2>3. AveragerTyped' /\ BlockThere'
      BY <1>b, <2>1, <2>2 DEF AveragerTyped, BlockThere
    <2>. QED BY <1>d, <1>f, <2>1, <2>3 DEF AInv
  <1>9. CASE FinishAverages
    <2>1. /\ cb' = cb /\ apc' = "drain"
          /\ out' = [out EXCEPT !.active = FALSE]
          /\ UNCHANGED <<readLen, input, sum, recording>>
      BY <1>9 DEF FinishAverages
    <2>2. out' \in [active : BOOLEAN, recording : 0 .. MaxRecordings]
      BY <1>b, <2>1 DEF AveragerTyped
    <2>3. AveragerTyped' /\ BlockThere'
      BY <1>b, <2>1, <2>2 DEF AveragerTyped, BlockThere
    <2>. QED BY <1>d, <1>f, <2>1, <2>3 DEF AInv
  <1>10. CASE DrainBlocks
    <2>1. /\ cb' = ConfirmRead(cb, Averager, Unread)
          /\ apc' = "drain" \/ apc' = "wait"
          /\ UNCHANGED <<readLen, input, sum, recording, out>>
      BY <1>10 DEF DrainBlocks
    <2>2. Sound(cb, Items)' /\ cb'.reader_cnt = 1 /\ Unread' = 0
      BY <2>1, DrainTakesAll
    <2>3. Unread' \in Nat /\ Unread' =< Unread
      BY <1>a, <2>2, SMT
    <2>4. AveragerTyped' /\ BlockThere'
      BY <1>b, <2>1 DEF AveragerTyped, BlockThere
    <2>. QED BY <1>d, <1>e, <2>2, <2>3, <2>4 DEF AInv
  <1>. QED BY <1>1, <1>2, <1>3, <1>4, <1>5, <1>6, <1>7, <1>8, <1>9, <1>10
           DEF AveragerStep

\* So does the archiver, which only looks at the flag and the item.
LEMMA PollKeepsAInv ==
    ASSUME AInv, Poll
    PROVE  AInv'
  <1>1. UNCHANGED <<cb, writerVars, averagerVars>>
    BY DEF Poll
  <1>2. /\ (Sound(cb, Items) /\ cb.reader_cnt = 1)'
        /\ WriterTyped' /\ AveragerTyped' /\ SpaceLeft' /\ BlockThere'
    BY <1>1 DEF AInv, WriterTyped, AveragerTyped, SpaceLeft, BlockThere,
                Unread, writerVars, averagerVars
  <1>3. ArchiverTyped /\ WriterTyped /\ cb.recordingActive \in BOOLEAN
    BY DEF AInv, Sound, CircularBufferOf
  <1>4. currentRecInfo' \in 0 .. MaxRecordings
    BY <1>3 DEF Poll, ArchiverTyped, WriterTyped
  <1>5. lastHourlySave' \in 0 .. HourPolls
    <2>1. /\ lastHourlySave \in 0 .. HourPolls /\ 0 \in 0 .. HourPolls
          /\ ~(lastHourlySave + 1 >= HourPolls)
                 => lastHourlySave + 1 \in 0 .. HourPolls
      BY <1>3, BlockLenTyped, SMT DEF ArchiverTyped
    <2>. QED BY <2>1 DEF Poll
  <1>6. image' \in [kind : {"none", "start", "hour", "end"},
                    of : 0 .. MaxRecordings]
    BY <1>3, <1>4 DEF Poll, KeepImage, ArchiverTyped
  <1>7. wasRecording' \in BOOLEAN
    BY <1>3 DEF Poll
  <1>. QED BY <1>2, <1>4, <1>5, <1>6, <1>7 DEF AInv, ArchiverTyped

LEMMA AlwaysAInv == Spec => []AInv
  <1>1. ASSUME AInv, [Next]_vars
        PROVE  AInv'
    <2>1. CASE UNCHANGED vars
      <3>1. UNCHANGED <<cb, writerVars, averagerVars, archiverVars>>
        BY <2>1 DEF vars
      <3>2. /\ (Sound(cb, Items) /\ cb.reader_cnt = 1)'
            /\ Unread' = Unread
        BY <1>1, <3>1 DEF AInv, Unread
      <3>3. WriterTyped' /\ SpaceLeft'
        BY <1>1, <3>1, <3>2 DEF AInv, WriterTyped, SpaceLeft, writerVars
      <3>4. AveragerTyped' /\ BlockThere'
        BY <1>1, <3>1, <3>2 DEF AInv, AveragerTyped, BlockThere, averagerVars
      <3>5. ArchiverTyped'
        BY <1>1, <3>1 DEF AInv, ArchiverTyped, archiverVars
      <3>. QED BY <3>2, <3>3, <3>4, <3>5 DEF AInv
    <2>. QED BY <1>1, <2>1, WriterKeepsAInv, AveragerKeepsAInv, PollKeepsAInv
             DEF Next
  <1>. QED BY <1>1, InitAInv, PTL DEF Spec

\* The types of the session and of the locals of its three threads
\* (client_behaviours.c:690-1013), in every reachable state.
THEOREM ProcessedTyped == Spec => []TypeOK
  <1>1. ASSUME AInv
        PROVE  TypeOK
    <2>1. Len(sum) <= Ratio
      BY <1>1, BlockLenTyped, SMT DEF AInv, AveragerTyped
    <2>. QED BY <1>1, <2>1 DEF AInv, Sound, WriterTyped, AveragerTyped,
                               ArchiverTyped, TypeOK
  <1>. QED BY <1>1, AlwaysAInv, PTL

\* The processor's memcpy into the session and the averager's out of it, both
\* without the mutex, never touch the same items.  The space the writer has
\* found and the items the averager has found stay theirs, also in the second
\* half of a block and of a split read (client_behaviours.c:690-745 and
\* 808-850).
THEOREM ProcessedNotTorn == Spec => []NoTornBlock
  <1>1. ASSUME AInv
        PROVE  NoTornBlock
    <2>a. /\ Unread \in Nat /\ BlockLen \in Nat /\ 2 =< BlockLen
          /\ Averager \in Registered(cb) /\ Sound(cb, Items)
          /\ SpaceLeft /\ BlockThere /\ wpc = wpc
      BY <1>1, OnlyReader, BlockLenTyped DEF AInv
    <2>1. ASSUME NEW w \in Nat, Unread + w =< DataLen - 1,
                 Written = WriteOffsets(cb, w),
                 NEW r \in 1 .. Unread, Read = ReadOffsets(cb, Averager, r)
          PROVE  NoTornBlock
      <3>1. WriteOffsets(cb, w) \cap ReadOffsets(cb, Averager, r) = {}
        BY <2>a, <2>1, CopiesAreDisjoint DEF Unread
      <3>. QED BY <2>1, <3>1 DEF NoTornBlock
    <2>2. \/ Written = {}
          \/ \E w \in Nat : /\ Unread + w =< DataLen - 1
                            /\ Written = WriteOffsets(cb, w)
      <3>1. CASE wpc \in {"write_ms", "commit_ms"}
        <4>1. Unread + 1 =< DataLen - 1 /\ 1 \in Nat
          BY <2>a, <3>1, DataLenAssumption, SMT DEF SpaceLeft
        <4>. QED BY <3>1, <4>1 DEF Written
      <3>2. CASE wpc \in {"write_samples", "commit_samples"}
        <4>1. /\ Unread + (BlockLen - 1) =< DataLen - 1
              /\ BlockLen - 1 \in Nat
          BY <2>a, <3>2, DataLenAssumption, SMT DEF SpaceLeft
        <4>. QED BY <3>2, <4>1 DEF Written
      <3>3. CASE /\ wpc \notin {"write_ms", "commit_ms"}
                 /\ wpc \notin {"write_samples", "commit_samples"}
        BY <3>3 DEF Written
      <3>. QED BY <3>1, <3>2, <3>3
    <2>3. \/ Read = {}
          \/ \E r \in 1 .. Unread : Read = ReadOffsets(cb, Averager, r)
      <3>1. CASE apc = "read"
        <4>1. BlockLen =< Unread
          BY <2>a, <3>1 DEF BlockThere
        <4>2. ReadData(cb, Averager, BlockLen) \in 1 .. BlockLen
          BY <1>1, <4>1, ReadDataCut
        <4>3. ReadData(cb, Averager, BlockLen) \in 1 .. Unread
          BY <2>a, <4>1, <4>2, SMT
        <4>. QED BY <3>1, <4>3 DEF Read
      <3>2. CASE apc = "read_rest"
        <4>1. BlockLen - readLen \in 1 .. Unread
          BY <2>a, <3>2, SMT DEF BlockThere
        <4>. QED BY <3>2, <4>1 DEF Read
      <3>3. CASE apc \notin {"read", "read_rest"}
        BY <3>3 DEF Read
      <3>. QED BY <3>1, <3>2, <3>3
    <2>4. CASE Written = {} \/ Read = {}
      BY <2>4 DEF NoTornBlock
    <2>. QED BY <2>1, <2>2, <2>3, <2>4
  <1>. QED BY <1>1, AlwaysAInv, PTL

\* What is left of a queue when len items have been taken from its front.
LEMMA QueueFront ==
    ASSUME NEW X, NEW u \in Seq(X), NEW len \in 1 .. Len(u)
    PROVE  /\ SubSeq(u, len + 1, Len(u)) \in Seq(X)
           /\ Len(SubSeq(u, len + 1, Len(u))) = Len(u) - len
           /\ \A k \in 1 .. Len(u) - len :
                  SubSeq(u, len + 1, Len(u))[k] = u[len + k]
  <1>1. Len(u) \in Nat
    BY LenProperties
  <1>2. \A k \in len + 1 .. Len(u) : u[k] \in X
    BY <1>1, ElementOfSeq, SMT
  <1>3. /\ len + 1 \in Int /\ Len(u) \in Int
        /\ (IF len + 1 <= Len(u) THEN Len(u) - (len + 1) + 1 ELSE 0)
               = Len(u) - len
        /\ \A k \in 1 .. Len(u) - len : (len + 1) + k - 1 = len + k
    BY <1>1, SMT
  <1>. QED BY <1>2, <1>3, SubSeqProperties

-----------------------------------------------------------------------------
(* What the items in the session are.  The n unread items u belong to b      *)
(* blocks, of the milliseconds B[1], ..., B[b]; of the first block t items   *)
(* have been taken, and the last lacks its samples if h = 1: a counter and   *)
(* its samples are committed one after the other.                            *)

ItemAt(r, m, p) == [rec |-> r, ms |-> m, pos |-> p]

\* The items of so many blocks.
Span(blocks) == BlockLen * blocks

Blocked(u, n, t, B, b, h, r) ==
    /\ t + n = Span(b - h) + h
    /\ \A q \in 1 .. b : \A p \in 0 .. BlockLen - 1 : \A k \in 1 .. n :
           k = Span(q - 1) + p - t + 1 => u[k] = ItemAt(r, B[q], p)

\* Two sequences with n elements in common, d of those of u being skipped.
Same(v, u, n) == \A k \in 1 .. n : v[k] = u[k]
Shift(v, u, n, d) == \A k \in 1 .. n : v[k] = u[d + k]

\* Behind n items, the samples of the block of millisecond m.
SamplesAt(v, n, r, m) == \A k \in 1 .. BlockLen - 1 : v[n + k] = ItemAt(r, m, k)

\* Multiples of the length of a block.
LEMMA Spans ==
    ASSUME NEW a \in Int, NEW b \in Int
    PROVE  /\ Span(a) \in Int /\ Span(0) = 0
           /\ Span(a + 1) = Span(a) + BlockLen
           /\ Span(a - 1) = Span(a) - BlockLen
           /\ a =< b => Span(a) =< Span(b)
  <1>1. BlockLen \in Nat
    BY BlockLenTyped
  <1>2. a =< b => BlockLen * a =< BlockLen * b
    BY <1>1, SMT
  <1>3. BlockLen * a \in Int /\ BlockLen * 0 = 0
    BY <1>1, SMT
  <1>4. BlockLen * (a + 1) = BlockLen * a + BlockLen
    BY <1>1, SMT
  <1>5. BlockLen * (a - 1) = BlockLen * a - BlockLen
    BY <1>1, SMT
  <1>. QED BY <1>2, <1>3, <1>4, <1>5 DEF Span

\* The counter of the next block is appended.
LEMMA CounterAppended ==
    ASSUME NEW n \in Nat, NEW t \in Nat, NEW b \in Nat, NEW u, NEW v,
           NEW B, NEW C, NEW r, NEW m, Blocked(u, n, t, B, b, 0, r),
           Same(v, u, n), v[n + 1] = ItemAt(r, m, 0),
           Same(C, B, b), C[b + 1] = m
    PROVE  Blocked(v, n + 1, t, C, b + 1, 1, r)
  <1>1. BlockLen \in Nat /\ 2 =< BlockLen
    BY BlockLenTyped
  <1>2. b - 0 = b /\ b + 1 - 1 = b /\ b + 1 \in Nat
    BY SMT
  <1>3. t + n = Span(b) /\ Span(b) \in Int
    <2>1. t + n = Span(b) + 0 /\ Span(b) \in Int
      BY <1>2, Spans DEF Blocked
    <2>. QED BY <2>1, SMT
  <1>4. t + (n + 1) = Span(b + 1 - 1) + 1
    <2>1. t + (n + 1) = Span(b) + 1
      BY <1>3, SMT
    <2>. QED BY <1>2, <2>1
  <1>5. ASSUME NEW q \in 1 .. b + 1, NEW p \in 0 .. BlockLen - 1,
               NEW k \in 1 .. n + 1, k = Span(q - 1) + p - t + 1
        PROVE  v[k] = ItemAt(r, C[q], p)
    <2>1. CASE q \in 1 .. b
      <3>1. q \in Int /\ b \in Int /\ q =< b
        BY <2>1, SMT
      <3>2. /\ Span(q) =< Span(b) /\ Span(q) \in Int
            /\ Span(q - 1) = Span(q) - BlockLen
        BY <3>1, Spans
      <3>3. k \in 1 .. n
        BY <1>1, <1>3, <1>5, <3>2, SMT
      <3>. QED BY <1>5, <2>1, <3>3 DEF Blocked, Same
    <2>2. CASE q = b + 1
      <3>1. q - 1 = b
        BY <2>2, SMT
      <3>2. k = Span(b) + p - t + 1
        BY <1>5, <3>1
      <3>3. k = n + 1 /\ p = 0
        BY <1>1, <1>3, <3>2, SMT
      <3>. QED BY <2>2, <3>3
    <2>3. q \in 1 .. b \/ q = b + 1
      BY SMT
    <2>. QED BY <2>1, <2>2, <2>3
  <1>. QED BY <1>4, <1>5 DEF Blocked

\* Its samples are.
LEMMA SamplesAppended ==
    ASSUME NEW n \in Nat, NEW t \in Nat, NEW b \in Nat, NEW u, NEW v, NEW B,
           NEW r, Blocked(u, n, t, B, b, 1, r), 1 =< b,
           Same(v, u, n), SamplesAt(v, n, r, B[b])
    PROVE  Blocked(v, n + (BlockLen - 1), t, B, b, 0, r)
  <1>1. BlockLen \in Nat /\ 2 =< BlockLen
    BY BlockLenTyped
  <1>2. b - 0 = b /\ b \in Int /\ b - 1 \in Int
    BY SMT
  <1>3. /\ t + n = Span(b - 1) + 1
        /\ Span(b - 1) = Span(b) - BlockLen /\ Span(b) \in Int
    BY <1>2, Spans DEF Blocked
  <1>4. t + (n + (BlockLen - 1)) = Span(b - 0) + 0
    <2>1. t + (n + (BlockLen - 1)) = Span(b) + 0
      BY <1>1, <1>3, SMT
    <2>. QED BY <1>2, <2>1
  <1>5. ASSUME NEW q \in 1 .. b, NEW p \in 0 .. BlockLen - 1,
               NEW k \in 1 .. n + (BlockLen - 1),
               k = Span(q - 1) + p - t + 1
        PROVE  v[k] = ItemAt(r, B[q], p)
    <2>1. CASE k \in 1 .. n
      BY <1>5, <2>1 DEF Blocked, Same
    <2>2. CASE k \notin 1 .. n
      <3>a. k \in Int /\ n + 1 =< k /\ q \in Int
        BY <1>1, <2>2, SMT
      <3>1. q = b
        <4>1. SUFFICES ASSUME q =< b - 1 PROVE FALSE
          BY SMT
        <4>2. /\ Span(q) =< Span(b - 1) /\ Span(q) \in Int
              /\ Span(q - 1) = Span(q) - BlockLen
          BY <1>2, <3>a, <4>1, Spans
        <4>. QED BY <1>1, <1>3, <1>5, <3>a, <4>2, SMT
      <3>2. k = Span(b - 1) + p - t + 1
        BY <1>5, <3>1
      <3>3. k = n + p /\ p \in 1 .. BlockLen - 1
        BY <1>1, <1>3, <3>a, <3>2, SMT
      <3>. QED BY <3>1, <3>3 DEF SamplesAt
    <2>. QED BY <2>1, <2>2
  <1>. QED BY <1>4, <1>5 DEF Blocked

\* The front of the first block is taken.
LEMMA FrontTaken ==
    ASSUME NEW n \in Nat, NEW b \in Nat, NEW h \in Nat, NEW u, NEW v, NEW B,
           NEW r, Blocked(u, n, 0, B, b, h, r),
           NEW len \in 1 .. n, Shift(v, u, n - len, len)
    PROVE  Blocked(v, n - len, len, B, b, h, r)
  <1>1. BlockLen \in Nat
    BY BlockLenTyped
  <1>2. len + (n - len) = Span(b - h) + h
    <2>1. 0 + n = Span(b - h) + h
      BY DEF Blocked
    <2>2. len + (n - len) = 0 + n
      BY SMT
    <2>. QED BY <2>1, <2>2
  <1>3. ASSUME NEW q \in 1 .. b, NEW p \in 0 .. BlockLen - 1,
               NEW k \in 1 .. n - len, k = Span(q - 1) + p - len + 1
        PROVE  v[k] = ItemAt(r, B[q], p)
    <2>1. Span(q - 1) \in Int
      <3>1. q - 1 \in Int
        BY SMT
      <3>. QED BY <3>1, Spans
    <2>2. len + k \in 1 .. n /\ len + k = Span(q - 1) + p - 0 + 1
      BY <1>1, <1>3, <2>1, SMT
    <2>. QED BY <2>2 DEF Blocked, Shift
  <1>. QED BY <1>2, <1>3 DEF Blocked

\* The rest of the first block is taken.
LEMMA BlockTaken ==
    ASSUME NEW n \in Nat, NEW b \in Nat, NEW h \in Nat, NEW t \in Nat, NEW u,
           NEW v, NEW B, NEW C, NEW r, Blocked(u, n, t, B, b, h, r), 1 =< b,
           NEW len \in 1 .. n, t + len = BlockLen,
           Shift(v, u, n - len, len), Shift(C, B, b - 1, 1)
    PROVE  Blocked(v, n - len, 0, C, b - 1, h, r)
  <1>1. BlockLen \in Nat
    BY BlockLenTyped
  <1>2. b - h \in Int /\ b - 1 - h = b - h - 1
    BY SMT
  <1>3. 0 + (n - len) = Span(b - 1 - h) + h
    <2>1. t + n = Span(b - h) + h
      BY DEF Blocked
    <2>2. Span(b - h - 1) = Span(b - h) - BlockLen /\ Span(b - h) \in Int
      BY <1>2, Spans
    <2>3. 0 + (n - len) = Span(b - h - 1) + h
      BY <1>1, <2>1, <2>2, SMT
    <2>. QED BY <1>2, <2>3
  <1>4. ASSUME NEW q \in 1 .. b - 1, NEW p \in 0 .. BlockLen - 1,
               NEW k \in 1 .. n - len, k = Span(q - 1) + p - 0 + 1
        PROVE  v[k] = ItemAt(r, C[q], p)
    <2>1. q - 1 \in Int /\ q - 1 + 1 = 1 + q - 1 /\ 1 + q \in 1 .. b
      BY SMT
    <2>2. Span(1 + q - 1) = Span(q - 1) + BlockLen /\ Span(q - 1) \in Int
      BY <2>1, Spans
    <2>3. len + k \in 1 .. n /\ len + k = Span(1 + q - 1) + p - t + 1
      BY <1>1, <1>4, <2>2, SMT
    <2>. QED BY <2>1, <2>3 DEF Blocked, Shift
  <1>. QED BY <1>3, <1>4 DEF Blocked

\* The items up to the end of the first block are those of one millisecond.
LEMMA FirstBlock ==
    ASSUME NEW n \in Nat, NEW b \in Nat, NEW h \in 0 .. 1,
           NEW t \in 0 .. BlockLen - 1, NEW u, NEW B, NEW r,
           Blocked(u, n, t, B, b, h, r), BlockLen =< t + n
    PROVE  /\ 1 =< b - h
           /\ \A k \in 1 .. BlockLen - t : u[k] = ItemAt(r, B[1], t + k - 1)
  <1>1. BlockLen \in Nat /\ 2 =< BlockLen
    BY BlockLenTyped
  <1>2. 1 =< b - h
    <2>1. SUFFICES ASSUME b - h =< 0 PROVE FALSE
      BY SMT
    <2>2. b - h \in Int /\ 0 \in Int
      BY SMT
    <2>3. Span(b - h) =< Span(0) /\ Span(0) = 0 /\ Span(b - h) \in Int
      BY <2>1, <2>2, Spans
    <2>4. t + n = Span(b - h) + h
      BY DEF Blocked
    <2>. QED BY <1>1, <2>3, <2>4, SMT
  <1>3. 1 \in 1 .. b
    BY <1>2, SMT
  <1>4. ASSUME NEW k \in 1 .. BlockLen - t
        PROVE  u[k] = ItemAt(r, B[1], t + k - 1)
    <2>1. Span(1 - 1) = 0
      <3>1. 1 - 1 = 0 /\ 0 \in Int
        BY SMT
      <3>. QED BY <3>1, Spans
    <2>2. /\ k \in 1 .. n /\ t + k - 1 \in 0 .. BlockLen - 1
          /\ k = 0 + (t + k - 1) - t + 1
      BY <1>1, SMT
    <2>. QED BY <1>3, <2>1, <2>2 DEF Blocked
  <1>. QED BY <1>2, <1>4

\* No items are no blocks.
LEMMA NothingBlocked ==
    ASSUME NEW r, NEW u, NEW B
    PROVE  /\ Blocked(u, 0, 0, B, 0, 0, r)
           /\ \A b \in Nat : Blocked(u, 0, 0, B, b, 0, r) => b = 0
  <1>1. Blocked(u, 0, 0, B, 0, 0, r)
    <2>1. 0 - 0 = 0 /\ 0 \in Int /\ 0 + 0 = 0 /\ 1 .. 0 = {}
      BY SMT
    <2>2. Span(0) = 0
      BY <2>1, Spans
    <2>. QED BY <2>1, <2>2 DEF Blocked
  <1>2. ASSUME NEW b \in Nat, Blocked(u, 0, 0, B, b, 0, r)
        PROVE  b = 0
    <2>1. BlockLen \in Nat /\ 2 =< BlockLen
      BY BlockLenTyped
    <2>2. 0 + 0 = Span(b) + 0
      <3>1. b - 0 = b
        BY SMT
      <3>. QED BY <1>2, <3>1 DEF Blocked
    <2>3. SUFFICES ASSUME 1 =< b PROVE FALSE
      BY SMT
    <2>4. 0 \in Int /\ 1 \in Int /\ b \in Int /\ 0 + 1 = 1
      BY SMT
    <2>5. Span(1) =< Span(b) /\ Span(1) = Span(0) + BlockLen /\ Span(0) = 0
          /\ Span(b) \in Int
      BY <2>3, <2>4, Spans
    <2>. QED BY <2>1, <2>2, <2>5, SMT
  <1>. QED BY <1>1, <1>2

-----------------------------------------------------------------------------
(* The milliseconds of the blocks.  D[1], ..., D[d] are those of the blocks  *)
(* in the running sum and in the session, oldest first.                      *)

Ordered(D, d, h, m) ==
    /\ \A i \in 1 .. d - h : D[i] < m
    /\ h = 1 => D[d] = m
    /\ \A i, j \in 1 .. d : i < j => D[i] < D[j]

\* Without drops they are consecutive, and the sum begins at a multiple.
Gapless(D, d, h, m) ==
    /\ \A i \in 1 .. d : D[i] = m - (d - h) + i - 1
    /\ \E z \in Nat : m - (d - h) = Ratio * z

\* A block more, of the writer's current millisecond.
Longer(D, d, m) == [i \in 1 .. d + 1 |-> IF i = d + 1 THEN m ELSE D[i]]

\* Without the first c.
Rest(D, c, d) == [i \in 1 .. d - c |-> D[c + i]]

LEMMA LongerValues ==
    ASSUME NEW d \in Nat, NEW D \in [1 .. d -> Nat], NEW m \in Nat
    PROVE  /\ Longer(D, d, m) \in [1 .. d + 1 -> Nat]
           /\ Same(Longer(D, d, m), D, d) /\ Longer(D, d, m)[d + 1] = m
  <1>1. /\ d + 1 \in 1 .. d + 1
        /\ \A i \in 1 .. d + 1 : i = d + 1 \/ i \in 1 .. d
        /\ \A i \in 1 .. d : i \in 1 .. d + 1 /\ i # d + 1
    BY SMT
  <1>. QED BY <1>1 DEF Longer, Same

LEMMA RestValues ==
    ASSUME NEW d \in Nat, NEW D \in [1 .. d -> Nat], NEW c \in 0 .. d
    PROVE  /\ Rest(D, c, d) \in [1 .. d - c -> Nat] /\ d - c \in Nat
           /\ Shift(Rest(D, c, d), D, d - c, c)
  <1>1. d - c \in Nat /\ \A i \in 1 .. d - c : c + i \in 1 .. d
    BY SMT
  <1>. QED BY <1>1 DEF Rest, Shift

\* The writer has committed a counter: the block is not yet older than ms.
LEMMA OrderLonger ==
    ASSUME NEW d \in Nat, NEW D \in [1 .. d -> Nat], NEW m \in Nat
    PROVE  /\ Ordered(D, d, 0, m) => Ordered(Longer(D, d, m), d + 1, 1, m)
           /\ Gapless(D, d, 0, m) => Gapless(Longer(D, d, m), d + 1, 1, m)
  <1> DEFINE E == Longer(D, d, m)
  <1>1. Same(E, D, d) /\ E[d + 1] = m
    BY LongerValues
  <1>2. \A i \in 1 .. d : E[i] = D[i] /\ D[i] \in Nat
    BY <1>1 DEF Same
  <1>. HIDE DEF E
  <1>3. /\ d + 1 - 1 = d /\ d - 0 = d
        /\ \A i \in 1 .. d + 1 : i \in 1 .. d \/ i = d + 1
    BY SMT
  <1>4. ASSUME Ordered(D, d, 0, m)
        PROVE  Ordered(E, d + 1, 1, m)
    <2>1. \A i \in 1 .. d : D[i] < m
      BY <1>3, <1>4 DEF Ordered
    <2>2. \A i \in 1 .. d + 1 - 1 : E[i] < m
      BY <1>2, <1>3, <2>1
    <2>3. ASSUME NEW i \in 1 .. d + 1, NEW j \in 1 .. d + 1, i < j
          PROVE  E[i] < E[j]
      <3>1. i \in 1 .. d
        BY <2>3, SMT
      <3>2. CASE j \in 1 .. d
        BY <1>2, <1>4, <2>3, <3>1, <3>2 DEF Ordered
      <3>3. CASE j = d + 1
        BY <1>1, <1>2, <2>1, <3>1, <3>3
      <3>. QED BY <1>3, <3>2, <3>3
    <2>. QED BY <1>1, <2>2, <2>3 DEF Ordered
  <1>5. ASSUME Gapless(D, d, 0, m)
        PROVE  Gapless(E, d + 1, 1, m)
    <2>1. /\ \A i \in 1 .. d : D[i] = m - d + i - 1
          /\ \E z \in Nat : m - d = Ratio * z
      BY <1>3, <1>5 DEF Gapless
    <2>2. m - d + (d + 1) - 1 = m
      BY SMT
    <2>3. \A i \in 1 .. d + 1 : E[i] = m - d + i - 1
      BY <1>1, <1>2, <1>3, <2>1, <2>2
    <2>. QED BY <1>3, <2>1, <2>3 DEF Gapless
  <1>. QED BY <1>4, <1>5 DEF E

\* The writer has gone on to the next millisecond, the block being complete, or
\* dropped.
LEMMA OrderNext ==
    ASSUME NEW d \in Nat, NEW D \in [1 .. d -> Nat], NEW m \in Nat
    PROVE  /\ 1 =< d /\ Ordered(D, d, 1, m) => Ordered(D, d, 0, m + 1)
           /\ Gapless(D, d, 1, m) => Gapless(D, d, 0, m + 1)
           /\ Ordered(D, d, 0, m) => Ordered(D, d, 0, m + 1)
  <1>a. \A i \in 1 .. d : D[i] \in Nat
    OBVIOUS
  <1>1. d - 0 = d /\ m + 1 - d = m - (d - 1)
    BY SMT
  <1>2. ASSUME 1 =< d, Ordered(D, d, 1, m)
        PROVE  Ordered(D, d, 0, m + 1)
    <2>1. ASSUME NEW i \in 1 .. d
          PROVE  D[i] < m + 1
      <3>1. i \in 1 .. d - 1 \/ i = d
        BY SMT
      <3>2. D[i] < m \/ D[i] = m
        BY <1>2, <3>1 DEF Ordered
      <3>3. D[i] \in Nat
        BY <1>a
      <3>. QED BY <3>2, <3>3, SMT
    <2>2. 0 # 1
      BY SMT
    <2>. QED BY <1>1, <1>2, <2>1, <2>2 DEF Ordered
  <1>3. ASSUME Gapless(D, d, 1, m)
        PROVE  Gapless(D, d, 0, m + 1)
    BY <1>1, <1>3 DEF Gapless
  <1>4. ASSUME Ordered(D, d, 0, m)
        PROVE  Ordered(D, d, 0, m + 1)
    <2>1. ASSUME NEW i \in 1 .. d
          PROVE  D[i] < m + 1
      <3>1. D[i] < m /\ D[i] \in Nat
        BY <1>1, <1>4, <1>a DEF Ordered
      <3>. QED BY <3>1, SMT
    <2>2. 0 # 1
      BY SMT
    <2>. QED BY <1>1, <1>4, <2>1, <2>2 DEF Ordered
  <1>. QED BY <1>2, <1>3, <1>4

\* The averager has begun the next sum.
LEMMA OrderRest ==
    ASSUME NEW d \in Nat, NEW D \in [1 .. d -> Nat], NEW m \in Nat,
           NEW h \in 0 .. 1, NEW c \in Nat, c + h =< d
    PROVE  /\ Ordered(D, d, h, m) => Ordered(Rest(D, c, d), d - c, h, m)
           /\ c = Ratio /\ Gapless(D, d, h, m)
                  => Gapless(Rest(D, c, d), d - c, h, m)
  <1> DEFINE E == Rest(D, c, d)
  <1>1. \A i \in 1 .. d - c : E[i] = D[c + i]
    BY DEF Rest
  <1>. HIDE DEF E
  <1>2. /\ \A i \in 1 .. d - c : c + i \in 1 .. d
        /\ \A i \in 1 .. d - c - h : c + i \in 1 .. d - h /\ i \in 1 .. d - c
        /\ \A i, j \in 1 .. d - c : i < j => c + i < c + j
        /\ h = 1 => d - c \in 1 .. d - c /\ c + (d - c) = d
    BY SMT
  <1>3. ASSUME Ordered(D, d, h, m)
        PROVE  Ordered(E, d - c, h, m)
    BY <1>1, <1>2, <1>3 DEF Ordered
  <1>4. ASSUME c = Ratio, Gapless(D, d, h, m)
        PROVE  Gapless(E, d - c, h, m)
    <2>1. PICK z \in Nat : m - (d - h) = Ratio * z
      BY <1>4 DEF Gapless
    <2>2. m - (d - c - h) = Ratio * (z + 1) /\ z + 1 \in Nat
      <3>1. Ratio * (z + 1) = Ratio * z + Ratio /\ Ratio * z \in Int
        BY BlockLenTyped, SMT
      <3>2. Ratio \in Nat
        BY BlockLenTyped
      <3>. QED BY <1>4, <2>1, <3>1, <3>2, SMT
    <2>3. ASSUME NEW i \in 1 .. d - c
          PROVE  E[i] = m - (d - c - h) + i - 1
      <3>1. E[i] = m - (d - h) + (c + i) - 1
        BY <1>1, <1>2, <1>4 DEF Gapless
      <3>2. m - (d - h) + (c + i) - 1 = m - (d - c - h) + i - 1
        BY SMT
      <3>. QED BY <3>1, <3>2
    <2>. QED BY <2>2, <2>3 DEF Gapless
  <1>. QED BY <1>3, <1>4 DEF E

\* Nothing is in order.
LEMMA OrderNothing ==
    ASSUME NEW D, NEW m \in Nat
    PROVE  Ordered(D, 0, 0, m) /\ Gapless(D, 0, 0, 0)
  <1>1. /\ 0 - 0 = 0 /\ 1 .. 0 = {} /\ 0 # 1
        /\ 0 \in Nat /\ Ratio * 0 = 0
    BY BlockLenTyped, SMT
  <1>. QED BY <1>1 DEF Ordered, Gapless

-----------------------------------------------------------------------------
(* What an average is of. *)

Working == {"await", "read", "confirm_first", "read_rest", "confirm", "emit"}
Holding == {"confirm_first", "read_rest", "confirm"}

\* The unread items; how many of the first block the averager has taken; whether
\* the last block lacks its samples; how many blocks are in the running sum.
Queue == UnreadOf(cb, Averager)
Taken == IF apc = "read_rest" THEN readLen
         ELSE IF apc = "confirm" THEN BlockLen - readLen ELSE 0
Half == IF wpc \in {"write_samples", "commit_samples"} THEN 1 ELSE 0
Summed == IF apc \in Working THEN Len(sum) ELSE 0

\* The averager has taken nothing of this recording but what it has averaged.
Averaging ==
    \/ apc \in Working \cup {"announce"}
    \/ apc = "wait" /\ wpc # "idle"

\* What the writer has copied behind the head and not committed.
Placed(block) ==
    \A k \in 1 .. Len(block) :
        cb.data_ptr[(cb.data_head_offset + (k - 1)) % DataLen] = block[k]
Counter == <<Item(0)>>
Samples == [k \in 1 .. BlockLen - 1 |-> Item(k)]
CopiesPlaced ==
    /\ wpc = "commit_ms" => Placed(Counter)
    /\ wpc = "commit_samples" => Placed(Samples)

\* How far the two threads can be apart: a recording ends before the next one
\* is announced, and its averager has then seen its announcement.
Phases ==
    /\ wpc = "idle" <=> ~cb.recordingActive
    /\ apc \in {"finish", "drain"} => wpc = "idle"
    /\ apc = "wait" /\ wpc = "idle" => Unread = 0
    /\ apc = "announce" => wpc # "idle" /\ recording = info
    /\ apc \in Working => out = [active |-> TRUE, recording |-> info]

\* The first n blocks of the sum are those of D.
SumOf(D, n) ==
    \A k \in 1 .. n : \A p \in 0 .. BlockLen - 1 :
        sum[k][p] = ItemAt(info, D[k], p)
InputOf(m) == \A k \in DOMAIN input : input[k] = ItemAt(info, m, k)

\* D[1], ..., D[d] are the milliseconds of the blocks in the sum and in the
\* session.
Trace(D, d) ==
    /\ Summed + Half =< d
    /\ Blocked(Queue, Unread, Taken, Rest(D, Summed, d), d - Summed, Half, info)
    /\ Ordered(D, d, Half, ms)
    /\ Averaging /\ ~dropped => Gapless(D, d, Half, ms)
    /\ SumOf(D, Summed)
    /\ apc \in Holding => Summed + Half + 1 =< d /\ InputOf(D[Summed + 1])

Content == \E d \in Nat : \E D \in [1 .. d -> Nat] : Trace(D, d)

\* The numbers above.
LEMMA Counts ==
    ASSUME AInv
    PROVE  /\ Unread \in Nat /\ Summed \in Nat /\ Half \in 0 .. 1
           /\ Taken \in 0 .. BlockLen - 1 /\ ms \in Nat /\ info \in Nat
           /\ BlockLen \in Nat /\ 2 =< BlockLen
           /\ BlockLen - 1 \in Nat /\ BlockLen - 1 \in Offsets /\ 1 \in Offsets
  <1>1. /\ BlockLen \in Nat /\ 2 =< BlockLen
        /\ BlockLen - 1 \in Nat /\ BlockLen - 1 \in Offsets /\ 1 \in Offsets
    BY BlockLenTyped, SMT DEF Offsets
  <1>2. Unread \in Nat
    BY OnlyReader
  <1>3. ms \in Nat /\ info \in Nat
    BY BlockLenTyped, SMT DEF AInv, WriterTyped
  <1>4. Half \in 0 .. 1
    BY SMT DEF Half
  <1>5. Summed \in Nat
    <2>1. Len(sum) \in Nat /\ 0 \in Nat
      BY LenProperties DEF AInv, AveragerTyped
    <2>. QED BY <2>1 DEF Summed
  <1>6. Taken \in 0 .. BlockLen - 1
    <2>1. CASE apc = "read_rest"
      <3>1. readLen \in 0 .. BlockLen - 1
        BY <1>1, <2>1, SMT DEF AInv, BlockThere
      <3>. QED BY <2>1, <3>1 DEF Taken
    <2>2. CASE apc = "confirm"
      <3>1. BlockLen - readLen \in 0 .. BlockLen - 1
        BY <1>1, <2>2, SMT DEF AInv, BlockThere
      <3>. QED BY <2>2, <3>1 DEF Taken
    <2>3. 0 \in 0 .. BlockLen - 1
      BY <1>1, SMT
    <2>. QED BY <2>1, <2>2, <2>3 DEF Taken
  <1>. QED BY <1>1, <1>2, <1>3, <1>4, <1>5, <1>6

\* Confirming a read takes the items from the front of the queue.
LEMMA ConfirmsFront ==
    ASSUME AInv, NEW len \in 1 .. Unread,
           cb' = ConfirmRead(cb, Averager, len)
    PROVE  /\ Shift(Queue', Queue, Unread - len, len)
           /\ Unread' = Unread - len
           /\ cb'.data_ptr = cb.data_ptr
           /\ cb'.data_head_offset = cb.data_head_offset
           /\ cb'.recordingActive = cb.recordingActive
  <1>1. /\ Queue \in Seq(Items) /\ Len(Queue) = Unread
        /\ Sound(cb, Items) /\ Averager \in Registered(cb)
    BY OnlyReader, UnreadIsSeq DEF AInv, Queue, Unread
  <1>2. Queue' = SubSeq(Queue, len + 1, Len(Queue))
    BY <1>1, ConfirmReadUnread DEF Queue, Unread
  <1>3. Shift(Queue', Queue, Unread - len, len)
    <2>1. \A k \in 1 .. Len(Queue) - len :
              SubSeq(Queue, len + 1, Len(Queue))[k] = Queue[len + k]
      BY <1>1, QueueFront
    <2>. QED BY <1>1, <1>2, <2>1 DEF Shift
  <1>4. /\ cb'.data_ptr = cb.data_ptr
        /\ cb'.data_head_offset = cb.data_head_offset
        /\ cb'.recordingActive = cb.recordingActive
    BY DEF AInv, Sound, CircularBufferOf, ConfirmRead
  <1>. QED BY <1>3, <1>4, ConfirmsTake

\* What is copied without the mutex are the first unread items.
LEMMA ReadsFront ==
    ASSUME AInv, NEW len \in 1 .. Unread,
           cb.readerOffset[Averager] + len =< DataLen
    PROVE  \A k \in 0 .. len - 1 : RawItems(len)[k] = Queue[k + 1]
  <1>1. ASSUME NEW k \in 0 .. len - 1
        PROVE  RawItems(len)[k] = Queue[k + 1]
    <2>1. /\ Unread \in Offsets /\ Unread \in Nat /\ DataLen \in Nat
          /\ cb.readerOffset[Averager] \in Offsets
          /\ Sound(cb, Items) /\ Averager \in Registered(cb)
      BY OnlyReader DEF AInv
    <2>2. /\ k \in Offsets /\ cb.readerOffset[Averager] + k < DataLen
          /\ k + 1 \in 1 .. Unread /\ k + 1 - 1 = k
      BY <2>1, SMT DEF Offsets
    <2>3. UnreadOffset(cb, Averager, k) = cb.readerOffset[Averager] + k
      BY <2>1, <2>2, UnreadOffsetValue
    <2>4. Queue[k + 1] = cb.data_ptr[UnreadOffset(cb, Averager, k)]
      BY <2>2 DEF Queue, UnreadOf, Unread
    <2>. QED BY <2>3, <2>4 DEF RawItems
  <1>. QED BY <1>1

\* The writer's copies change no item in the queue, and put the block in place.
LEMMA CopiesPlace ==
    ASSUME AInv, NEW block \in Seq(Items), Len(block) \in Offsets,
           Unread + Len(block) =< DataLen - 1,
           NEW src \in [0 .. Len(block) - 1 -> Items],
           \A k \in 1 .. Len(block) : src[k - 1] = block[k],
           cb' = MemWrite(cb, src, Len(block))
    PROVE  /\ Queue' = Queue /\ Unread' = Unread /\ Placed(block)'
           /\ cb'.recordingActive = cb.recordingActive
  <1>1. Sound(cb, Items) /\ Averager \in Registered(cb) /\ Len(block) \in Nat
    BY OnlyReader, LenProperties DEF AInv
  <1>2. AvailableData(cb, Averager) + Len(block) =< DataLen - 1
    BY DEF Unread
  <1>3. Queue' = Queue
    <2>1. UnreadOf(MemWrite(cb, src, Len(block)), Averager)
              = UnreadOf(cb, Averager)
      BY <1>1, <1>2, MemWriteUnread
    <2>. QED BY <2>1 DEF Queue
  <1>4. Unread' = Unread
    BY <1>1, MemWriteAmounts DEF Unread
  <1>5. /\ cb'.data_head_offset = cb.data_head_offset
        /\ cb'.recordingActive = cb.recordingActive
    BY <1>1 DEF Sound, CircularBufferOf, MemWrite
  <1>6. ASSUME NEW k \in 1 .. Len(block)
        PROVE  cb'.data_ptr[(cb'.data_head_offset + (k - 1)) % DataLen]
                   = block[k]
    <2>1. k - 1 \in 0 .. Len(block) - 1
      BY <1>1, SMT
    <2>2. cb'.data_ptr[(cb.data_head_offset + (k - 1)) % DataLen]
              = src[k - 1]
      BY <1>1, <2>1, MemWriteBlock
    <2>. QED BY <1>5, <2>1, <2>2
  <1>. QED BY <1>3, <1>4, <1>5, <1>6 DEF Placed

\* The places behind n items.
LEMMA BehindUnread ==
    ASSUME NEW n \in Nat, NEW len \in Nat
    PROVE  /\ \A k \in 1 .. n : k \in 1 .. n + len /\ k <= n
           /\ \A k \in 1 .. len : /\ n + k \in 1 .. n + len
                                  /\ ~(n + k <= n) /\ (n + k) - n = k
  BY SMT

\* Its commits append the block to the queue.
LEMMA CommitsAppend ==
    ASSUME AInv, NEW block \in Seq(Items), Len(block) \in Offsets,
           Unread + Len(block) =< DataLen - 1, Placed(block),
           cb' = ConfirmWrite(cb, Len(block))
    PROVE  /\ Same(Queue', Queue, Unread)
           /\ \A k \in 1 .. Len(block) : Queue'[Unread + k] = block[k]
           /\ Unread' = Unread + Len(block)
           /\ cb'.recordingActive = cb.recordingActive
  <1>1. /\ Queue \in Seq(Items) /\ Len(Queue) = Unread /\ Unread \in Nat
        /\ Sound(cb, Items) /\ Averager \in Registered(cb)
        /\ Len(block) \in Nat
    BY OnlyReader, UnreadIsSeq, LenProperties DEF AInv, Queue, Unread
  <1>2. Queue' = Queue \o block
    BY <1>1, ConfirmWriteUnread, ZenonT(60) DEF Queue, Unread, Placed
  <1>3. \A k \in 1 .. Unread + Len(block) : (Queue \o block)[k] =
            IF k <= Unread THEN Queue[k] ELSE block[k - Unread]
    BY <1>1, ConcatProperties
  <1>4. /\ \A k \in 1 .. Unread : k \in 1 .. Unread + Len(block) /\ k <= Unread
        /\ \A k \in 1 .. Len(block) :
               /\ Unread + k \in 1 .. Unread + Len(block)
               /\ ~(Unread + k <= Unread) /\ (Unread + k) - Unread = k
    BY <1>1, BehindUnread
  <1>5. cb'.recordingActive = cb.recordingActive
    BY <1>1 DEF Sound, CircularBufferOf, ConfirmWrite
  <1>6. Same(Queue', Queue, Unread)
    <2>1. \A k \in 1 .. Unread : (Queue \o block)[k] = Queue[k]
      BY <1>3, <1>4
    <2>. QED BY <1>2, <2>1 DEF Same
  <1>7. \A k \in 1 .. Len(block) : Queue'[Unread + k] = block[k]
    <2>1. ASSUME NEW k \in 1 .. Len(block)
          PROVE  (Queue \o block)[Unread + k] = block[k]
      <3>1. /\ Unread + k \in 1 .. Unread + Len(block)
            /\ ~(Unread + k <= Unread) /\ (Unread + k) - Unread = k
        BY <1>4
      <3>. QED BY <1>3, <3>1
    <2>. QED BY <1>2, <2>1
  <1>8. Unread' = Unread + Len(block)
    BY CommitsAdd
  <1>. QED BY <1>5, <1>6, <1>7, <1>8

\* The blocks the writer copies.
LEMMA BlocksCopied ==
    ASSUME AInv
    PROVE  /\ Counter \in Seq(Items) /\ Len(Counter) = 1
           /\ Counter[1] = Item(0)
           /\ Samples \in Seq(Items) /\ Len(Samples) = BlockLen - 1
           /\ \A k \in 1 .. BlockLen - 1 : Samples[k] = Item(k)
           /\ \A k \in 1 .. 1 : [j \in {0} |-> Item(0)][k - 1] = Counter[k]
           /\ \A k \in 1 .. BlockLen - 1 :
                  [j \in 0 .. BlockLen - 2 |-> Item(j + 1)][k - 1] = Samples[k]
           /\ \A k : Item(k) = ItemAt(info, ms, k)
  <1>1. /\ BlockLen - 1 \in Nat /\ 0 \in 0 .. BlockLen - 1
        /\ \A k \in 1 .. BlockLen - 1 : k \in 0 .. BlockLen - 1
        /\ BlockLen - 2 = BlockLen - 1 - 1
        /\ \A k \in 0 .. BlockLen - 2 : k + 1 \in 1 .. BlockLen - 1
    BY Counts, SMT
  <1>2. Item(0) \in Items /\ \A k \in 1 .. BlockLen - 1 : Item(k) \in Items
    BY <1>1, ItemTyped
  <1>3. Counter \in Seq(Items) /\ Len(Counter) = 1 /\ Counter[1] = Item(0)
    BY <1>2 DEF Counter
  <1>4. Samples \in [1 .. BlockLen - 1 -> Items]
    BY <1>2 DEF Samples
  <1>5. Samples \in Seq(Items) /\ Len(Samples) = BlockLen - 1
    <2>. HIDE DEF Samples
    <2>. QED BY <1>1, <1>4, SMT
  <1>6. \A k \in 1 .. 1 : [j \in {0} |-> Item(0)][k - 1] = Counter[k]
    <2>1. \A k \in 1 .. 1 : k = 1 /\ k - 1 \in {0}
      BY SMT
    <2>. QED BY <1>3, <2>1
  <1>7. ASSUME NEW k \in 1 .. BlockLen - 1
        PROVE  [j \in 0 .. BlockLen - 2 |-> Item(j + 1)][k - 1] = Samples[k]
    <2>1. k - 1 \in 0 .. BlockLen - 2 /\ k - 1 + 1 = k
      BY <1>1, SMT
    <2>. QED BY <2>1 DEF Samples
  <1>8. \A k : Item(k) = ItemAt(info, ms, k)
    BY DEF Item, ItemAt
  <1>9. \A k \in 1 .. BlockLen - 1 : Samples[k] = Item(k)
    BY DEF Samples
  <1>. QED BY <1>3, <1>5, <1>6, <1>7, <1>8, <1>9

CInv == Phases /\ CopiesPlaced /\ Content

\* Another block at the end of what remains.
LEMMA RestLonger ==
    ASSUME NEW d \in Nat, NEW D \in [1 .. d -> Nat], NEW m \in Nat,
           NEW c \in 0 .. d
    PROVE  /\ d - c \in Nat /\ (d + 1) - c = d - c + 1
           /\ Same(Rest(Longer(D, d, m), c, d + 1), Rest(D, c, d), d - c)
           /\ Rest(Longer(D, d, m), c, d + 1)[d - c + 1] = m
  <1>1. /\ d - c \in Nat /\ (d + 1) - c = d - c + 1
        /\ d - c + 1 \in 1 .. (d + 1) - c /\ c + (d - c + 1) = d + 1
        /\ \A i \in 1 .. d - c : c + i \in 1 .. d /\ i \in 1 .. (d + 1) - c
    BY SMT
  <1>2. Same(Longer(D, d, m), D, d) /\ Longer(D, d, m)[d + 1] = m
    BY LongerValues
  <1>. QED BY <1>1, <1>2 DEF Rest, Same

\* The four steps in which the writer passes a block on.
LEMMA MsCopied ==
    ASSUME AInv, wpc = "write_ms",
           cb' = MemWrite(cb, [k \in {0} |-> Item(0)], 1),
           UNCHANGED <<info, ms>>
    PROVE  /\ Queue' = Queue /\ Unread' = Unread /\ Placed(Counter)'
           /\ cb'.recordingActive = cb.recordingActive
  <1> DEFINE src == [k \in {0} |-> Item(0)]
  <1>1. /\ Counter \in Seq(Items) /\ Len(Counter) = 1
        /\ \A k \in 1 .. 1 : src[k - 1] = Counter[k]
    BY BlocksCopied
  <1>2. 1 \in Offsets /\ Unread + 1 =< DataLen - 1
    <2>1. Unread + BlockLen =< DataLen - 1 /\ DataLen \in Nat
      BY OnlyReader DEF AInv, SpaceLeft
    <2>. QED BY <2>1, Counts, SMT
  <1>3. src \in [0 .. 1 - 1 -> Items]
    <2>1. {0} = 0 .. 1 - 1 /\ 0 \in 0 .. BlockLen - 1
      BY Counts, SMT
    <2>. QED BY <2>1, ItemTyped
  <1>. HIDE DEF src
  <1>4. Counter' = Counter
    BY DEF Counter, Item
  <1>5. \A block \in Seq(Items) :
            block = Counter =>
                /\ Queue' = Queue /\ Unread' = Unread /\ Placed(block)'
                /\ cb'.recordingActive = cb.recordingActive
    BY <1>1, <1>2, <1>3, CopiesPlace DEF src
  <1>. QED BY <1>1, <1>4, <1>5 DEF Placed

LEMMA SamplesCopied ==
    ASSUME AInv, wpc = "write_samples",
           cb' = MemWrite(cb, [k \in 0 .. BlockLen - 2 |-> Item(k + 1)],
                          BlockLen - 1),
           UNCHANGED <<info, ms>>
    PROVE  /\ Queue' = Queue /\ Unread' = Unread /\ Placed(Samples)'
           /\ cb'.recordingActive = cb.recordingActive
  <1> DEFINE src == [k \in 0 .. BlockLen - 2 |-> Item(k + 1)]
  <1>1. /\ Samples \in Seq(Items) /\ Len(Samples) = BlockLen - 1
        /\ \A k \in 1 .. BlockLen - 1 : src[k - 1] = Samples[k]
    BY BlocksCopied
  <1>2. BlockLen - 1 \in Offsets /\ Unread + (BlockLen - 1) =< DataLen - 1
    BY Counts DEF AInv, SpaceLeft
  <1>3. src \in [0 .. BlockLen - 1 - 1 -> Items]
    <2>1. /\ BlockLen - 2 = BlockLen - 1 - 1
          /\ \A k \in 0 .. BlockLen - 2 : k + 1 \in 0 .. BlockLen - 1
      BY Counts, SMT
    <2>. QED BY <2>1, ItemTyped
  <1>. HIDE DEF src
  <1>4. Samples' = Samples
    BY DEF Samples, Item
  <1>5. \A block \in Seq(Items) :
            block = Samples =>
                /\ Queue' = Queue /\ Unread' = Unread /\ Placed(block)'
                /\ cb'.recordingActive = cb.recordingActive
    BY <1>1, <1>2, <1>3, CopiesPlace DEF src
  <1>. QED BY <1>1, <1>4, <1>5 DEF Placed

LEMMA MsCommitted ==
    ASSUME AInv, CInv, wpc = "commit_ms", cb' = ConfirmWrite(cb, 1)
    PROVE  /\ Same(Queue', Queue, Unread) /\ Unread' = Unread + 1
           /\ Queue'[Unread + 1] = ItemAt(info, ms, 0)
           /\ cb'.recordingActive = cb.recordingActive
  <1>1. /\ Counter \in Seq(Items) /\ Len(Counter) = 1
        /\ Counter[1] = ItemAt(info, ms, 0)
    BY BlocksCopied
  <1>2. 1 \in Offsets /\ Unread + 1 =< DataLen - 1 /\ 1 \in 1 .. 1
    <2>1. Unread + BlockLen =< DataLen - 1 /\ DataLen \in Nat
      BY OnlyReader DEF AInv, SpaceLeft
    <2>. QED BY <2>1, Counts, SMT
  <1>3. Placed(Counter)
    BY DEF CInv, CopiesPlaced
  <1>. QED BY <1>1, <1>2, <1>3, CommitsAppend

LEMMA SamplesCommitted ==
    ASSUME AInv, CInv, wpc = "commit_samples",
           cb' = ConfirmWrite(cb, BlockLen - 1)
    PROVE  /\ Same(Queue', Queue, Unread)
           /\ Unread' = Unread + (BlockLen - 1)
           /\ SamplesAt(Queue', Unread, info, ms)
           /\ cb'.recordingActive = cb.recordingActive
  <1>1. /\ Samples \in Seq(Items) /\ Len(Samples) = BlockLen - 1
        /\ \A k \in 1 .. BlockLen - 1 : Samples[k] = ItemAt(info, ms, k)
    BY BlocksCopied
  <1>2. BlockLen - 1 \in Offsets /\ Unread + (BlockLen - 1) =< DataLen - 1
    BY Counts DEF AInv, SpaceLeft
  <1>3. Placed(Samples)
    BY DEF CInv, CopiesPlaced
  <1>4. /\ Same(Queue', Queue, Unread)
        /\ \A k \in 1 .. BlockLen - 1 : Queue'[Unread + k] = Samples[k]
        /\ Unread' = Unread + (BlockLen - 1)
        /\ cb'.recordingActive = cb.recordingActive
    BY <1>1, <1>2, <1>3, CommitsAppend
  <1>. QED BY <1>1, <1>4 DEF SamplesAt

\* The flag is no part of the queue.
LEMMA FlagKeepsQueue ==
    ASSUME AInv, NEW flag \in BOOLEAN,
           cb' = [cb EXCEPT !.recordingActive = flag]
    PROVE  /\ Queue' = Queue /\ Unread' = Unread
           /\ cb'.data_ptr = cb.data_ptr
           /\ cb'.data_head_offset = cb.data_head_offset
           /\ cb'.recordingActive = flag
  <1>1. /\ cb'.data_ptr = cb.data_ptr
        /\ cb'.data_head_offset = cb.data_head_offset
        /\ cb'.recordingActive = flag
    BY DEF AInv, Sound, CircularBufferOf
  <1>2. Unread' = Unread /\ cb'.readerOffset = cb.readerOffset
    BY FlagKeepsAmounts
  <1>. QED BY <1>1, <1>2 DEF Queue, UnreadOf, UnreadOffset, Unread

\* The writer keeps the account of the blocks.
LEMMA WriterKeepsContent ==
    ASSUME AInv, CInv, Writer
    PROVE  Content'
  <1>. PICK d \in Nat : \E D \in [1 .. d -> Nat] : Trace(D, d)
    BY DEF CInv, Content
  <1>. PICK D \in [1 .. d -> Nat] : Trace(D, d)
    OBVIOUS
  <1>a. /\ Unread \in Nat /\ Summed \in Nat /\ Half \in 0 .. 1
        /\ Taken \in Nat /\ ms \in Nat
        /\ BlockLen - 1 \in Offsets /\ 1 \in Offsets
    BY Counts, SMT
  <1>b. /\ Taken' = Taken /\ Summed' = Summed /\ apc' = apc
        /\ UNCHANGED <<sum, input>>
    BY DEF Writer, Announce, Check, WriteMs, CommitMs, WriteSamples,
           CommitSamples, End, averagerVars, Taken, Summed
  <1>c. /\ Summed + Half =< d
        /\ Blocked(Queue, Unread, Taken, Rest(D, Summed, d), d - Summed, Half,
                   info)
        /\ Ordered(D, d, Half, ms)
        /\ Averaging /\ ~dropped => Gapless(D, d, Half, ms)
        /\ SumOf(D, Summed)
        /\ apc \in Holding => /\ Summed + Half + 1 =< d
                              /\ InputOf(D[Summed + 1])
    BY DEF Trace
  <1>d. Summed \in 0 .. d /\ d - Summed \in Nat
    BY <1>a, <1>c, SMT
  <1>e. ASSUME info' = info
        PROVE  /\ SumOf(D, Summed)'
               /\ apc \in Holding => InputOf(D[Summed + 1])'
    BY <1>b, <1>c, <1>e DEF SumOf, InputOf
  <1>f. ASSUME info' = info, Queue' = Queue, Unread' = Unread, ms' = ms,
               Half' = Half, dropped' = dropped, Averaging' => Averaging
        PROVE  Content'
    <2>1. Trace(D, d)'
      BY <1>b, <1>c, <1>e, <1>f DEF Trace
    <2>. QED BY <2>1 DEF Content
  <1>1. CASE Announce
    <2>1. /\ wpc = "idle" /\ apc = "wait" /\ wpc' = "check" /\ ms' = 0
          /\ cb' = [cb EXCEPT !.recordingActive = TRUE]
      BY <1>1 DEF Announce
    <2>2. /\ Unread = 0 /\ Taken = 0 /\ Summed = 0 /\ Half = 0 /\ Half' = 0
          /\ apc \notin Holding
      BY <2>1 DEF CInv, Phases, Taken, Summed, Half, Working, Holding
    <2>3. Unread' = 0
      BY <2>1, <2>2, FlagKeepsAmounts
    <2>4. d = 0
      <3>1. d - 0 = d
        BY SMT
      <3>2. Blocked(Queue, 0, 0, Rest(D, 0, d), d, 0, info)
        BY <1>c, <2>2, <3>1
      <3>. QED BY <3>2, NothingBlocked
    <2>5. /\ 0 - 0 = 0 /\ 0 + 0 =< 0 /\ 1 .. 0 = {} /\ 0 \in Nat
      BY SMT
    <2>6. Blocked(Queue', 0, 0, Rest(D, 0, 0), 0, 0, info')
      BY NothingBlocked
    <2>7. Ordered(D, 0, 0, 0) /\ Gapless(D, 0, 0, 0)
      BY <2>5, OrderNothing
    <2>8. SumOf(D, 0)'
      BY <2>5 DEF SumOf
    <2>9. Trace(D, 0)'
      BY <1>b, <2>1, <2>2, <2>3, <2>5, <2>6, <2>7, <2>8 DEF Trace
    <2>. QED BY <2>4, <2>9 DEF Content
  <1>2. CASE Check
    <2>1. /\ cb' = cb /\ info' = info /\ wpc = "check"
          /\ \/ wpc' = "write_ms" /\ UNCHANGED <<ms, dropped>>
             \/ wpc' = "check" /\ ms' = ms + 1 /\ dropped' = TRUE
      BY <1>2 DEF Check
    <2>2. /\ Queue' = Queue /\ Unread' = Unread /\ Half = 0 /\ Half' = 0
          /\ Averaging' = Averaging
      BY <1>b, <2>1 DEF Queue, Unread, Half, Averaging
    <2>3. CASE wpc' = "write_ms" /\ UNCHANGED <<ms, dropped>>
      BY <1>f, <2>1, <2>2, <2>3
    <2>4. CASE wpc' = "check" /\ ms' = ms + 1 /\ dropped' = TRUE
      <3>1. Ordered(D, d, 0, ms + 1)
        BY <1>a, <1>c, <2>2, OrderNext
      <3>2. Trace(D, d)'
        BY <1>b, <1>c, <1>e, <2>1, <2>2, <2>4, <3>1 DEF Trace
      <3>. QED BY <3>2 DEF Content
    <2>. QED BY <2>1, <2>3, <2>4
  <1>3. CASE WriteMs
    <2>1. /\ wpc = "write_ms" /\ wpc' = "commit_ms"
          /\ cb' = MemWrite(cb, [k \in {0} |-> Item(0)], 1)
          /\ UNCHANGED <<info, ms, dropped>>
      BY <1>3 DEF WriteMs
    <2>2. /\ Queue' = Queue /\ Unread' = Unread
      BY <2>1, MsCopied
    <2>3. Half' = Half /\ (Averaging' => Averaging)
      BY <1>b, <2>1 DEF Half, Averaging
    <2>. QED BY <1>f, <2>1, <2>2, <2>3
  <1>4. CASE CommitMs
    <2>1. /\ wpc = "commit_ms" /\ wpc' = "write_samples"
          /\ cb' = ConfirmWrite(cb, 1)
          /\ UNCHANGED <<info, ms, dropped>>
      BY <1>4 DEF CommitMs
    <2>2. /\ Same(Queue', Queue, Unread) /\ Unread' = Unread + 1
          /\ Queue'[Unread + 1] = ItemAt(info, ms, 0)
      BY <2>1, MsCommitted
    <2>3. Half = 0 /\ Half' = 1 /\ (Averaging' => Averaging)
      BY <1>b, <2>1 DEF Half, Averaging
    <2>a. ms \in Nat /\ Summed \in 0 .. d /\ d + 1 \in Nat
      BY <1>a, <1>d, SMT
    <2>b. Longer(D, d, ms) \in [1 .. d + 1 -> Nat]
      BY <2>a, LongerValues
    <2>. PICK E \in [1 .. d + 1 -> Nat] : E = Longer(D, d, ms)
      BY <2>b
    <2>4. Same(E, D, d)
      BY <2>a, LongerValues
    <2>5. /\ (d + 1) - Summed = d - Summed + 1
          /\ Same(Rest(E, Summed, d + 1), Rest(D, Summed, d), d - Summed)
          /\ Rest(E, Summed, d + 1)[d - Summed + 1] = ms
      BY <2>a, RestLonger
    <2>6. /\ Ordered(E, d + 1, 1, ms)
          /\ Averaging /\ ~dropped => Gapless(E, d + 1, 1, ms)
      BY <1>a, <1>c, <2>3, OrderLonger
    <2>7. Blocked(Queue', Unread + 1, Taken, Rest(E, Summed, d + 1),
                  (d + 1) - Summed, 1, info)
      <3>1. Blocked(Queue', Unread + 1, Taken, Rest(E, Summed, d + 1),
                    d - Summed + 1, 1, info)
        BY <1>a, <1>c, <1>d, <2>2, <2>3, <2>5, CounterAppended
      <3>. QED BY <2>5, <3>1
    <2>8. /\ Summed + 1 =< d + 1
          /\ Summed + Half + 1 =< d =>
                 Summed + 1 \in 1 .. d /\ Summed + 1 + 1 =< d + 1
          /\ \A k \in 1 .. Summed : k \in 1 .. d
      BY <1>a, <1>d, SMT
    <2>9. SumOf(E, Summed)'
      <3>1. \A k \in 1 .. Summed : E[k] = D[k]
        BY <2>4, <2>8 DEF Same
      <3>2. SumOf(D, Summed)'
        BY <1>e, <2>1
      <3>3. ASSUME NEW k \in 1 .. Summed, NEW p \in 0 .. BlockLen - 1
            PROVE  sum'[k][p] = ItemAt(info', E[k], p)
        <4>1. sum'[k][p] = ItemAt(info', D[k], p)
          BY <1>b, <3>2 DEF SumOf
        <4>. QED BY <3>1, <4>1
      <3>. QED BY <1>b, <3>3 DEF SumOf
    <2>10. apc \in Holding => /\ Summed + 1 + 1 =< d + 1
                              /\ InputOf(E[Summed + 1])'
      <3>1. apc \in Holding => E[Summed + 1] = D[Summed + 1]
        BY <1>c, <2>4, <2>8 DEF Same
      <3>2. apc \in Holding => InputOf(D[Summed + 1])'
        BY <1>e, <2>1
      <3>3. apc \in Holding => InputOf(E[Summed + 1])'
        BY <1>b, <3>1, <3>2 DEF InputOf
      <3>. QED BY <1>c, <2>8, <3>3
    <2>11. Trace(E, d + 1)'
      <3>1. /\ (Summed + Half =< d + 1)'
            /\ Blocked(Queue, Unread, Taken, Rest(E, Summed, d + 1),
                       (d + 1) - Summed, Half, info)'
        BY <1>b, <2>1, <2>2, <2>3, <2>7, <2>8
      <3>2. Ordered(E, d + 1, Half, ms)' /\ SumOf(E, Summed)'
        BY <2>1, <2>3, <2>6, <2>9
      <3>3. (Averaging /\ ~dropped => Gapless(E, d + 1, Half, ms))'
        BY <2>1, <2>3, <2>6
      <3>4. (apc \in Holding => /\ Summed + Half + 1 =< d + 1
                                /\ InputOf(E[Summed + 1]))'
        BY <1>b, <2>3, <2>10
      <3>. QED BY <3>1, <3>2, <3>3, <3>4 DEF Trace
    <2>. QED BY <2>a, <2>4, <2>11 DEF Content
  <1>5. CASE WriteSamples
    <2>1. /\ wpc = "write_samples" /\ wpc' = "commit_samples"
          /\ cb' = MemWrite(cb, [k \in 0 .. BlockLen - 2 |-> Item(k + 1)],
                            BlockLen - 1)
          /\ UNCHANGED <<info, ms, dropped>>
      BY <1>5 DEF WriteSamples
    <2>2. /\ Queue' = Queue /\ Unread' = Unread
      BY <2>1, SamplesCopied
    <2>3. Half' = Half /\ (Averaging' => Averaging)
      BY <1>b, <2>1 DEF Half, Averaging
    <2>. QED BY <1>f, <2>1, <2>2, <2>3
  <1>6. CASE CommitSamples
    <2>1. /\ wpc = "commit_samples" /\ wpc' = "check"
          /\ cb' = ConfirmWrite(cb, BlockLen - 1)
          /\ ms' = ms + 1
          /\ UNCHANGED <<info, dropped>>
      BY <1>6 DEF CommitSamples
    <2>2. /\ Same(Queue', Queue, Unread)
          /\ Unread' = Unread + (BlockLen - 1)
          /\ SamplesAt(Queue', Unread, info, ms)
      BY <2>1, SamplesCommitted
    <2>3. Half = 1 /\ Half' = 0 /\ (Averaging' => Averaging)
      BY <1>b, <2>1 DEF Half, Averaging
    <2>4. /\ 1 =< d /\ d \in 1 .. d /\ 1 =< d - Summed
          /\ d - Summed \in 1 .. d - Summed /\ Summed + (d - Summed) = d
          /\ Summed + 0 =< d
          /\ Summed + 1 + 1 =< d => Summed + 0 + 1 =< d
      BY <1>a, <1>c, <2>3, SMT
    <2>5. Rest(D, Summed, d)[d - Summed] = ms
      <3>1. D[d] = ms
        BY <1>c, <2>3 DEF Ordered
      <3>. QED BY <2>4, <3>1 DEF Rest
    <2>6. Blocked(Queue', Unread + (BlockLen - 1), Taken, Rest(D, Summed, d),
                  d - Summed, 0, info)
      BY <1>a, <1>c, <1>d, <2>2, <2>3, <2>4, <2>5, SamplesAppended
    <2>7. /\ Ordered(D, d, 0, ms + 1)
          /\ Averaging /\ ~dropped => Gapless(D, d, 0, ms + 1)
      BY <1>a, <1>c, <2>3, <2>4, OrderNext
    <2>8. Trace(D, d)'
      BY <1>b, <1>c, <1>e, <2>1, <2>2, <2>3, <2>4, <2>6, <2>7 DEF Trace
    <2>. QED BY <2>8 DEF Content
  <1>7. CASE End
    <2>1. /\ cb' = [cb EXCEPT !.recordingActive = FALSE]
          /\ wpc = "check" /\ wpc' = "idle" /\ apc # "wait"
          /\ UNCHANGED <<info, ms, dropped>>
      BY <1>7 DEF End
    <2>2. Unread' = Unread /\ Queue' = Queue
      BY <2>1, FlagKeepsQueue
    <2>3. Half' = Half /\ (Averaging' => Averaging)
      BY <1>b, <2>1 DEF Half, Averaging
    <2>. QED BY <1>f, <2>1, <2>2, <2>3
  <1>. QED BY <1>1, <1>2, <1>3, <1>4, <1>5, <1>6, <1>7 DEF Writer

\* Without the blocks before them.
LEMMA RestAgain ==
    ASSUME NEW d \in Nat, NEW D \in [1 .. d -> Nat], NEW c \in 0 .. d
    PROVE  /\ Rest(Rest(D, c, d), 0, d - c) = Rest(D, c, d)
           /\ c < d => /\ Rest(D, c, d)[1] = D[c + 1]
                       /\ Shift(Rest(D, c + 1, d), Rest(D, c, d),
                                d - c - 1, 1)
  <1>1. /\ (d - c) - 0 = d - c
        /\ \A i \in 1 .. d - c : 0 + i = i
        /\ c < d => 1 \in 1 .. d - c
        /\ \A i \in 1 .. d - c - 1 :
               /\ i \in 1 .. d - (c + 1) /\ 1 + i \in 1 .. d - c
               /\ (c + 1) + i = c + (1 + i)
    BY SMT
  <1>2. Rest(Rest(D, c, d), 0, d - c) = Rest(D, c, d)
    BY <1>1 DEF Rest
  <1>3. ASSUME c < d
        PROVE  /\ Rest(D, c, d)[1] = D[c + 1]
               /\ Shift(Rest(D, c + 1, d), Rest(D, c, d), d - c - 1, 1)
    BY <1>1, <1>3 DEF Rest, Shift
  <1>. QED BY <1>2, <1>3

\* The next sum begins: with `ratio' blocks in the one before, or in no order
\* with it.
LEMMA NextSum ==
    ASSUME AInv, Content, Taken = 0,
           UNCHANGED <<Queue, Unread, Half, info, ms, dropped>>,
           Taken' = 0, Summed' = 0, apc' \notin Holding,
           Averaging' => Averaging /\ Summed = Ratio
    PROVE  Content'
  <1>. PICK d \in Nat : \E D \in [1 .. d -> Nat] : Trace(D, d)
    BY DEF Content
  <1>. PICK D \in [1 .. d -> Nat] : Trace(D, d)
    OBVIOUS
  <1>1. /\ Summed \in Nat /\ Half \in 0 .. 1 /\ ms \in Nat
        /\ Summed + Half =< d
        /\ Blocked(Queue, Unread, 0, Rest(D, Summed, d), d - Summed, Half,
                   info)
        /\ Ordered(D, d, Half, ms)
        /\ Averaging /\ ~dropped => Gapless(D, d, Half, ms)
    BY Counts DEF Trace
  <1>2. /\ Summed \in 0 .. d /\ d - Summed \in Nat
        /\ 0 + Half =< d - Summed /\ (d - Summed) - 0 = d - Summed
        /\ 1 .. 0 = {}
    BY <1>1, SMT
  <1>3. Rest(D, Summed, d) \in [1 .. d - Summed -> Nat]
    BY <1>2, RestValues
  <1>. PICK e \in Nat : e = d - Summed
    BY <1>2
  <1>. PICK E \in [1 .. e -> Nat] : E = Rest(D, Summed, d)
    BY <1>3
  <1>4. Rest(E, 0, e) = E
    BY <1>2, RestAgain
  <1>5. /\ Ordered(E, e, Half, ms)
        /\ Averaging' /\ ~dropped => Gapless(E, e, Half, ms)
    BY <1>1, OrderRest
  <1>6. Blocked(Queue, Unread, 0, Rest(E, 0, e), e - 0, Half, info)
    BY <1>1, <1>2, <1>4
  <1>7. SumOf(E, 0)'
    BY <1>2 DEF SumOf
  <1>8. Trace(E, e)'
    <2>1. /\ (Summed + Half =< e)'
          /\ Blocked(Queue, Unread, Taken, Rest(E, Summed, e), e - Summed,
                     Half, info)'
      BY <1>2, <1>6
    <2>2. Ordered(E, e, Half, ms)' /\ SumOf(E, Summed)'
      BY <1>5, <1>7
    <2>3. (Averaging /\ ~dropped => Gapless(E, e, Half, ms))'
      BY <1>5
    <2>. QED BY <2>1, <2>2, <2>3 DEF Trace
  <1>. QED BY <1>8 DEF Content

\* The lengths of the two parts of a read of b items.
LEMMA Parts ==
    ASSUME NEW b \in Nat, NEW l \in 1 .. b
    PROVE  /\ l \in Nat /\ b - l \in Nat /\ b - l + l = b
           /\ b - (b - l) = l
           /\ ~(l < b) => b - l = 0
           /\ \A n \in Nat : b =< n \/ l =< n => l \in 1 .. n
           /\ \A k \in 0 .. l - 1 : k + 1 \in 1 .. b /\ 0 + (k + 1) - 1 = k
  BY SMT

LEMMA RestOfParts ==
    ASSUME NEW b \in Nat, NEW l \in 1 .. b - 1, NEW n \in Nat, b - l =< n
    PROVE  /\ l \in 1 .. b /\ l \in 0 .. b - 1
           /\ b - l \in 1 .. n /\ b - l \in 1 .. b /\ b =< l + n
           /\ \A k \in 0 .. b - 1 :
                  /\ k < l => k \in 0 .. l - 1
                  /\ ~(k < l) => /\ k - l \in 0 .. (b - l) - 1
                                 /\ k - l + 1 \in 1 .. b - l
                                 /\ l + (k - l + 1) - 1 = k
  BY SMT

\* One more of d blocks.
LEMMA OneMore ==
    ASSUME NEW c \in Nat, NEW h \in 0 .. 1, NEW d \in Nat, c + h + 1 =< d
    PROVE  /\ c + 1 + h =< d /\ c < d /\ 1 =< d - c
           /\ d - c - 1 = d - (c + 1)
           /\ \A k \in 1 .. c + 1 : k \in 1 .. c \/ k = c + 1
  BY SMT

\* The averager keeps it.
LEMMA AveragerKeepsContent ==
    ASSUME AInv, CInv, AveragerStep
    PROVE  Content'
  <1>. PICK d \in Nat : \E D \in [1 .. d -> Nat] : Trace(D, d)
    BY DEF CInv, Content
  <1>. PICK D \in [1 .. d -> Nat] : Trace(D, d)
    OBVIOUS
  <1>a. /\ Unread \in Nat /\ Summed \in Nat
        /\ Half \in 0 .. 1 /\ Half \in Nat
        /\ Taken \in 0 .. BlockLen - 1 /\ Taken \in Nat /\ ms \in Nat
        /\ BlockLen \in Nat /\ 2 =< BlockLen
    BY Counts, SMT
  <1>b. UNCHANGED <<Half, info, ms, dropped, wpc>>
    BY DEF AveragerStep, WaitForRecording, AnnounceAverages, AwaitBlock,
           ReadBlock, ConfirmFirst, ReadRest, Accumulate, EmitAverage,
           FinishAverages, DrainBlocks, writerVars, Half
  <1>c. /\ Summed + Half =< d
        /\ Blocked(Queue, Unread, Taken, Rest(D, Summed, d), d - Summed, Half,
                   info)
        /\ Ordered(D, d, Half, ms)
        /\ Averaging /\ ~dropped => Gapless(D, d, Half, ms)
        /\ SumOf(D, Summed)
        /\ apc \in Holding => /\ Summed + Half + 1 =< d
                              /\ InputOf(D[Summed + 1])
    BY DEF Trace
  <1>d. Summed \in 0 .. d /\ d - Summed \in Nat /\ 1 .. 0 = {}
    BY <1>a, <1>c, SMT
  <1>e. ASSUME Queue' = Queue, Unread' = Unread, Taken' = Taken,
               Summed' = Summed, sum' = sum, Averaging' => Averaging,
               apc' \in Holding => /\ Summed + Half + 1 =< d
                                   /\ InputOf(D[Summed + 1])'
        PROVE  Content'
    <2>1. SumOf(D, Summed)'
      BY <1>b, <1>c, <1>e DEF SumOf
    <2>2. Trace(D, d)'
      BY <1>b, <1>c, <1>e, <2>1 DEF Trace
    <2>. QED BY <2>2 DEF Content
  <1>f. ASSUME cb' = cb
        PROVE  Queue' = Queue /\ Unread' = Unread
    BY <1>f DEF Queue, Unread
  <1>1. CASE WaitForRecording
    <2>1. apc = "wait" /\ apc' = "announce" /\ cb' = cb /\ sum' = sum
      BY <1>1 DEF WaitForRecording
    <2>2. wpc # "idle"
      BY <1>1 DEF WaitForRecording, CInv, Phases
    <2>3. /\ Taken = 0 /\ Taken' = 0 /\ Summed = 0 /\ Summed' = 0
          /\ Averaging /\ apc' \notin Holding
      BY <2>1, <2>2 DEF Taken, Summed, Averaging, Working, Holding
    <2>. QED BY <1>e, <1>f, <2>1, <2>3
  <1>2. CASE AnnounceAverages
    <2>1. apc = "announce" /\ apc' = "await" /\ cb' = cb /\ sum' = <<>>
      BY <1>2 DEF AnnounceAverages
    <2>2. /\ Taken = 0 /\ Taken' = 0 /\ Summed = 0 /\ Summed' = 0
          /\ Averaging /\ apc' \notin Holding
      BY <2>1 DEF Taken, Summed, Averaging, Working, Holding
    <2>3. SumOf(D, Summed)'
      BY <1>d, <2>2 DEF SumOf
    <2>4. Trace(D, d)'
      BY <1>b, <1>c, <1>f, <2>1, <2>2, <2>3 DEF Trace
    <2>. QED BY <2>4 DEF Content
  <1>3. CASE AwaitBlock
    <2>1. /\ apc = "await" /\ cb' = cb /\ sum' = sum
          /\ apc' = "read" \/ apc' = "finish"
      BY <1>3 DEF AwaitBlock
    <2>2. CASE apc' = "read"
      <3>1. /\ Taken = 0 /\ Taken' = 0 /\ Summed = Len(sum)
            /\ Summed' = Summed /\ Averaging /\ apc' \notin Holding
        BY <2>1, <2>2 DEF Taken, Summed, Averaging, Working, Holding
      <3>. QED BY <1>e, <1>f, <2>1, <3>1
    <2>3. CASE apc' = "finish"
      <3>1. /\ Taken = 0 /\ Taken' = 0 /\ Summed' = 0 /\ ~Averaging'
            /\ apc' \notin Holding
        BY <2>1, <2>3 DEF Taken, Summed, Averaging, Working, Holding
      <3>. QED BY <1>b, <1>f, <2>1, <3>1, NextSum DEF CInv
    <2>. QED BY <2>1, <2>2, <2>3
  <1>4. CASE ReadBlock
    <2>1. /\ apc = "read" /\ cb' = cb /\ sum' = sum
          /\ readLen' = ReadData(cb, Averager, BlockLen)
          /\ input' = RawItems(readLen')
          /\ apc' = IF readLen' < BlockLen THEN "confirm_first" ELSE "confirm"
      BY <1>4 DEF ReadBlock
    <2>2. BlockLen =< Unread
      BY <2>1 DEF AInv, BlockThere
    <2>3. /\ readLen' \in 1 .. BlockLen
          /\ cb.readerOffset[Averager] + readLen' =< DataLen
      BY <2>1, <2>2, ReadDataCut
    <2>4. /\ readLen' \in 1 .. Unread /\ readLen' \in Nat
          /\ ~(readLen' < BlockLen) => BlockLen - readLen' = 0
      BY <1>a, <2>2, <2>3, Parts
    <2>5. /\ Taken = 0 /\ Taken' = 0 /\ Summed = Len(sum)
          /\ Summed' = Summed /\ Averaging
      BY <2>1, <2>4 DEF Taken, Summed, Averaging, Working
    <2>6. BlockLen =< 0 + Unread /\ BlockLen - 0 = BlockLen
          /\ 0 \in 0 .. BlockLen - 1
      BY <1>a, <2>2, SMT
    <2>7. /\ 1 =< d - Summed - Half
          /\ \A k \in 1 .. BlockLen :
                 Queue[k] = ItemAt(info, Rest(D, Summed, d)[1], 0 + k - 1)
      BY <1>a, <1>c, <1>d, <2>5, <2>6, FirstBlock
    <2>8. /\ Summed + Half + 1 =< d /\ Summed < d
          /\ \A k \in 0 .. readLen' - 1 :
                 k + 1 \in 1 .. BlockLen /\ 0 + (k + 1) - 1 = k
      <3>1. Summed + Half + 1 =< d /\ Summed < d
        BY <1>a, <2>7, SMT
      <3>. QED BY <1>a, <2>3, <3>1, Parts
    <2>9. Rest(D, Summed, d)[1] = D[Summed + 1]
      BY <1>d, <2>8, RestAgain
    <2>10. \A k \in 0 .. readLen' - 1 : RawItems(readLen')[k] = Queue[k + 1]
      BY <2>3, <2>4, ReadsFront
    <2>11. DOMAIN input' = 0 .. readLen' - 1
      BY <2>1 DEF RawItems
    <2>12. ASSUME NEW k \in 0 .. readLen' - 1
           PROVE  input'[k] = ItemAt(info, D[Summed + 1], k)
      <3>1. /\ k + 1 \in 1 .. BlockLen /\ 0 + (k + 1) - 1 = k
        BY <2>8
      <3>2. Queue[k + 1]
                = ItemAt(info, Rest(D, Summed, d)[1], 0 + (k + 1) - 1)
        BY <2>7, <3>1
      <3>. QED BY <2>1, <2>9, <2>10, <3>1, <3>2
    <2>13. InputOf(D[Summed + 1])'
      BY <1>b, <2>5, <2>11, <2>12 DEF InputOf
    <2>. QED BY <1>e, <1>f, <2>1, <2>5, <2>8, <2>13
  <1>5. CASE ConfirmFirst
    <2>1. /\ apc = "confirm_first" /\ apc' = "read_rest" /\ sum' = sum
          /\ cb' = ConfirmRead(cb, Averager, readLen)
          /\ UNCHANGED <<readLen, input>>
      BY <1>5 DEF ConfirmFirst
    <2>2. readLen \in 1 .. BlockLen - 1 /\ BlockLen =< Unread
      BY <2>1 DEF AInv, BlockThere
    <2>3. readLen \in 1 .. Unread
      <3>1. readLen \in 1 .. BlockLen
        BY <1>a, <2>2, SMT
      <3>. QED BY <1>a, <2>2, <3>1, Parts
    <2>4. /\ Shift(Queue', Queue, Unread - readLen, readLen)
          /\ Unread' = Unread - readLen
      BY <2>1, <2>3, ConfirmsFront
    <2>5. /\ Taken = 0 /\ Taken' = readLen /\ Summed = Len(sum)
          /\ Summed' = Summed /\ Averaging /\ apc \in Holding
      BY <2>1 DEF Taken, Summed, Averaging, Working, Holding
    <2>6. Blocked(Queue', Unread - readLen, readLen, Rest(D, Summed, d),
                  d - Summed, Half, info)
      BY <1>a, <1>c, <1>d, <2>3, <2>4, <2>5, FrontTaken
    <2>7. SumOf(D, Summed)' /\ InputOf(D[Summed + 1])'
      BY <1>b, <1>c, <2>1, <2>5 DEF SumOf, InputOf
    <2>8. Trace(D, d)'
      BY <1>b, <1>c, <2>4, <2>5, <2>6, <2>7 DEF Trace
    <2>. QED BY <2>8 DEF Content
  <1>6. CASE ReadRest
    <2>1. /\ apc = "read_rest" /\ apc' = "confirm" /\ cb' = cb /\ sum' = sum
          /\ readLen' = BlockLen - readLen
          /\ input' = [k \in 0 .. BlockLen - 1 |->
                          IF k < readLen THEN input[k]
                          ELSE RawItems(readLen')[k - readLen]]
      BY <1>6 DEF ReadRest
    <2>2. /\ readLen \in 1 .. BlockLen - 1 /\ BlockLen - readLen =< Unread
          /\ cb.readerOffset[Averager] = 0
          /\ input \in [0 .. readLen - 1 -> Items]
      BY <2>1 DEF AInv, BlockThere
    <2>3. /\ BlockLen - (BlockLen - readLen) = readLen
          /\ BlockLen =< readLen + Unread
          /\ readLen' \in 1 .. Unread
          /\ readLen \in 0 .. BlockLen - 1
          /\ \A k \in 0 .. BlockLen - 1 :
                 /\ k < readLen => k \in 0 .. readLen - 1
                 /\ ~(k < readLen) =>
                        /\ k - readLen \in 0 .. readLen' - 1
                        /\ k - readLen + 1 \in 1 .. BlockLen - readLen
                        /\ readLen + (k - readLen + 1) - 1 = k
      BY <1>a, <2>1, <2>2, Parts, RestOfParts
    <2>4. /\ Taken = readLen /\ Taken' = Taken /\ Summed = Len(sum)
          /\ Summed' = Summed /\ Averaging /\ apc \in Holding
      BY <2>1, <2>3 DEF Taken, Summed, Averaging, Working, Holding
    <2>5. Summed + Half + 1 =< d /\ InputOf(D[Summed + 1]) /\ Summed < d
      BY <1>a, <1>c, <2>4, OneMore
    <2>6. Rest(D, Summed, d)[1] = D[Summed + 1]
      BY <1>d, <2>5, RestAgain
    <2>7. \A k \in 1 .. BlockLen - readLen :
              Queue[k] = ItemAt(info, Rest(D, Summed, d)[1], readLen + k - 1)
      <3>1. Blocked(Queue, Unread, readLen, Rest(D, Summed, d), d - Summed,
                    Half, info)
        BY <1>c, <2>4
      <3>. QED BY <1>a, <1>d, <2>3, <3>1, FirstBlock
    <2>8. \A k \in 0 .. readLen' - 1 : RawItems(readLen')[k] = Queue[k + 1]
      <3>1. cb.readerOffset[Averager] + readLen' =< DataLen
        BY <1>a, <2>1, <2>2, BlockLenTyped, SMT
      <3>. QED BY <2>3, <3>1, ReadsFront
    <2>9. ASSUME NEW k \in 0 .. BlockLen - 1
          PROVE  input'[k] = ItemAt(info, D[Summed + 1], k)
      <3>1. CASE k < readLen
        <4>1. k \in DOMAIN input
          BY <2>2, <2>3, <3>1
        <4>2. input[k] = ItemAt(info, D[Summed + 1], k)
          BY <2>5, <4>1 DEF InputOf
        <4>. QED BY <2>1, <3>1, <4>2
      <3>2. CASE ~(k < readLen)
        <4>1. /\ k - readLen \in 0 .. readLen' - 1
              /\ k - readLen + 1 \in 1 .. BlockLen - readLen
              /\ readLen + (k - readLen + 1) - 1 = k
          BY <2>3, <3>2
        <4>2. RawItems(readLen')[k - readLen] = Queue[k - readLen + 1]
          BY <2>8, <4>1
        <4>3. Queue[k - readLen + 1] = ItemAt(info, Rest(D, Summed, d)[1],
                                              readLen + (k - readLen + 1) - 1)
          BY <2>7, <4>1
        <4>. QED BY <2>1, <2>6, <3>2, <4>1, <4>2, <4>3
      <3>. QED BY <3>1, <3>2
    <2>10. DOMAIN input' = 0 .. BlockLen - 1
      BY <2>1
    <2>11. InputOf(D[Summed + 1])'
      BY <1>b, <2>4, <2>9, <2>10 DEF InputOf
    <2>. QED BY <1>e, <1>f, <2>1, <2>4, <2>5, <2>11
  <1>7. CASE Accumulate
    <2>1. /\ apc = "confirm" /\ apc' \in {"emit", "await"}
          /\ cb' = ConfirmRead(cb, Averager, readLen)
          /\ sum' = Append(sum, input)
      BY <1>7 DEF Accumulate
    <2>2. /\ readLen \in 1 .. BlockLen /\ readLen =< Unread /\ input \in Blocks
          /\ sum \in Seq(Blocks)
      BY <2>1 DEF AInv, BlockThere, AveragerTyped
    <2>3. /\ readLen \in 1 .. Unread /\ BlockLen - readLen \in Nat
          /\ BlockLen - readLen + readLen = BlockLen
      BY <1>a, <2>2, Parts
    <2>4. /\ Shift(Queue', Queue, Unread - readLen, readLen)
          /\ Unread' = Unread - readLen
      BY <2>1, <2>3, ConfirmsFront
    <2>5. /\ Len(sum') = Len(sum) + 1
          /\ sum'[Len(sum) + 1] = input
          /\ \A k \in 1 .. Len(sum) : sum'[k] = sum[k]
      BY <2>1, <2>2, AppendProperties
    <2>6. /\ Taken = BlockLen - readLen /\ Taken' = 0 /\ Summed = Len(sum)
          /\ Summed' = Summed + 1 /\ Averaging /\ apc \in Holding
          /\ apc' \notin Holding
      BY <2>1, <2>5 DEF Taken, Summed, Averaging, Working, Holding
    <2>7. /\ Summed + Half + 1 =< d /\ InputOf(D[Summed + 1])
          /\ Summed + 1 + Half =< d /\ Summed < d /\ 1 =< d - Summed
          /\ d - Summed - 1 = d - (Summed + 1)
          /\ \A k \in 1 .. Summed + 1 : k \in 1 .. Summed \/ k = Summed + 1
      BY <1>a, <1>c, <2>6, OneMore
    <2>8. Blocked(Queue', Unread - readLen, 0, Rest(D, Summed + 1, d),
                  d - (Summed + 1), Half, info)
      <3>1. Shift(Rest(D, Summed + 1, d), Rest(D, Summed, d), d - Summed - 1,
                  1)
        BY <1>d, <2>7, RestAgain
      <3>2. Blocked(Queue', Unread - readLen, 0, Rest(D, Summed + 1, d),
                    d - Summed - 1, Half, info)
        <4>1. Blocked(Queue, Unread, BlockLen - readLen, Rest(D, Summed, d),
                      d - Summed, Half, info)
          BY <1>c, <2>6
        <4>. QED BY <1>a, <1>d, <2>3, <2>4, <2>7, <3>1, <4>1, BlockTaken
      <3>. QED BY <2>7, <3>2
    <2>9. ASSUME NEW k \in 1 .. Summed + 1, NEW p \in 0 .. BlockLen - 1
          PROVE  sum'[k][p] = ItemAt(info, D[k], p)
      <3>1. CASE k \in 1 .. Summed
        BY <1>c, <2>5, <2>6, <3>1 DEF SumOf
      <3>2. CASE k = Summed + 1
        <4>1. p \in DOMAIN input
          BY <2>2 DEF Blocks
        <4>. QED BY <2>5, <2>6, <2>7, <3>2, <4>1 DEF InputOf
      <3>. QED BY <2>7, <3>1, <3>2
    <2>10. SumOf(D, Summed)'
      BY <1>b, <2>6, <2>9 DEF SumOf
    <2>11. Trace(D, d)'
      BY <1>b, <1>c, <2>4, <2>6, <2>7, <2>8, <2>10 DEF Trace
    <2>. QED BY <2>11 DEF Content
  <1>8. CASE EmitAverage
    <2>1. apc = "emit" /\ apc' = "await" /\ cb' = cb /\ sum' = <<>>
      BY <1>8 DEF EmitAverage
    <2>2. /\ Taken = 0 /\ Taken' = 0 /\ Summed = Len(sum) /\ Summed' = 0
          /\ Averaging /\ apc' \notin Holding
      BY <2>1 DEF Taken, Summed, Averaging, Working, Holding
    <2>3. Summed = Ratio
      BY <2>1, <2>2 DEF AInv, AveragerTyped
    <2>. QED BY <1>b, <1>f, <2>1, <2>2, <2>3, NextSum DEF CInv
  <1>9. CASE FinishAverages
    <2>1. apc = "finish" /\ apc' = "drain" /\ cb' = cb /\ sum' = sum
      BY <1>9 DEF FinishAverages
    <2>2. /\ Taken = 0 /\ Taken' = 0 /\ Summed = 0 /\ Summed' = 0
          /\ ~Averaging' /\ apc' \notin Holding
      BY <2>1 DEF Taken, Summed, Averaging, Working, Holding
    <2>. QED BY <1>e, <1>f, <2>1, <2>2
  <1>10. CASE DrainBlocks
    <2>1. /\ apc = "drain" /\ apc' \in {"drain", "wait"}
          /\ cb' = ConfirmRead(cb, Averager, Unread)
      BY <1>10 DEF DrainBlocks
    <2>2. wpc = "idle"
      BY <2>1 DEF CInv, Phases
    <2>3. /\ Taken' = 0 /\ Summed' = 0 /\ Half = 0
          /\ ~Averaging' /\ apc' \notin Holding
      BY <1>b, <2>1, <2>2 DEF Taken, Summed, Half, Averaging, Working, Holding
    <2>4. Unread' = 0
      BY <2>1, DrainTakesAll
    <2>5. /\ 0 - 0 = 0 /\ 0 + 0 =< 0 /\ 0 \in Nat
      BY SMT
    <2>6. Blocked(Queue', 0, 0, Rest(<<>>, 0, 0), 0, 0, info)
      BY NothingBlocked
    <2>7. Ordered(<<>>, 0, 0, ms)
      BY <1>a, OrderNothing
    <2>8. SumOf(<<>>, 0)'
      BY <1>d DEF SumOf
    <2>9. <<>> \in [1 .. 0 -> Nat]
      BY <1>d
    <2>10. Trace(<<>>, 0)'
      BY <1>b, <2>3, <2>4, <2>5, <2>6, <2>7, <2>8 DEF Trace
    <2>. QED BY <2>5, <2>9, <2>10 DEF Content
  <1>. QED BY <1>1, <1>2, <1>3, <1>4, <1>5, <1>6, <1>7, <1>8, <1>9, <1>10
           DEF AveragerStep

\* Both keep the order of their phases, and what is in place behind the head.
LEMMA WriterKeepsPhases ==
    ASSUME AInv, CInv, Writer
    PROVE  Phases' /\ CopiesPlaced'
  <1>a. UNCHANGED <<apc, recording, out>>
    BY DEF Writer, Announce, Check, WriteMs, CommitMs, WriteSamples,
           CommitSamples, End, averagerVars
  <1>b. Phases
    BY DEF CInv
  <1>c. ASSUME wpc # "idle", wpc' # "idle", info' = info,
               cb'.recordingActive = cb.recordingActive
        PROVE  Phases'
    BY <1>a, <1>b, <1>c DEF Phases
  <1>1. CASE Announce
    <2>1. /\ wpc' = "check" /\ apc = "wait"
          /\ cb' = [cb EXCEPT !.recordingActive = TRUE]
      BY <1>1 DEF Announce
    <2>2. cb'.recordingActive = TRUE
      BY <2>1, FlagKeepsQueue
    <2>. QED BY <1>a, <2>1, <2>2 DEF Phases, Working, CopiesPlaced
  <1>2. CASE Check
    <2>1. /\ cb' = cb /\ info' = info /\ wpc = "check"
          /\ wpc' \in {"check", "write_ms"}
      BY <1>2 DEF Check
    <2>. QED BY <1>c, <2>1 DEF CopiesPlaced
  <1>3. CASE WriteMs
    <2>1. /\ wpc = "write_ms" /\ wpc' = "commit_ms"
          /\ cb' = MemWrite(cb, [k \in {0} |-> Item(0)], 1)
          /\ UNCHANGED <<info, ms>>
      BY <1>3 DEF WriteMs
    <2>2. Placed(Counter)' /\ cb'.recordingActive = cb.recordingActive
      BY <2>1, MsCopied
    <2>. QED BY <1>c, <2>1, <2>2 DEF CopiesPlaced
  <1>4. CASE CommitMs
    <2>1. /\ wpc = "commit_ms" /\ wpc' = "write_samples" /\ info' = info
          /\ cb' = ConfirmWrite(cb, 1)
      BY <1>4 DEF CommitMs
    <2>2. cb'.recordingActive = cb.recordingActive
      BY <2>1, MsCommitted
    <2>. QED BY <1>c, <2>1, <2>2 DEF CopiesPlaced
  <1>5. CASE WriteSamples
    <2>1. /\ wpc = "write_samples" /\ wpc' = "commit_samples"
          /\ cb' = MemWrite(cb, [k \in 0 .. BlockLen - 2 |-> Item(k + 1)],
                            BlockLen - 1)
          /\ UNCHANGED <<info, ms>>
      BY <1>5 DEF WriteSamples
    <2>2. Placed(Samples)' /\ cb'.recordingActive = cb.recordingActive
      BY <2>1, SamplesCopied
    <2>. QED BY <1>c, <2>1, <2>2 DEF CopiesPlaced
  <1>6. CASE CommitSamples
    <2>1. /\ wpc = "commit_samples" /\ wpc' = "check" /\ info' = info
          /\ cb' = ConfirmWrite(cb, BlockLen - 1)
      BY <1>6 DEF CommitSamples
    <2>2. cb'.recordingActive = cb.recordingActive
      BY <2>1, SamplesCommitted
    <2>. QED BY <1>c, <2>1, <2>2 DEF CopiesPlaced
  <1>7. CASE End
    <2>1. /\ wpc' = "idle" /\ apc \notin {"wait", "announce"} /\ info' = info
          /\ cb' = [cb EXCEPT !.recordingActive = FALSE]
      BY <1>7 DEF End
    <2>2. cb'.recordingActive = FALSE
      BY <2>1, FlagKeepsQueue
    <2>. QED BY <1>a, <1>b, <2>1, <2>2 DEF Phases, CopiesPlaced
  <1>. QED BY <1>1, <1>2, <1>3, <1>4, <1>5, <1>6, <1>7 DEF Writer

LEMMA AveragerKeepsPhases ==
    ASSUME AInv, CInv, AveragerStep
    PROVE  Phases' /\ CopiesPlaced'
  <1>a. UNCHANGED <<wpc, info, ms>>
    BY DEF AveragerStep, WaitForRecording, AnnounceAverages, AwaitBlock,
           ReadBlock, ConfirmFirst, ReadRest, Accumulate, EmitAverage,
           FinishAverages, DrainBlocks, writerVars
  <1>b. Phases /\ CopiesPlaced
    BY DEF CInv
  <1>c. /\ cb'.data_ptr = cb.data_ptr
        /\ cb'.data_head_offset = cb.data_head_offset
        /\ cb'.recordingActive = cb.recordingActive
    <2>1. cb' = cb \/ \E len : cb' = ConfirmRead(cb, Averager, len)
      BY DEF AveragerStep, WaitForRecording, AnnounceAverages, AwaitBlock,
             ReadBlock, ConfirmFirst, ReadRest, Accumulate, EmitAverage,
             FinishAverages, DrainBlocks
    <2>. QED BY <2>1 DEF AInv, Sound, CircularBufferOf, ConfirmRead
  <1>d. CopiesPlaced'
    <2>1. Counter' = Counter /\ Samples' = Samples
      BY <1>a DEF Counter, Samples, Item
    <2>. QED BY <1>a, <1>b, <1>c, <2>1 DEF CopiesPlaced, Placed
  <1>. SUFFICES Phases'
    BY <1>d
  <1>e. ASSUME apc \in Working, apc' \in Working, out' = out
        PROVE  Phases'
    BY <1>a, <1>b, <1>c, <1>e DEF Phases, Working
  <1>1. CASE WaitForRecording
    BY <1>1, <1>a, <1>b, <1>c DEF WaitForRecording, Phases, Working
  <1>2. CASE AnnounceAverages
    BY <1>2, <1>a, <1>b, <1>c DEF AnnounceAverages, Phases, Working
  <1>3. CASE AwaitBlock
    <2>1. CASE apc' = "read"
      BY <1>3, <1>e, <2>1 DEF AwaitBlock, Working
    <2>2. CASE apc' # "read"
      <3>1. apc' = "finish" /\ ~cb.recordingActive
        BY <1>3, <2>2 DEF AwaitBlock
      <3>. QED BY <1>a, <1>b, <1>c, <3>1 DEF Phases, Working
    <2>. QED BY <2>1, <2>2
  <1>4. CASE ReadBlock
    BY <1>4, <1>e DEF ReadBlock, Working
  <1>5. CASE ConfirmFirst
    BY <1>5, <1>e DEF ConfirmFirst, Working
  <1>6. CASE ReadRest
    BY <1>6, <1>e DEF ReadRest, Working
  <1>7. CASE Accumulate
    BY <1>7, <1>e DEF Accumulate, Working
  <1>8. CASE EmitAverage
    BY <1>8, <1>e DEF EmitAverage, Working
  <1>9. CASE FinishAverages
    BY <1>9, <1>a, <1>b, <1>c DEF FinishAverages, Phases, Working
  <1>10. CASE DrainBlocks
    <2>1. /\ apc = "drain" /\ apc' \in {"drain", "wait"}
          /\ cb' = ConfirmRead(cb, Averager, Unread)
      BY <1>10 DEF DrainBlocks
    <2>2. Unread' = 0
      BY <2>1, DrainTakesAll
    <2>. QED BY <1>a, <1>b, <1>c, <2>1, <2>2 DEF Phases, Working
  <1>. QED BY <1>1, <1>2, <1>3, <1>4, <1>5, <1>6, <1>7, <1>8, <1>9, <1>10
           DEF AveragerStep

\* There is nothing in a fresh buffer.
LEMMA InitCInv == Init => CInv
  <1>. SUFFICES ASSUME Init
                PROVE  CInv
    OBVIOUS
  <1>1. /\ wpc = "idle" /\ apc = "wait" /\ ms = 0
        /\ cb = Register(EmptyBuffer)
    BY DEF Init
  <1>2. Unread = 0 /\ ~cb.recordingActive
    <2>1. Unread = 0
      <3>1. ZeroByte \in Items
        BY BufferAssumption, BlockLenTyped, SMT DEF Items
      <3>2. /\ Sound(EmptyBuffer, Items) /\ EmptyBuffer.reader_cnt = 0
            /\ 0 < ReaderMaxCap
        <4>1. 0 < ReaderMaxCap
          BY BlockLenTyped, SMT
        <4>. QED BY <3>1, <4>1, EmptyBufferSound DEF EmptyBuffer
      <3>3. AvailableData(Register(EmptyBuffer), 0) = 0
        BY <3>2, RegisterAmounts
      <3>. QED BY <1>1, <3>3 DEF Unread, Averager
    <2>2. ~cb.recordingActive
      BY <1>1 DEF Register, EmptyBuffer
    <2>. QED BY <2>1, <2>2
  <1>3. Phases /\ CopiesPlaced
    BY <1>1, <1>2 DEF Phases, CopiesPlaced, Working
  <1>4. Taken = 0 /\ Half = 0 /\ Summed = 0 /\ apc \notin Holding /\ ~Averaging
    BY <1>1 DEF Taken, Half, Summed, Holding, Averaging, Working
  <1>5. /\ 0 - 0 = 0 /\ 0 + 0 =< 0 /\ 0 \in Nat /\ 1 .. 0 = {}
    BY SMT
  <1>6. Blocked(Queue, 0, 0, Rest(<<>>, 0, 0), 0, 0, info)
    BY NothingBlocked
  <1>7. Ordered(<<>>, 0, 0, 0) /\ SumOf(<<>>, 0) /\ <<>> \in [1 .. 0 -> Nat]
    BY <1>5, OrderNothing DEF SumOf
  <1>8. Trace(<<>>, 0)
    BY <1>1, <1>2, <1>4, <1>5, <1>6, <1>7 DEF Trace
  <1>. QED BY <1>3, <1>5, <1>7, <1>8 DEF CInv, Content

LEMMA AlwaysCInv == Spec => [](AInv /\ CInv)
  <1>1. ASSUME AInv, CInv, [Next]_vars
        PROVE  CInv'
    <2>1. CASE Writer
      BY <1>1, <2>1, WriterKeepsContent, WriterKeepsPhases DEF CInv
    <2>2. CASE AveragerStep
      BY <1>1, <2>2, AveragerKeepsContent, AveragerKeepsPhases DEF CInv
    <2>3. CASE Poll \/ UNCHANGED vars
      <3>1. UNCHANGED <<cb, writerVars, averagerVars>>
        BY <2>3 DEF Poll, vars
      <3>2. UNCHANGED <<Queue, Unread, Taken, Half, Summed, Averaging>>
        BY <3>1 DEF Queue, Unread, Taken, Half, Summed, Averaging, writerVars,
                    averagerVars
      <3>3. Content'
        <4>1. PICK d \in Nat : \E D \in [1 .. d -> Nat] : Trace(D, d)
          BY <1>1 DEF CInv, Content
        <4>2. PICK D \in [1 .. d -> Nat] : Trace(D, d)
          BY <4>1
        <4>3. Trace(D, d)'
          BY <3>1, <3>2, <4>2 DEF Trace, SumOf, InputOf, writerVars,
                                  averagerVars
        <4>. QED BY <4>3 DEF Content
      <3>4. Phases'
        BY <1>1, <3>1, <3>2 DEF CInv, Phases, writerVars, averagerVars
      <3>5. CopiesPlaced'
        BY <1>1, <3>1 DEF CInv, CopiesPlaced, Placed, Counter, Samples, Item,
                          writerVars
      <3>. QED BY <3>3, <3>4, <3>5 DEF CInv
    <2>. QED BY <1>1, <2>1, <2>2, <2>3 DEF Next
  <1>. QED BY <1>1, InitCInv, AlwaysAInv, PTL DEF Spec

\* A multiple of the ratio.
LEMMA Multiple ==
    ASSUME NEW n \in Nat \ {0}, NEW z \in Nat, NEW m \in Int, m = n * z
    PROVE  m % n = 0
  <1>1. 0 \in 0 .. n - 1 /\ n * z + 0 = n * z
    BY SMT
  <1>2. \A r \in 0 .. n - 1 : (n * z + r) % n = r
    BY SMT
  <1>. QED BY <1>1, <1>2

\* What dataAveragerThread averages are whole blocks of the recording that the
\* output announces, in their order, and without drops they are the next
\* `ratio' milliseconds counted from its start, although blocks are committed
\* in two steps, copied in two parts and a recording ends at any point.
THEOREM ProcessedAverages == Spec => []AveragesOfTheRecording
  <1>1. ASSUME AInv, CInv
        PROVE  AveragesOfTheRecording
    <2>. SUFFICES ASSUME apc = "emit"
                  PROVE  AveragesOfTheRecording
      BY DEF AveragesOfTheRecording
    <2>. PICK d \in Nat : \E D \in [1 .. d -> Nat] : Trace(D, d)
      BY <1>1 DEF CInv, Content
    <2>. PICK D \in [1 .. d -> Nat] : Trace(D, d)
      OBVIOUS
    <2>1. /\ Half \in 0 .. 1 /\ ms \in Nat /\ Ratio \in Nat \ {0}
          /\ 0 \in 0 .. BlockLen - 1
      BY <1>1, Counts, BlockLenTyped, SMT
    <2>2. /\ Summed = Ratio /\ out = [active |-> TRUE, recording |-> info]
          /\ Averaging
      <3>1. Len(sum) = Ratio /\ Phases
        BY <1>1 DEF AInv, AveragerTyped, CInv
      <3>. QED BY <3>1 DEF Phases, Summed, Working, Averaging
    <2>3. /\ Ratio + Half =< d /\ Ordered(D, d, Half, ms)
          /\ ~dropped => Gapless(D, d, Half, ms)
          /\ SumOf(D, Ratio)
      BY <2>2 DEF Trace
    <2>4. /\ \A k \in 1 .. Ratio : k \in 1 .. d
          /\ \A k \in 2 .. Ratio :
                 /\ k - 1 \in 1 .. Ratio /\ k \in 1 .. Ratio
                 /\ k - 1 \in 1 .. d /\ k \in 1 .. d /\ k - 1 < k
          /\ 1 \in 1 .. Ratio /\ Ratio \in 1 .. Ratio
      BY <2>1, <2>3, SMT
    <2>5. ASSUME NEW k \in 1 .. Ratio, NEW pos \in 0 .. BlockLen - 1
          PROVE  sum[k][pos] = [rec |-> info, ms |-> D[k], pos |-> pos]
      BY <2>3 DEF SumOf, ItemAt
    <2>6. ASSUME NEW k \in 1 .. Ratio
          PROVE  /\ sum[k][0] = [rec |-> info, ms |-> D[k], pos |-> 0]
                 /\ sum[k][0].rec = info /\ sum[k][0].ms = D[k]
      <3>1. sum[k][0] = [rec |-> info, ms |-> D[k], pos |-> 0]
        BY <2>1, <2>5
      <3>. QED BY <3>1
    <2>7. ASSUME NEW k \in 1 .. Ratio, NEW pos \in 0 .. BlockLen - 1
          PROVE  sum[k][pos] = [sum[k][0] EXCEPT !.pos = pos]
      <3>1. /\ sum[k][0] = [rec |-> info, ms |-> D[k], pos |-> 0]
            /\ sum[k][pos] = [rec |-> info, ms |-> D[k], pos |-> pos]
        BY <2>5, <2>6
      <3>2. [[rec |-> info, ms |-> D[k], pos |-> 0] EXCEPT !.pos = pos]
                = [rec |-> info, ms |-> D[k], pos |-> pos]
        OBVIOUS
      <3>. QED BY <3>1, <3>2
    <2>8. ASSUME NEW k \in 2 .. Ratio
          PROVE  sum[k - 1][0].ms < sum[k][0].ms
      BY <2>3, <2>4, <2>6 DEF Ordered
    <2>9. ASSUME ~dropped
          PROVE  /\ sum[1][0].ms % Ratio = 0
                 /\ sum[Ratio][0].ms = sum[1][0].ms + Ratio - 1
      <3>1. /\ \A i \in 1 .. d : D[i] = ms - (d - Half) + i - 1
            /\ \E z \in Nat : ms - (d - Half) = Ratio * z
        BY <2>3, <2>9 DEF Gapless
      <3>2. PICK z \in Nat : ms - (d - Half) = Ratio * z
        BY <3>1
      <3>3. PICK m \in Int : m = ms - (d - Half)
        BY <2>1, SMT
      <3>4. D[1] = m + 1 - 1 /\ D[Ratio] = m + Ratio - 1
        BY <2>4, <3>1, <3>3
      <3>5. D[1] = m /\ D[Ratio] = D[1] + Ratio - 1
        BY <2>1, <3>4, SMT
      <3>6. m % Ratio = 0
        BY <2>1, <3>2, <3>3, Multiple
      <3>. QED BY <2>4, <2>6, <3>5, <3>6
    <2>. QED BY <2>2, <2>6, <2>7, <2>8, <2>9 DEF AveragesOfTheRecording
  <1>. QED BY <1>1, AlwaysCInv, PTL

=============================================================================
