-------------------------- MODULE ProcessedSession --------------------------
(***************************************************************************)
(* The session between the data processor and what comes after it          *)
(* (client_behaviours.c; buffer 4 of clientconfig.json):                   *)
(*                                                                         *)
(*   the writer    the end of dataProcessorThread: announces a recording   *)
(*                 and writes blocks, each in two commits, the millisecond *)
(*                 counter and then the samples                            *)
(*   the averager  dataAveragerThread: takes whole blocks, and puts the    *)
(*                 average of each `ratio' of them into the next buffer    *)
(*   the archiver  imageArchiverThread: polls the flag once a second and   *)
(*                 keeps an image of the start and the end of a recording  *)
(*                 and of every hour                                       *)
(*                                                                         *)
(* A block is BlockLen items: its counter and BlockLen - 1 samples.  A     *)
(* critical section is one step, a wait one with the critical section it   *)
(* ends in; the copies without the mutex are steps of their own.           *)
(***************************************************************************)
EXTENDS CircularBuffer, Sequences, FiniteSets

CONSTANTS BlockLen,       \* PROCESSED_BYTES_PER_MS
          Ratio,          \* ratio
          HourPolls,      \* the 3600 seconds between two images
          MaxRecordings,  \* BOUND on recordings
          MaxMs           \* BOUND on the milliseconds of one

ASSUME BlockAssumption ==
    /\ BlockLen \in Nat /\ 2 <= BlockLen /\ BlockLen < DataLen
    /\ {Ratio, HourPolls, MaxRecordings} \subseteq Nat \ {0}
    /\ MaxMs \in Nat

\* There is a slot for the averager, and a fresh buffer holds zeros.
ASSUME BufferAssumption ==
    /\ 1 <= ReaderMaxCap
    /\ ZeroByte = [rec |-> 0, ms |-> 0, pos |-> 0]

VARIABLES
    cb,            \* the buffer; the averager is its only reader
    info,          \* the id in its recordingInfo
    wpc,           \* of the writer
    ms,            \* msFromStart
    dropped,       \* history: blocks of this recording have been dropped
    apc,           \* of the averager
    readLen,
    input,         \* inputSecond: the items of a block
    sum,           \* what averagedData is the sum of: the blocks, in order
    recording,     \* copied from the session
    out,           \* the next session's flag and recordingInfo
    wasRecording, currentRecInfo, lastHourlySave, image
                   \* of the archiver; lastHourlySave in polls from now, image
                   \* is the last one kept

writerVars == <<info, wpc, ms, dropped>>
averagerVars == <<apc, readLen, input, sum, recording, out>>
archiverVars == <<wasRecording, currentRecInfo, lastHourlySave, image>>
vars == <<cb, writerVars, averagerVars, archiverVars>>

Averager == 0   \* its reader slot
Item(k) == [rec |-> info, ms |-> ms, pos |-> k]

-----------------------------------------------------------------------------
(* dataProcessorThread. *)

\* The next recording comes after minutes of aiming: everyone is done with the
\* one before.
Announce ==
    /\ wpc = "idle"
    /\ info < MaxRecordings
    /\ apc = "wait" /\ ~wasRecording
    /\ cb' = [cb EXCEPT !.recordingActive = TRUE]
    /\ info' = info + 1
    /\ ms' = 0 /\ dropped' = FALSE
    /\ wpc' = "check"
    /\ UNCHANGED <<averagerVars, archiverVars>>

\* Mutant: there is space for the counter, but perhaps not for the samples.
CheckCounterOnly ==
    /\ wpc = "check" /\ ms < MaxMs
    /\ IF WriterSpace(cb) > 1
       THEN wpc' = "write_ms" /\ UNCHANGED <<ms, dropped>>
       ELSE ms' = ms + 1 /\ dropped' = TRUE /\ UNCHANGED wpc
    /\ UNCHANGED <<cb, info, averagerVars, archiverVars>>

\* A block is dropped if there is no space for it and an item more.
Check ==
    /\ wpc = "check" /\ ms < MaxMs
    /\ IF WriterSpace(cb) > BlockLen
       THEN wpc' = "write_ms" /\ UNCHANGED <<ms, dropped>>
       ELSE ms' = ms + 1 /\ dropped' = TRUE /\ UNCHANGED wpc
    /\ UNCHANGED <<cb, info, averagerVars, archiverVars>>

WriteMs ==
    /\ wpc = "write_ms"
    /\ cb' = MemWrite(cb, [k \in {0} |-> Item(0)], 1)
    /\ wpc' = "commit_ms"
    /\ UNCHANGED <<info, ms, dropped, averagerVars, archiverVars>>

CommitMs ==
    /\ wpc = "commit_ms"
    /\ cb' = ConfirmWrite(cb, 1)
    /\ wpc' = "write_samples"
    /\ UNCHANGED <<info, ms, dropped, averagerVars, archiverVars>>

WriteSamples ==
    /\ wpc = "write_samples"
    /\ cb' = MemWrite(cb, [k \in 0 .. BlockLen - 2 |-> Item(k + 1)], BlockLen - 1)
    /\ wpc' = "commit_samples"
    /\ UNCHANGED <<info, ms, dropped, averagerVars, archiverVars>>

CommitSamples ==
    /\ wpc = "commit_samples"
    /\ cb' = ConfirmWrite(cb, BlockLen - 1)
    /\ ms' = ms + 1
    /\ wpc' = "check"
    /\ UNCHANGED <<info, dropped, averagerVars, archiverVars>>

\* A recording lasts for longer than the archiver's second and the averager's
\* start.
End ==
    /\ wpc = "check"
    /\ apc \notin {"wait", "announce"} /\ wasRecording
    /\ cb' = [cb EXCEPT !.recordingActive = FALSE]
    /\ wpc' = "idle"
    /\ UNCHANGED <<info, ms, dropped, averagerVars, archiverVars>>

-----------------------------------------------------------------------------
(* dataAveragerThread. *)

Unread == AvailableData(cb, Averager)
RawItems(len) == [k \in 0 .. len - 1 |->
                     cb.data_ptr[cb.readerOffset[Averager] + k]]

WaitForRecording ==
    /\ apc = "wait"
    /\ cb.recordingActive
    /\ recording' = info
    /\ apc' = "announce"
    /\ UNCHANGED <<cb, writerVars, readLen, input, sum, out, archiverVars>>

AnnounceAverages ==
    /\ apc = "announce"
    /\ out' = [active |-> TRUE, recording |-> recording]
    /\ sum' = <<>>
    /\ apc' = "await"
    /\ UNCHANGED <<cb, writerVars, readLen, input, recording, archiverVars>>

\* Mutant: the end of the recording is not looked at while waiting.
AwaitBlockOnly ==
    /\ apc = "await"
    /\ Unread >= BlockLen
    /\ apc' = "read"
    /\ UNCHANGED <<cb, writerVars, readLen, input, sum, recording, out,
                   archiverVars>>

\* Wait for a block; at the end of the recording, stop when none is left.
AwaitBlock ==
    /\ apc = "await"
    /\ Unread >= BlockLen \/ ~cb.recordingActive
    /\ apc' = IF Unread >= BlockLen THEN "read" ELSE "finish"
    /\ UNCHANGED <<cb, writerVars, readLen, input, sum, recording, out,
                   archiverVars>>

\* circularBufferReadData and memcpy, both without the mutex.
ReadBlock ==
    /\ apc = "read"
    /\ readLen' = ReadData(cb, Averager, BlockLen)
    /\ input' = RawItems(readLen')
    /\ apc' = IF readLen' < BlockLen THEN "confirm_first" ELSE "confirm"
    /\ UNCHANGED <<cb, writerVars, sum, recording, out, archiverVars>>

\* A split read: confirm the first part, then read the rest.
ConfirmFirst ==
    /\ apc = "confirm_first"
    /\ cb' = ConfirmRead(cb, Averager, readLen)
    /\ apc' = "read_rest"
    /\ UNCHANGED <<writerVars, readLen, input, sum, recording, out, archiverVars>>

\* Mutant: the rest is copied to the start of the block.
ReadRestInFront ==
    /\ apc = "read_rest"
    /\ readLen' = BlockLen - readLen
    /\ input' = [k \in 0 .. BlockLen - 1 |->
                    IF k < readLen' THEN RawItems(readLen')[k] ELSE input[0]]
    /\ apc' = "confirm"
    /\ UNCHANGED <<cb, writerVars, sum, recording, out, archiverVars>>

ReadRest ==
    /\ apc = "read_rest"
    /\ readLen' = BlockLen - readLen
    /\ input' = [k \in 0 .. BlockLen - 1 |->
                    IF k < readLen THEN input[k]
                                   ELSE RawItems(readLen')[k - readLen]]
    /\ apc' = "confirm"
    /\ UNCHANGED <<cb, writerVars, sum, recording, out, archiverVars>>

\* Confirm, and add the block; its first item is its millisecond.
Accumulate ==
    /\ apc = "confirm"
    /\ cb' = ConfirmRead(cb, Averager, readLen)
    /\ sum' = Append(sum, input)
    /\ apc' = IF Len(sum') = Ratio THEN "emit" ELSE "await"
    /\ UNCHANGED <<writerVars, readLen, input, recording, out, archiverVars>>

\* The average goes to the output, or is dropped for want of space there; then
\* the next sum begins.  (The output takes it in two commits, like this
\* session its blocks.)
EmitAverage ==
    /\ apc = "emit"
    /\ sum' = <<>>
    /\ apc' = "await"
    /\ UNCHANGED <<cb, writerVars, readLen, input, recording, out, archiverVars>>

FinishAverages ==
    /\ apc = "finish"
    /\ out' = [out EXCEPT !.active = FALSE]
    /\ apc' = "drain"
    /\ UNCHANGED <<cb, writerVars, readLen, input, sum, recording, archiverVars>>

DrainBlocks ==
    /\ apc = "drain"
    /\ cb' = ConfirmRead(cb, Averager, Unread)
    /\ apc' = IF cb.recordingActive THEN "drain" ELSE "wait"
    /\ UNCHANGED <<writerVars, readLen, input, sum, recording, out, archiverVars>>

-----------------------------------------------------------------------------
(* imageArchiverThread. *)

KeepImage(kind) == image' = [kind |-> kind, of |-> currentRecInfo']

\* Mutant: the item is copied when the recording is over.
PollLate ==
    /\ currentRecInfo' = IF cb.recordingActive THEN currentRecInfo ELSE info
    /\ \/ /\ cb.recordingActive /\ ~wasRecording
          /\ KeepImage("start") /\ lastHourlySave' = 0
       \/ /\ ~cb.recordingActive /\ wasRecording
          /\ KeepImage("end") /\ UNCHANGED lastHourlySave
       \/ /\ cb.recordingActive /\ wasRecording
          /\ IF lastHourlySave + 1 >= HourPolls
             THEN KeepImage("hour") /\ lastHourlySave' = 0
             ELSE lastHourlySave' = lastHourlySave + 1 /\ UNCHANGED image
       \/ /\ ~cb.recordingActive /\ ~wasRecording
          /\ UNCHANGED <<lastHourlySave, image>>
    /\ wasRecording' = cb.recordingActive
    /\ UNCHANGED <<cb, writerVars, averagerVars>>

\* Once a second: sample the flag, copy the item if it is set, and keep an
\* image if that is due.
Poll ==
    /\ currentRecInfo' = IF cb.recordingActive THEN info ELSE currentRecInfo
    /\ \/ /\ cb.recordingActive /\ ~wasRecording
          /\ KeepImage("start") /\ lastHourlySave' = 0
       \/ /\ ~cb.recordingActive /\ wasRecording
          /\ KeepImage("end") /\ UNCHANGED lastHourlySave
       \/ /\ cb.recordingActive /\ wasRecording
          /\ IF lastHourlySave + 1 >= HourPolls
             THEN KeepImage("hour") /\ lastHourlySave' = 0
             ELSE lastHourlySave' = lastHourlySave + 1 /\ UNCHANGED image
       \/ /\ ~cb.recordingActive /\ ~wasRecording
          /\ UNCHANGED <<lastHourlySave, image>>
    /\ wasRecording' = cb.recordingActive
    /\ UNCHANGED <<cb, writerVars, averagerVars>>

-----------------------------------------------------------------------------
(* The specification. *)

Init ==
    /\ cb = Register(EmptyBuffer)
    /\ info = 0 /\ wpc = "idle" /\ ms = 0 /\ dropped = FALSE
    /\ apc = "wait" /\ readLen = 0 /\ sum = <<>> /\ recording = 0
    /\ input = [k \in 0 .. BlockLen - 1 |-> ZeroByte]
    /\ out = [active |-> FALSE, recording |-> 0]
    /\ wasRecording = FALSE /\ currentRecInfo = 0 /\ lastHourlySave = 0
    /\ image = [kind |-> "none", of |-> 0]

Writer == \/ Announce \/ Check \/ WriteMs \/ CommitMs
          \/ WriteSamples \/ CommitSamples \/ End

AveragerStep ==
    \/ WaitForRecording \/ AnnounceAverages \/ AwaitBlock \/ ReadBlock
    \/ ConfirmFirst \/ ReadRest \/ Accumulate \/ EmitAverage
    \/ FinishAverages \/ DrainBlocks

Next == Writer \/ AveragerStep \/ Poll

Spec == Init /\ [][Next]_vars

\* The averager runs on when it can, and the archiver polls.
FairSpec == Spec /\ WF_vars(AveragerStep) /\ WF_vars(Poll)

-----------------------------------------------------------------------------
(* Properties. *)

Items == [rec : 0 .. MaxRecordings, ms : 0 .. MaxMs, pos : 0 .. BlockLen - 1]

\* The types of the session and of the locals of its threads.
TypeOK ==
    /\ cb \in CircularBufferOf(Items)
    /\ info \in 0 .. MaxRecordings /\ ms \in 0 .. MaxMs /\ dropped \in BOOLEAN
    /\ wpc \in {"idle", "check", "write_ms", "commit_ms", "write_samples",
                "commit_samples"}
    /\ apc \in {"wait", "announce", "await", "read", "confirm_first",
                "read_rest", "confirm", "emit", "finish", "drain"}
    /\ readLen \in 0 .. BlockLen
    /\ \E n \in 1 .. BlockLen : input \in [0 .. n - 1 -> Items]
    /\ Len(sum) <= Ratio
    /\ recording \in 0 .. MaxRecordings
    /\ out \in [active : BOOLEAN, recording : 0 .. MaxRecordings]
    /\ wasRecording \in BOOLEAN /\ currentRecInfo \in 0 .. MaxRecordings
    /\ lastHourlySave \in 0 .. HourPolls
    /\ image \in [kind : {"none", "start", "hour", "end"}, of : 0 .. MaxRecordings]

\* What the writer is writing without the mutex, and what the averager is
\* about to read without it: the read happens in one step, so the two are under
\* way at the same time exactly when both steps are enabled.
Written == CASE wpc \in {"write_ms", "commit_ms"} -> WriteOffsets(cb, 1)
             [] wpc \in {"write_samples", "commit_samples"} ->
                    WriteOffsets(cb, BlockLen - 1)
             [] OTHER -> {}
Read == CASE apc = "read" ->
               ReadOffsets(cb, Averager, ReadData(cb, Averager, BlockLen))
          [] apc = "read_rest" -> ReadOffsets(cb, Averager, BlockLen - readLen)
          [] OTHER -> {}

\* The averager reads and the processor writes without the mutex, but never the
\* same bytes, also in the second half of a split read, between two commits.
NoTornBlock == Written \cap Read = {}

\* What the averager takes for a block is one, from its counter on, although its
\* counter and its samples are committed one after the other and recordings end
\* at any point.  An average is over such blocks of one recording, the one the
\* output announces, in their order; without drops they are the next `ratio'
\* milliseconds, counted from the start of the recording.
AveragesOfTheRecording ==
    apc = "emit" =>
        /\ \A k \in 1 .. Ratio :
              /\ \A pos \in 0 .. BlockLen - 1 :
                    sum[k][pos] = [sum[k][0] EXCEPT !.pos = pos]
              /\ sum[k][0].rec = out.recording /\ out.active
        /\ \A k \in 2 .. Ratio : sum[k - 1][0].ms < sum[k][0].ms
        /\ ~dropped => /\ sum[1][0].ms % Ratio = 0
                       /\ sum[Ratio][0].ms = sum[1][0].ms + Ratio - 1

\* Images come in pairs: an "end" is of the recording whose "start" was kept
\* last, and nothing else comes between two pairs.
ImagesInPairs ==
    [][image' # image =>
         IF image'.kind = "start"
         THEN image.kind \in {"none", "end"} /\ image'.of = info
         ELSE image.kind \in {"start", "hour"} /\ image'.of = image.of]_vars

\* The end of a recording reaches the next session.
AveragesWindDown == ~cb.recordingActive ~> (~out.active \/ cb.recordingActive)

=============================================================================
