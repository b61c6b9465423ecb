--------------------------- MODULE BufferSession ---------------------------
(***************************************************************************)
(* One `BufferSession' of data_transfer/server.h at work: the ring buffer, *)
(* its mutex buffer_lock, its condition variable data_available, and the   *)
(* threads that share them:                                                *)
(*                                                                         *)
(*   Main           server.c: copies the current plan item into            *)
(*                  recordingInfo and flips recordingActive                *)
(*   Producer       server_producer.c: the dummy or the FTDI producer      *)
(*   FileConsumers  file_consumer.c: writes the stream into one file per   *)
(*                  recording                                              *)
(*   NetConsumers   server_network_consumer.c: sends the stream to the     *)
(*                  client that is connected, as START DATA* END           *)
(*                                                                         *)
(* A critical section is two steps: Acquire, and one action that runs the  *)
(* code up to the unlock.  A thread whose pc is in CriticalLabels is       *)
(* blocked on the mutex until it is in `holders'.  The copies into and out *)
(* of the buffer, which the code makes without the mutex, are steps of     *)
(* their own: a thread at "write", "copy" or "drain_copy" is copying.      *)
(* That the rest of a critical section is one step is sound while the      *)
(* mutex works; of behaviours in which a failed drain has released it for  *)
(* another thread ("send_drain" in Faults), only what does not depend on   *)
(* shared data is claimed: MutualExclusion and DataFollowsStart.           *)
(***************************************************************************)
EXTENDS CircularBuffer, Sequences

CONSTANTS Main, Producer, FileConsumers, NetConsumers,
          Recordings,   \* ids of plan items; 0 is the id of emptyItem
          Recorded,     \* those whose `record' field is set
          WriteSizes,   \* what one producer iteration may deliver
          Ftdi,         \* TRUE: run_ftdi_producer, FALSE: run_dummy_producer
          ReadSize,     \* FILE_DEFAULT_READ_SIZE, DATA_PACKET_DEFAULT_SIZE
          DrainChunk,   \* the 1000 of both drain loops
          Faults,       \* which calls may fail: "ftdi" those to the device,
                        \* "bind" those that set up the listening socket,
                        \* "send", and "send_drain" the one of the drain loop
          SlowFlips     \* TRUE: consumers react to a flip before the next

Consumers == FileConsumers \cup NetConsumers
Threads == {Main, Producer} \cup Consumers

NoRecording == 0
Closed == -2        \* no file is open, no transmission begun

ASSUME ThreadsAssumption ==
    /\ Main # Producer
    /\ {Main, Producer} \cap Consumers = {}
    /\ FileConsumers \cap NetConsumers = {}

ASSUME RecordingsAssumption ==
    /\ {NoRecording, Closed} \cap Recordings = {}
    /\ Recorded \subseteq Recordings

ASSUME SizesAssumption ==
    /\ WriteSizes \subseteq 0 .. DataLen - 1
    /\ ReadSize \in Nat \ {0}
    /\ DrainChunk \in Nat \ {0}

ASSUME FlagsAssumption ==
    /\ Ftdi \in BOOLEAN
    /\ SlowFlips \in BOOLEAN
    /\ Faults \subseteq {"ftdi", "bind", "send", "send_drain"}

VARIABLES
    cb,                     \* buffer
    recordingInfo,          \* the id in recordingInfo
    currentRecording,       \* the id in server.c's currentRecording
    locked,                 \* the mutex word of buffer_lock
    holders,                \* threads between their lock and their unlock
    waiting,                \* threads in pthread_cond_wait
    pc,
    wchunk,                 \* the producer's dataBuffer and bytes_read
    consumerId, threadRecordingActive, bufferRecordingActive, readLen,
    out                     \* per consumer: recording of the open file, or
                            \* id in the START sent; Closed if none

mutexVars == <<locked, holders, waiting>>
localVars == <<consumerId, threadRecordingActive, bufferRecordingActive,
               readLen, out>>
mainVars == <<recordingInfo, currentRecording>>
vars == <<cb, mainVars, mutexVars, pc, wchunk, localVars>>

CriticalLabels == {"flip", "produce", "commit", "port", "register", "poll",
                   "start", "data", "confirm", "drain", "drain_confirm"}
UnconnectedLabels == {"port", "listen", "accept", "stopped"}
Labels == CriticalLabels \cup UnconnectedLabels \cup
    {"schedule", "open", "write", "inactive", "send_start",
     "copy", "drain_copy", "drain_failed", "send_end"}

\* A byte is known by the recording it was acquired for and its place in the
\* block the producer got from the device.
Bytes == [rec : Recordings \cup {NoRecording}, pos : Offsets]
NoChunk == [rec |-> NoRecording, len |-> 0]
Chunk(rec, len) == [k \in 0 .. len - 1 |-> [rec |-> rec, pos |-> k]]

\* memset() with '0': bytes of no recording.
ASSUME ZeroByteAssumption == ZeroByte \in Bytes

-----------------------------------------------------------------------------
(* The mutex and the condition variable. *)

Goto(t, label) == pc' = [pc EXCEPT ![t] = label]

InCritical(t, label) == pc[t] = label /\ t \in holders

\* pthread_mutex_unlock: the word is cleared whoever calls it, which is what
\* an unlock by a thread that does not hold a default mutex does.
Unlock(t) ==
    /\ locked' = FALSE
    /\ holders' = holders \ {t}

Release(t) == Unlock(t) /\ UNCHANGED waiting

ReleaseAndBroadcast(t) == Unlock(t) /\ waiting' = {}

CondWait(t) == Unlock(t) /\ waiting' = waiting \cup {t}

\* A network consumer has no client: it is not listening yet, waits for one, or
\* could not listen.
Unconnected(c) == pc[c] \in UnconnectedLabels

\* c has acted on the last flip, or has no connection.
Settled(c) ==
    \/ Unconnected(c)
    \/ /\ pc[c] # "register"
       /\ threadRecordingActive[c] = cb.recordingActive
       /\ bufferRecordingActive[c] = cb.recordingActive

\* The one timing assumption.  A consumer polls every 10 ms (file) or 5 s
\* (network), planned flips are more than 10 s apart, and for a drain there are
\* the ten minutes of aiming between an end and the next start.
FlipDue(t) == SlowFlips /\ t = Main => \A c \in Consumers : Settled(c)

\* pthread_mutex_lock, and the way back out of pthread_cond_wait.
Acquire(t) ==
    /\ pc[t] \in CriticalLabels
    /\ t \notin holders
    /\ t \notin waiting
    /\ FlipDue(t)
    /\ ~locked
    /\ locked' = TRUE
    /\ holders' = holders \cup {t}
    /\ UNCHANGED <<cb, mainVars, waiting, pc, wchunk, localVars>>

-----------------------------------------------------------------------------
(* Main: the scheduler, seen from a session.  What it decides, and when, is *)
(* arbitrary but for FlipDue.                                               *)

\* The scheduler decides to start recording r, or (r = NoRecording) to end or
\* cancel.  A start may follow a start: a cancelled plan is only noticed when
\* no other plan item is due.
Schedule(r) ==
    /\ pc[Main] = "schedule"
    /\ r # currentRecording
    /\ SlowFlips => NoRecording \in {r, currentRecording}
    /\ currentRecording' = r
    /\ Goto(Main, "flip")
    /\ UNCHANGED <<cb, recordingInfo, mutexVars, wchunk, localVars>>

\* There is no broadcast here.
Flip ==
    /\ InCritical(Main, "flip")
    /\ recordingInfo' = currentRecording
    /\ cb' = [cb EXCEPT !.recordingActive = (currentRecording # NoRecording)]
    /\ Release(Main)
    /\ Goto(Main, "schedule")
    /\ UNCHANGED <<currentRecording, wchunk, localVars>>

-----------------------------------------------------------------------------
(* The producer: run_dummy_producer and run_ftdi_producer. *)

\* The FTDI producer finds and opens its device; if the library fails, the
\* thread returns and the session goes on without a producer.  (If there is no
\* such device, or it cannot be opened, the process exits: the behaviour ends.)
OpenDevice ==
    /\ pc[Producer] = "open"
    /\ \/ Goto(Producer, "produce")
       \/ Ftdi /\ "ftdi" \in Faults /\ Goto(Producer, "stopped")
    /\ UNCHANGED <<cb, mainVars, mutexVars, wchunk, localVars>>

\* Mutant: recordingActive is not looked at.
ProduceAlways(len) ==
    /\ InCritical(Producer, "produce")
    /\ IF WriterSpace(cb) >= len
       THEN /\ wchunk' = [rec |-> recordingInfo, len |-> len]
            /\ Goto(Producer, "write")
       ELSE UNCHANGED <<wchunk, pc>>
    /\ ReleaseAndBroadcast(Producer)
    /\ UNCHANGED <<cb, mainVars, localVars>>

\* Mutant: no broadcast while no recording is active.
ProduceSilent(len) ==
    /\ InCritical(Producer, "produce")
    /\ IF cb.recordingActive /\ WriterSpace(cb) >= len
       THEN /\ wchunk' = [rec |-> recordingInfo, len |-> len]
            /\ Goto(Producer, "write")
       ELSE UNCHANGED <<wchunk, pc>>
    /\ Release(Producer)
    /\ UNCHANGED <<cb, mainVars, localVars>>

\* One iteration up to the unlocked copy.  Blocks that do not fit are
\* dropped; only the FTDI producer then broadcasts.
Produce(len) ==
    /\ InCritical(Producer, "produce")
    /\ IF cb.recordingActive
       THEN IF WriterSpace(cb) >= len
            THEN /\ wchunk' = [rec |-> recordingInfo, len |-> len]
                 /\ Goto(Producer, "write")
                 /\ Release(Producer)
            ELSE /\ IF Ftdi THEN ReleaseAndBroadcast(Producer)
                            ELSE Release(Producer)
                 /\ UNCHANGED <<wchunk, pc>>
       ELSE /\ ReleaseAndBroadcast(Producer)
            /\ UNCHANGED <<wchunk, pc>>
    /\ UNCHANGED <<cb, mainVars, localVars>>

\* circularBufferMemWrite, without the mutex.
Write ==
    /\ pc[Producer] = "write"
    /\ cb' = MemWrite(cb, Chunk(wchunk.rec, wchunk.len), wchunk.len)
    /\ Goto(Producer, "commit")
    /\ UNCHANGED <<mainVars, mutexVars, wchunk, localVars>>

\* Mutant: no broadcast after a block.
CommitSilent ==
    /\ InCritical(Producer, "commit")
    /\ cb' = ConfirmWrite(cb, wchunk.len)
    /\ wchunk' = NoChunk
    /\ Release(Producer)
    /\ Goto(Producer, "produce")
    /\ UNCHANGED <<mainVars, localVars>>

\* recordingActive is not looked at again.  The block is forgotten.
Commit ==
    /\ InCritical(Producer, "commit")
    /\ cb' = ConfirmWrite(cb, wchunk.len)
    /\ wchunk' = NoChunk
    /\ ReleaseAndBroadcast(Producer)
    /\ Goto(Producer, "produce")
    /\ UNCHANGED <<mainVars, localVars>>

\* ftdi_read_data fails: the loop breaks and the thread returns.
ReadFails ==
    /\ Ftdi /\ "ftdi" \in Faults
    /\ pc[Producer] = "produce" /\ Producer \notin holders
    /\ Goto(Producer, "stopped")
    /\ UNCHANGED <<cb, mainVars, mutexVars, wchunk, localVars>>

-----------------------------------------------------------------------------
(* What both kinds of consumer thread do. *)

\* Mutant: the flag outlives the connection.
RegisterKeepsFlag(c) ==
    /\ InCritical(c, "register")
    /\ cb.reader_cnt < ReaderMaxCap
    /\ cb' = Register(cb)
    /\ consumerId' = [consumerId EXCEPT ![c] = cb.reader_cnt]
    /\ Release(c)
    /\ Goto(c, "poll")
    /\ UNCHANGED <<mainVars, wchunk, threadRecordingActive,
                   bufferRecordingActive, readLen, out>>

\* Register with the buffer, then start the loop from fresh locals.
\* BOUND: a registration past the last slot writes outside readerOffset, and
\* the model does not follow the program there (see also Accept).
RegisterReader(c) ==
    /\ InCritical(c, "register")
    /\ cb.reader_cnt < ReaderMaxCap
    /\ cb' = Register(cb)
    /\ consumerId' = [consumerId EXCEPT ![c] = cb.reader_cnt]
    /\ threadRecordingActive' = [threadRecordingActive EXCEPT ![c] = FALSE]
    /\ Release(c)
    /\ Goto(c, "poll")
    /\ UNCHANGED <<mainVars, wchunk, bufferRecordingActive, readLen, out>>

\* Mutant: the flag of the thread is not looked at.
BranchOnBuffer(c, active) ==
    CASE ~active -> IF c \in NetConsumers THEN "inactive" ELSE "poll"
      [] active -> "data"

\* The branch of the loop that the two flags select.
Branch(c, active) ==
    CASE ~threadRecordingActive[c] /\ ~active ->
            IF c \in NetConsumers THEN "inactive" ELSE "poll"
      [] ~threadRecordingActive[c] /\ active -> "start"
      [] threadRecordingActive[c] /\ active -> "data"
      [] threadRecordingActive[c] /\ ~active -> "drain"

\* The top of the loop: sample the flag under the mutex and branch on it
\* after the unlock.  (A file consumer with nothing to do only sleeps.)
Poll(c) ==
    /\ InCritical(c, "poll")
    /\ readLen' = [readLen EXCEPT ![c] = ReadSize]
    /\ bufferRecordingActive' =
           [bufferRecordingActive EXCEPT ![c] = cb.recordingActive]
    /\ Release(c)
    /\ Goto(c, Branch(c, cb.recordingActive))
    /\ UNCHANGED <<cb, mainVars, wchunk, consumerId, threadRecordingActive,
                   out>>

\* The data branch, each time the mutex is (re)gained: wait while too little
\* is there, give up if the recording is over, else take a contiguous piece.
Data(c) ==
    /\ InCritical(c, "data")
    /\ IF cb.recordingActive
       THEN IF AvailableData(cb, consumerId[c]) < readLen[c]
            THEN CondWait(c) /\ UNCHANGED <<pc, readLen>>
            ELSE /\ readLen' = [readLen EXCEPT ![c] =
                                  ReadData(cb, consumerId[c], readLen[c])]
                 /\ Release(c)
                 /\ Goto(c, "copy")
       ELSE /\ Release(c)
            /\ Goto(c, "poll")
            /\ UNCHANGED readLen
    /\ UNCHANGED <<cb, mainVars, wchunk, consumerId, threadRecordingActive,
                   bufferRecordingActive, out>>

Confirm(c) ==
    /\ InCritical(c, "confirm")
    /\ cb' = ConfirmRead(cb, consumerId[c], readLen[c])
    /\ Release(c)
    /\ Goto(c, "poll")
    /\ UNCHANGED <<mainVars, wchunk, localVars>>

\* The head of the drain loop over buffer b: another piece, or align the
\* tail, unlock and finish (close the file, or go and send END).
DrainFrom(c, b) ==
    /\ Release(c)
    /\ IF AvailableData(b, consumerId[c]) > 0
       THEN /\ cb' = b
            /\ readLen' = [readLen EXCEPT ![c] =
                   ReadData(b, consumerId[c],
                            IF AvailableData(b, consumerId[c]) > DrainChunk
                            THEN DrainChunk
                            ELSE AvailableData(b, consumerId[c]))]
            /\ Goto(c, "drain_copy")
            /\ UNCHANGED <<threadRecordingActive, out>>
       ELSE /\ cb' = AlignTail(b, consumerId[c])
            /\ IF c \in NetConsumers
               THEN /\ Goto(c, "send_end")
                    /\ UNCHANGED <<threadRecordingActive, out>>
               ELSE /\ Goto(c, "poll")
                    /\ out' = [out EXCEPT ![c] = Closed]
                    /\ threadRecordingActive' = [threadRecordingActive
                           EXCEPT ![c] = bufferRecordingActive[c]]
            /\ UNCHANGED readLen
    /\ UNCHANGED <<mainVars, wchunk, consumerId, bufferRecordingActive>>

Drain(c) == InCritical(c, "drain") /\ DrainFrom(c, cb)

DrainConfirm(c) ==
    /\ InCritical(c, "drain_confirm")
    /\ DrainFrom(c, ConfirmRead(cb, consumerId[c], readLen[c]))

-----------------------------------------------------------------------------
(* File consumers. *)

\* The record flag and the name of the file are read in a critical section
\* of their own.  (If fopen fails the process exits: the behaviour ends.)
StartFile(c) ==
    /\ c \in FileConsumers
    /\ InCritical(c, "start")
    /\ out' = [out EXCEPT ![c] =
                  IF recordingInfo \in Recorded THEN recordingInfo ELSE @]
    /\ threadRecordingActive' =
           [threadRecordingActive EXCEPT ![c] = bufferRecordingActive[c]]
    /\ Release(c)
    /\ Goto(c, "poll")
    /\ UNCHANGED <<cb, mainVars, wchunk, consumerId, bufferRecordingActive,
                   readLen>>

\* fwrite() without the mutex.
CopyToFile(c) ==
    /\ c \in FileConsumers
    /\ \/ pc[c] = "copy" /\ Goto(c, "confirm")
       \/ pc[c] = "drain_copy" /\ Goto(c, "drain_confirm")
    /\ UNCHANGED <<cb, mainVars, mutexVars, wchunk, localVars>>

-----------------------------------------------------------------------------
(* Network consumers. *)

SendMayFail == "send" \in Faults

\* The one access to device info under the mutex.
ReadPort(c) ==
    /\ InCritical(c, "port")
    /\ Release(c)
    /\ Goto(c, "listen")
    /\ UNCHANGED <<cb, mainVars, wchunk, localVars>>

\* getaddrinfo, bind, listen; if one fails the thread returns, and nothing
\* tries again.
Listen(c) ==
    /\ pc[c] = "listen"
    /\ \/ Goto(c, "accept")
       \/ "bind" \in Faults /\ Goto(c, "stopped")
    /\ UNCHANGED <<cb, mainVars, mutexVars, wchunk, localVars>>

\* A client connects.  BOUND: only while a slot is left for it and for every
\* thread that is about to register.
Accept(c) ==
    /\ pc[c] = "accept"
    /\ cb.reader_cnt + Cardinality({d \in Consumers : pc[d] = "register"})
           < ReaderMaxCap
    /\ Goto(c, "register")
    /\ UNCHANGED <<cb, mainVars, mutexVars, wchunk, localVars>>

\* clientConnected becomes false and the handling loop is left; the slot in
\* the buffer stays registered.  The flags die with the connection.
Disconnect(c) ==
    /\ Goto(c, "accept")
    /\ out' = [out EXCEPT ![c] = Closed]
    /\ UNCHANGED <<cb, mainVars, mutexVars, wchunk, consumerId,
                   threadRecordingActive, bufferRecordingActive, readLen>>

SendInactive(c) ==
    /\ pc[c] = "inactive"
    /\ \/ /\ Goto(c, "poll")
          /\ UNCHANGED <<cb, mainVars, mutexVars, wchunk, localVars>>
       \/ SendMayFail /\ Disconnect(c)

\* The id of the START packet is read in a critical section of its own.
StartSend(c) ==
    /\ c \in NetConsumers
    /\ InCritical(c, "start")
    /\ out' = [out EXCEPT ![c] = recordingInfo]
    /\ Release(c)
    /\ Goto(c, "send_start")
    /\ UNCHANGED <<cb, mainVars, wchunk, consumerId, threadRecordingActive,
                   bufferRecordingActive, readLen>>

SendStart(c) ==
    /\ pc[c] = "send_start"
    /\ \/ /\ threadRecordingActive' =
                 [threadRecordingActive EXCEPT ![c] = bufferRecordingActive[c]]
          /\ Goto(c, "poll")
          /\ UNCHANGED <<cb, mainVars, mutexVars, wchunk, consumerId,
                         bufferRecordingActive, readLen, out>>
       \/ SendMayFail /\ Disconnect(c)

\* Mutant: the failure path unlocks, as the one of the drain loop does.
SendDataUnlocks(c) ==
    /\ c \in NetConsumers
    /\ pc[c] = "copy"
    /\ \/ /\ Goto(c, "confirm")
          /\ UNCHANGED <<mutexVars, out>>
       \/ /\ SendMayFail
          /\ Release(c)
          /\ Goto(c, "accept")
          /\ out' = [out EXCEPT ![c] = Closed]
    /\ UNCHANGED <<cb, mainVars, wchunk, consumerId, threadRecordingActive,
                   bufferRecordingActive, readLen>>

\* A DATA packet, straight out of the buffer and without the mutex.
SendData(c) ==
    /\ c \in NetConsumers
    /\ pc[c] = "copy"
    /\ \/ /\ Goto(c, "confirm")
          /\ UNCHANGED <<cb, mainVars, mutexVars, wchunk, localVars>>
       \/ SendMayFail /\ Disconnect(c)

\* The same in the drain loop, where a failure breaks out of the loop ...
SendDrained(c) ==
    /\ c \in NetConsumers
    /\ pc[c] = "drain_copy"
    /\ \/ Goto(c, "drain_confirm")
       \/ "send_drain" \in Faults /\ Goto(c, "drain_failed")
    /\ UNCHANGED <<cb, mainVars, mutexVars, wchunk, localVars>>

\* ... to an unlock that no lock precedes.
UnlockAgain(c) ==
    /\ pc[c] = "drain_failed"
    /\ Release(c)
    /\ Goto(c, "accept")
    /\ out' = [out EXCEPT ![c] = Closed]
    /\ UNCHANGED <<cb, mainVars, wchunk, consumerId, threadRecordingActive,
                   bufferRecordingActive, readLen>>

SendEnd(c) ==
    /\ pc[c] = "send_end"
    /\ \/ /\ threadRecordingActive' =
                 [threadRecordingActive EXCEPT ![c] = bufferRecordingActive[c]]
          /\ out' = [out EXCEPT ![c] = Closed]
          /\ Goto(c, "poll")
          /\ UNCHANGED <<cb, mainVars, mutexVars, wchunk, consumerId,
                         bufferRecordingActive, readLen>>
       \/ SendMayFail /\ Disconnect(c)

-----------------------------------------------------------------------------
(* The specification. *)

\* The threads as they start.
SessionInit(producing, networking) ==
    /\ cb = EmptyBuffer
    /\ recordingInfo = NoRecording
    /\ currentRecording = NoRecording
    /\ locked = FALSE
    /\ holders = {}
    /\ waiting = {}
    /\ pc = [t \in Threads |-> CASE t = Main -> "schedule"
                                 [] t = Producer -> producing
                                 [] t \in FileConsumers -> "register"
                                 [] t \in NetConsumers -> networking]
    /\ wchunk = NoChunk
    /\ consumerId = [c \in Consumers |-> 0]
    /\ threadRecordingActive = [c \in Consumers |-> FALSE]
    /\ bufferRecordingActive = [c \in Consumers |-> FALSE]
    /\ readLen = [c \in Consumers |-> ReadSize]
    /\ out = [c \in Consumers |-> Closed]

Init == SessionInit("open", "port")

MainStep == Flip \/ \E r \in Recordings \cup {NoRecording} : Schedule(r)

ProducerStep ==
    \/ OpenDevice
    \/ \E len \in WriteSizes : Produce(len)
    \/ Write
    \/ Commit
    \/ ReadFails

LoopStep(c) ==
    \/ RegisterReader(c) \/ Poll(c) \/ Data(c) \/ Confirm(c)
    \/ Drain(c) \/ DrainConfirm(c)

FileStep(c) == StartFile(c) \/ CopyToFile(c)

NetStep(c) ==
    \/ ReadPort(c) \/ Listen(c) \/ Accept(c)
    \/ SendInactive(c) \/ StartSend(c) \/ SendStart(c) \/ SendData(c)
    \/ SendDrained(c) \/ UnlockAgain(c) \/ SendEnd(c)

ConsumerStep(c) == LoopStep(c) \/ FileStep(c) \/ NetStep(c)

Next ==
    \/ \E t \in Threads : Acquire(t)
    \/ MainStep
    \/ ProducerStep
    \/ \E c \in Consumers : ConsumerStep(c)

Spec == Init /\ [][Next]_vars

(* A thread that holds the mutex runs on, and so does one that copies or    *)
(* sends (the client keeps reading).  A thread blocked on the mutex gets it *)
(* if it is free again and again: both producers are outside the mutex for  *)
(* a while in each iteration (usleep, ftdi_read_data).  Nothing makes the   *)
(* scheduler flip, a device or a port fail, or a client connect.            *)
Fairness ==
    /\ \A t \in Threads : SF_vars(Acquire(t))
    /\ WF_vars(Flip)
    /\ WF_vars(ProducerStep /\ pc'[Producer] # "stopped")
    /\ \A c \in Consumers :
          WF_vars(ConsumerStep(c) /\ pc[c] # "accept" /\ pc'[c] # "stopped")

FairSpec == Spec /\ Fairness

-----------------------------------------------------------------------------
(* Properties. *)

\* The types of the session's fields and of the threads' locals.
TypeOK ==
    /\ cb \in CircularBufferOf(Bytes)
    /\ recordingInfo \in Recordings \cup {NoRecording}
    /\ currentRecording \in Recordings \cup {NoRecording}
    /\ locked \in BOOLEAN
    /\ holders \subseteq Threads
    /\ waiting \subseteq Consumers
    /\ pc \in [Threads -> Labels]
    /\ wchunk \in [rec : Recordings \cup {NoRecording}, len : Offsets]
    /\ consumerId \in [Consumers -> 0 .. ReaderMaxCap]
    /\ threadRecordingActive \in [Consumers -> BOOLEAN]
    /\ bufferRecordingActive \in [Consumers -> BOOLEAN]
    /\ readLen \in [Consumers -> Nat \ {0}]
    /\ out \in [Consumers -> Recordings \cup {NoRecording, Closed}]

\* buffer_lock keeps the critical sections of the session apart (server.h:14:
\* "Access to buffer session except device info under mutex!").
MutualExclusion ==
    /\ \A s, t \in holders : s = t
    /\ locked <=> holders # {}

Copying(c) == pc[c] \in {"copy", "drain_copy"}

\* A piece of the buffer that a consumer is copying out, or has copied and
\* not confirmed.
HasPiece(c) == pc[c] \in {"copy", "drain_copy", "confirm", "drain_confirm"}

\* fwrite()/send() and the producer's memcpy() both run without the mutex;
\* they never touch the same byte at the same time.
NoTornRead ==
    \A c \in Consumers :
        pc[Producer] = "write" /\ Copying(c) =>
            WriteOffsets(cb, wchunk.len)
                \cap ReadOffsets(cb, consumerId[c], readLen[c]) = {}

\* What a consumer copies through the raw pointer lies inside the buffer and
\* is data that it has not confirmed before.
PiecesAreUnread ==
    \A c \in Consumers : HasPiece(c) =>
        /\ ReadOffsets(cb, consumerId[c], readLen[c]) \subseteq Offsets
        /\ readLen[c] \in 1 .. AvailableData(cb, consumerId[c])

\* The unread bytes of c that do not belong to the recording whose file (or
\* transmission) c has open.
ForeignBytes(c) ==
    {k \in 0 .. AvailableData(cb, consumerId[c]) - 1 :
        cb.data_ptr[UnreadOffset(cb, consumerId[c], k)].rec # out[c]}

\* If consumers react to every flip, a file or transmission takes
\* over at most one producer block of the recording before: the block that
\* was being copied in when that recording ended, and is committed after the
\* consumer aligned its tail (server_producer.c:77-80, file_consumer.c:143).
AtMostOneForeignBlock ==
    \A c \in Consumers : out[c] # Closed =>
        \A k \in ForeignBytes(c) : k < Max(WriteSizes)

\* On every connection the DATA packets and the END come after a START, also
\* if the connection before broke off between its START and its END.
DataFollowsStart ==
    \A c \in NetConsumers :
        pc[c] \in {"data", "copy", "confirm", "drain", "drain_copy",
                  "drain_confirm", "drain_failed", "send_end"}
            => out[c] # Closed

\* While a recording lasts, each consumer keeps taking data; a network
\* consumer, unless its client has gone.
DataFlows ==
    \A c \in Consumers :
        <>[]cb.recordingActive =>
            []<>(pc[c] \in {"confirm", "drain_confirm"} \/ Unconnected(c))

\* A recording that is to be kept gets a file of its own, or a transmission
\* under its own id, unless it is over too soon or no client is there: the
\* flag, the id and the record flag are read in critical sections of their
\* own, and the locals of the recording before are still around.
RecordingIsTakenUp ==
    \A c \in Consumers, r \in Recorded :
        (cb.recordingActive /\ recordingInfo = r) ~>
            \/ out[c] = r
            \/ recordingInfo # r
            \/ Unconnected(c)

\* Once a recording is over, its file is closed (its transmission is ended),
\* unless the next one starts first.  No thread is left in pthread_cond_wait,
\* although the scheduler does not broadcast.
RecordingWindsDown ==
    \A c \in Consumers :
        ~cb.recordingActive ~> (out[c] = Closed \/ cb.recordingActive)

-----------------------------------------------------------------------------
(* The session implements BroadcastQueue: the i-th queue is what lies       *)
(* between the tail of slot i-1 and the head.                               *)

Unread(i) ==
    [k \in 1 .. AvailableData(cb, i) |-> cb.data_ptr[UnreadOffset(cb, i, k - 1)]]

BlocksOf(len) ==
    {[k \in 1 .. len |-> [rec |-> rec, pos |-> k - 1]] :
        rec \in Recordings \cup {NoRecording}}

Queues == INSTANCE BroadcastQueue
            WITH Capacity <- DataLen - 1,
                 Blocks <- UNION {BlocksOf(len) : len \in WriteSizes},
                 queue <- [i \in 1 .. cb.reader_cnt |-> Unread(i - 1)]

\* No byte is lost, duplicated, reordered or overwritten between a commit of
\* the producer and the confirmation by each reader: copying a block in and
\* aligning the tail change no queue.
ImplementsQueues == Queues!Spec

=============================================================================
