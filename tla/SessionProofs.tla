--------------------------- MODULE SessionProofs ---------------------------
(***************************************************************************)
(* Theorems about BufferSession and ClientSession, for every buffer        *)
(* length, every number of consumers and connections, every read and write *)
(* size.  The two have the buffer and the consumers in common, and so are  *)
(* the lemmas about those: they do not depend on the producer.             *)
(*                                                                         *)
(* BufferSession                                                           *)
(*                                                                         *)
(* 1. Its types, and that copies which run without the mutex never overlap *)
(*                                                                         *)
(* The sampled state a copy relies on goes stale as soon as the mutex is   *)
(* released; what makes it safe is that the others can only change it in   *)
(* one direction.  The inductive invariant says so: the block being        *)
(* written still fits beside the unread bytes of every reader (readers     *)
(* only shrink those), and a piece being copied is still unread and        *)
(* contiguous (the producer only adds, and a slot has one owner).          *)
(*                                                                         *)
(* 2. The mutex, and what is sent over a connection                        *)
(*                                                                         *)
(* 3. What the queues hold: the bytes themselves and not their number      *)
(*                                                                         *)
(* BufferSession implements BroadcastQueue: each reader has a bounded FIFO *)
(* queue, from which no byte is lost and in which none is repeated,        *)
(* reordered or overwritten.  To the first invariant this adds that a      *)
(* block which is copied in and not yet committed stays where it was       *)
(* copied.                                                                 *)
(*                                                                         *)
(* Where flips are slow and no send fails in the drain loop, a recording   *)
(* begins with at most one block of another: the block that was being      *)
(* written when that one ended.                                            *)
(*                                                                         *)
(* ClientSession                                                           *)
(*                                                                         *)
(* 4. What networkProducerThread writes into the buffer has been sent      *)
(*    under the START that the session announces                           *)
(*                                                                         *)
(* The two ends of a connection are apart by what is on its way, so the    *)
(* invariant carries the open recording along the queue, element by        *)
(* element, from the producer's flag to the server's last START.  It takes *)
(* no assumption about timing, and connections may break anywhere, inside  *)
(* packets, too: what is left in the queue is a prefix, and a new          *)
(* connection begins with a START.                                         *)
(*                                                                         *)
(* 5. What BufferSession promises holds with this producer                 *)
(*                                                                         *)
(* The steps of the consumers are those of the server, and so are their    *)
(* lemmas.  The invariants of BufferSession are shown to be kept by the    *)
(* steps of the producer.                                                  *)
(*                                                                         *)
(* 6. No file and no transmission mixes recordings                         *)
(*                                                                         *)
(* This one does need the flips to be slow, and that no connection has     *)
(* broken between START and END: the flag then changes with every flip,    *)
(* and what is committed is of the recording announced, by 4.              *)
(***************************************************************************)
EXTENDS ClientSession, CircularBufferProofs

\* c has run its registration.
Joined(c) == ~Unconnected(c) /\ pc[c] # "register"

\* The reader slots have one owner each.
SlotsOwned ==
    \A c \in Consumers : Joined(c) =>
        /\ consumerId[c] \in Registered(cb)
        /\ \A d \in Consumers \ {c} : Joined(d) => consumerId[d] # consumerId[c]

\* The block the producer copies fits beside all unread bytes.
BlockFits ==
    pc[Producer] \in {"write", "commit"} =>
        /\ wchunk.len \in Offsets
        /\ \A i \in Registered(cb) :
               AvailableData(cb, i) + wchunk.len =< DataLen - 1

\* The piece a consumer copies is contiguous and unread.
PieceFits(c) ==
    /\ readLen[c] \in 1 .. AvailableData(cb, consumerId[c])
    /\ cb.readerOffset[consumerId[c]] + readLen[c] =< DataLen

PiecesFit == \A c \in Consumers : HasPiece(c) => PieceFits(c)

\* The types that a session has whoever its producer is: that of the client
\* (ClientSession) has labels of its own, and may receive less than nothing.
AnyLabels == Labels \cup {"connect", "header", "payload"}

Typed ==
    /\ cb \in CircularBufferOf(Bytes)
    /\ recordingInfo \in Recordings \cup {NoRecording}
    /\ currentRecording \in Recordings \cup {NoRecording}
    /\ locked \in BOOLEAN
    /\ holders \subseteq Threads
    /\ waiting \subseteq Consumers
    /\ pc \in [Threads -> AnyLabels]
    /\ wchunk \in [rec : Recordings \cup {NoRecording}, len : Int]
    /\ consumerId \in [Consumers -> 0 .. ReaderMaxCap]
    /\ threadRecordingActive \in [Consumers -> BOOLEAN]
    /\ bufferRecordingActive \in [Consumers -> BOOLEAN]
    /\ readLen \in [Consumers -> Nat \ {0}]
    /\ out \in [Consumers -> Recordings \cup {NoRecording, Closed}]

IInv ==
    /\ Typed
    /\ Sound(cb, Bytes)
    /\ SlotsOwned
    /\ BlockFits
    /\ PiecesFit

USE ThreadsAssumption
DEF Threads, Consumers, Unconnected, UnconnectedLabels

-----------------------------------------------------------------------------
(* Initially. *)

\* The invariant holds when the threads enter their loops.
LEMMA SessionInitIInv ==
    ASSUME NEW producing \in AnyLabels \ {"write", "commit"},
           NEW networking \in UnconnectedLabels,
           SessionInit(producing, networking)
    PROVE  IInv
  <1>1. Sound(cb, Bytes)
    BY EmptyBufferSound, ZeroByteAssumption DEF SessionInit
  <1>2. cb.reader_cnt = 0 /\ Registered(cb) = {}
    BY SMT DEF SessionInit, EmptyBuffer, Registered
  <1>3. Typed
    <2>1. wchunk \in [rec : Recordings \cup {NoRecording}, len : Int]
      BY SMT DEF SessionInit, NoChunk
    <2>2. pc \in [Threads -> AnyLabels]
      BY DEF SessionInit, AnyLabels, Labels, CriticalLabels
    <2>3. /\ consumerId \in [Consumers -> 0 .. ReaderMaxCap]
          /\ readLen \in [Consumers -> Nat \ {0}]
      BY ReaderMaxCapAssumption, SizesAssumption, SMT DEF SessionInit
    <2>. QED BY <1>1, <2>1, <2>2, <2>3 DEF Typed, SessionInit, Sound
  <1>4. /\ \A c \in Consumers : ~Joined(c)
        /\ pc[Producer] \notin {"write", "commit"}
    BY DEF SessionInit, Joined
  <1>5. SlotsOwned /\ PiecesFit
    BY <1>4 DEF SlotsOwned, PiecesFit, Joined, HasPiece
  <1>6. BlockFits
    BY <1>4 DEF BlockFits
  <1>. QED BY <1>1, <1>3, <1>5, <1>6 DEF IInv

LEMMA InitIInv == Init => IInv
  BY SessionInitIInv DEF Init, AnyLabels, Labels

-----------------------------------------------------------------------------
(* Steps that do not touch the buffer. *)

\* A step that leaves the buffer, the block and the slots alone, and starts
\* neither a copy nor a registration, preserves the invariant.
LEMMA Frame ==
    ASSUME IInv, Typed',
           UNCHANGED <<cb, wchunk, consumerId>>,
           pc'[Producer] \in {"write", "commit"} =>
               pc[Producer] \in {"write", "commit"},
           \A c \in Consumers : Joined(c)' => Joined(c),
           \A c \in Consumers : HasPiece(c)' =>
               HasPiece(c) /\ readLen'[c] = readLen[c]
    PROVE  IInv'
  <1>1. Sound(cb, Bytes)'
    BY DEF IInv
  <1>2. SlotsOwned'
    BY DEF IInv, SlotsOwned
  <1>3. BlockFits'
    BY DEF IInv, BlockFits
  <1>4. PiecesFit'
    BY DEF IInv, PiecesFit, PieceFits
  <1>. QED BY <1>1, <1>2, <1>3, <1>4 DEF IInv

\* Getting the mutex: no more than Frame.
LEMMA AcquireStep ==
    ASSUME IInv, NEW t \in Threads, Acquire(t)
    PROVE  IInv'
  <1>1. Typed'
    BY DEF IInv, Typed, Acquire, mainVars, localVars
  <1>. QED BY <1>1, Frame DEF Acquire, mainVars, localVars, Joined, HasPiece

\* The scheduler making up its mind: no more than Frame.
LEMMA ScheduleStep ==
    ASSUME IInv, NEW r \in Recordings \cup {NoRecording}, Schedule(r)
    PROVE  IInv'
  <1>1. Typed'
    BY DEF IInv, Typed, Schedule, Goto, mutexVars, localVars, AnyLabels, Labels,
           CriticalLabels
  <1>2. \A t \in Threads \ {Main} : pc'[t] = pc[t]
    BY DEF IInv, Typed, Schedule, Goto
  <1>. QED BY <1>1, <1>2, Frame
           DEF Schedule, mutexVars, localVars, Joined, HasPiece

\* The producer opening its device or giving it up, before it has a block.
LEMMA DeviceSteps ==
    ASSUME IInv, OpenDevice \/ ReadFails
    PROVE  IInv'
  <1>1. Typed'
    BY DEF IInv, Typed, OpenDevice, ReadFails, Goto, mutexVars, localVars,
           mainVars, AnyLabels, Labels, CriticalLabels
  <1>2. /\ pc'[Producer] \in {"produce", "stopped"}
        /\ \A c \in Consumers : pc'[c] = pc[c]
    BY DEF IInv, Typed, OpenDevice, ReadFails, Goto
  <1>. QED BY <1>1, <1>2, Frame
           DEF OpenDevice, ReadFails, localVars, Joined, HasPiece

\* The steps of a consumer that neither take nor give back bytes.
QuietStep(c) ==
    \/ Poll(c) \/ StartFile(c) \/ CopyToFile(c)
    \/ SendInactive(c) \/ StartSend(c) \/ SendStart(c) \/ SendData(c)
    \/ SendDrained(c) \/ UnlockAgain(c) \/ SendEnd(c) \/ Accept(c)
    \/ ReadPort(c) \/ Listen(c)

\* A QuietStep keeps the types.
LEMMA QuietType ==
    ASSUME IInv, NEW c \in Consumers, QuietStep(c)
    PROVE  Typed'
  <1>. USE DEF IInv, Typed, Goto, mutexVars, localVars, mainVars, AnyLabels, Labels,
               CriticalLabels, Release, Unlock
  <1>1. CASE Poll(c)
    <2>1. Branch(c, cb.recordingActive) \in AnyLabels
      BY DEF Branch, CircularBufferOf
    <2>2. ReadSize \in Nat \ {0} /\ cb.recordingActive \in BOOLEAN
      BY SizesAssumption DEF CircularBufferOf
    <2>. QED BY <1>1, <2>1, <2>2 DEF Poll
  <1>2. CASE StartFile(c)
    <2>1. Recorded \subseteq Recordings
      BY RecordingsAssumption
    <2>. QED BY <1>2, <2>1 DEF StartFile
  <1>3. CASE CopyToFile(c)
    BY <1>3 DEF CopyToFile
  <1>4. CASE SendInactive(c)
    BY <1>4 DEF SendInactive, Disconnect
  <1>5. CASE StartSend(c)
    BY <1>5 DEF StartSend
  <1>6. CASE SendStart(c)
    BY <1>6 DEF SendStart, Disconnect
  <1>7. CASE SendData(c)
    BY <1>7 DEF SendData, Disconnect
  <1>8. CASE SendDrained(c)
    BY <1>8 DEF SendDrained
  <1>9. CASE UnlockAgain(c)
    BY <1>9 DEF UnlockAgain
  <1>10. CASE SendEnd(c)
    BY <1>10 DEF SendEnd, Disconnect
  <1>11. CASE Accept(c)
    BY <1>11 DEF Accept
  <1>12. CASE ReadPort(c) \/ Listen(c)
    BY <1>12, ZenonT(60) DEF ReadPort, Listen
  <1>. QED BY <1>1, <1>2, <1>3, <1>4, <1>5, <1>6, <1>7, <1>8, <1>9, <1>10,
              <1>11, <1>12 DEF QuietStep

\* A QuietStep keeps the invariant.
LEMMA QuietPreserves ==
    ASSUME IInv, NEW c \in Consumers, QuietStep(c)
    PROVE  IInv'
  <1>1. Typed'
    BY QuietType
  <1>2. UNCHANGED <<cb, wchunk, consumerId>>
    BY DEF QuietStep, Poll, StartFile, CopyToFile, SendInactive, StartSend,
           SendStart, SendData, SendDrained, UnlockAgain, SendEnd, Accept,
           ReadPort, Listen, Disconnect, localVars
  <1>3. \A t \in Threads \ {c} : pc'[t] = pc[t]
    BY DEF QuietStep, Poll, StartFile, CopyToFile, SendInactive, StartSend,
           SendStart, SendData, SendDrained, UnlockAgain, SendEnd, Accept,
           ReadPort, Listen, Disconnect, Goto, IInv, Typed
  <1>4. \A d \in Consumers \ {c} : readLen'[d] = readLen[d]
    BY DEF QuietStep, Poll, StartFile, CopyToFile, SendInactive, StartSend,
           SendStart, SendData, SendDrained, UnlockAgain, SendEnd, Accept,
           ReadPort, Listen, Disconnect, localVars, IInv, Typed
  <1>5. Joined(c)' => Joined(c)
    BY DEF QuietStep, Poll, StartFile, CopyToFile, SendInactive, StartSend,
           SendStart, SendData, SendDrained, UnlockAgain, SendEnd, Accept,
           ReadPort, Listen, Disconnect, Goto, IInv, Typed, Joined, InCritical
  <1>6. HasPiece(c)' => HasPiece(c) /\ readLen'[c] = readLen[c]
    <2>1. CASE Poll(c)
      BY <2>1 DEF Poll, Branch, Goto, HasPiece, IInv, Typed, CircularBufferOf
    <2>2. CASE ~Poll(c)
      BY <2>2 DEF QuietStep, StartFile, CopyToFile, SendInactive, StartSend,
           SendStart, SendData, SendDrained, UnlockAgain, SendEnd, Accept,
           ReadPort, Listen, Disconnect, Goto, localVars, IInv, Typed, HasPiece
    <2>. QED BY <2>1, <2>2
  <1>. QED BY <1>1, <1>2, <1>3, <1>4, <1>5, <1>6, Frame DEF Joined, HasPiece

-----------------------------------------------------------------------------
(* The steps of Main and of the producer that touch the buffer. *)

\* What the invariant says of the amounts in the buffer.
SameAmounts ==
    /\ Sound(cb', Bytes)
    /\ cb'.reader_cnt = cb.reader_cnt
    /\ cb'.readerOffset = cb.readerOffset
    /\ \A i : AvailableData(cb', i) = AvailableData(cb, i)

\* The flag is in the buffer, but not among them.
LEMMA FlagAmounts ==
    ASSUME IInv, NEW flag \in BOOLEAN,
           cb' = [cb EXCEPT !.recordingActive = flag]
    PROVE  SameAmounts
  BY DEF IInv, SameAmounts, Sound, CircularBufferOf, Registered, AvailableData

\* A step of another thread than the consumers, which leaves them as they are,
\* has nothing to answer for but the block.
LEMMA AmountsKeep ==
    ASSUME IInv, SameAmounts, Typed', BlockFits',
           UNCHANGED <<consumerId, readLen>>,
           \A c \in Consumers : pc'[c] = pc[c]
    PROVE  IInv'
  <1>1. SlotsOwned'
    BY DEF IInv, SameAmounts, SlotsOwned, Joined, Registered
  <1>2. PiecesFit'
    BY DEF IInv, SameAmounts, PiecesFit, PieceFits, HasPiece
  <1>. QED BY <1>1, <1>2 DEF IInv, SameAmounts

\* The flips of Main.
LEMMA FlipStep ==
    ASSUME IInv, Flip
    PROVE  IInv'
  <1>1. SameAmounts
    <2>. PICK flag \in BOOLEAN : flag = (currentRecording # NoRecording)
      OBVIOUS
    <2>1. cb' = [cb EXCEPT !.recordingActive = flag]
      BY DEF Flip
    <2>. QED BY <2>1, FlagAmounts
  <1>2. Typed'
    BY <1>1 DEF IInv, Typed, Flip, Goto, Release, Unlock, localVars, AnyLabels,
                Labels, CriticalLabels, Sound, SameAmounts
  <1>3. /\ \A t \in Threads \ {Main} : pc'[t] = pc[t]
        /\ UNCHANGED <<wchunk, consumerId, readLen>>
    BY DEF IInv, Typed, Flip, Goto, localVars
  <1>4. BlockFits'
    BY <1>1, <1>3 DEF IInv, BlockFits, Registered, SameAmounts
  <1>. QED BY <1>1, <1>2, <1>3, <1>4, AmountsKeep

\* The check of the space is where BlockFits is established.
LEMMA ProduceStep ==
    ASSUME IInv, NEW len \in WriteSizes, Produce(len)
    PROVE  IInv'
  <1>1. len \in Offsets /\ len \in Nat
    BY SizesAssumption, DataLenAssumption, SMT DEF Offsets
  <1>2. /\ \A t \in Threads \ {Producer} : pc'[t] = pc[t]
        /\ UNCHANGED <<cb, consumerId, readLen>>
    BY DEF IInv, Typed, Produce, Goto, localVars
  <1>3. Typed'
    <2>1. locked' \in BOOLEAN /\ holders' \subseteq Threads
      BY DEF IInv, Typed, Produce, Release, ReleaseAndBroadcast, Unlock
    <2>2. waiting' \subseteq Consumers
      BY DEF IInv, Typed, Produce, Release, ReleaseAndBroadcast
    <2>3. pc' \in [Threads -> AnyLabels]
      BY DEF IInv, Typed, Produce, Goto, AnyLabels, Labels
    <2>4. wchunk' \in [rec : Recordings \cup {NoRecording}, len : Int]
      BY <1>1 DEF IInv, Typed, Produce
    <2>. QED BY <2>1, <2>2, <2>3, <2>4
             DEF IInv, Typed, Produce, mainVars, localVars
  <1>4. BlockFits'
    <2>1. CASE cb.recordingActive /\ WriterSpace(cb) >= len
      <3>1. wchunk'.len = len
        BY <2>1 DEF Produce
      <3>2. \A i \in Registered(cb) : AvailableData(cb, i) + len =< DataLen - 1
        BY <1>1, <2>1, WriterSpaceFits DEF IInv
      <3>. QED BY <1>1, <1>2, <3>1, <3>2 DEF BlockFits
    <2>2. CASE ~(cb.recordingActive /\ WriterSpace(cb) >= len)
      BY <2>2 DEF Produce, IInv, BlockFits, InCritical
    <2>. QED BY <2>1, <2>2
  <1>5. SlotsOwned' /\ PiecesFit'
    BY <1>2 DEF IInv, SlotsOwned, PiecesFit, PieceFits, Joined, HasPiece
  <1>. QED BY <1>2, <1>3, <1>4, <1>5 DEF IInv

\* The unlocked memcpy changes bytes, not amounts.
LEMMA WriteStep ==
    ASSUME IInv, Write
    PROVE  IInv'
  <1> DEFINE src == Chunk(wchunk.rec, wchunk.len)
  <1>1. wchunk.len \in Offsets /\ wchunk.rec \in Recordings \cup {NoRecording}
    BY DEF IInv, Typed, BlockFits, Write
  <1>2. src \in [0 .. wchunk.len - 1 -> Bytes]
    <2>1. \A k \in 0 .. wchunk.len - 1 : k \in Offsets
      BY <1>1, DataLenAssumption, SMT DEF Offsets
    <2>. QED BY <1>1, <2>1 DEF Chunk, Bytes
  <1>3. SameAmounts
    BY <1>1, <1>2, MemWriteAmounts DEF IInv, Write, SameAmounts
  <1>4. Typed'
    BY <1>3 DEF IInv, Typed, Write, Goto, mutexVars, mainVars, localVars,
                AnyLabels, Labels, CriticalLabels, Sound, SameAmounts
  <1>5. /\ \A t \in Threads \ {Producer} : pc'[t] = pc[t]
        /\ UNCHANGED <<wchunk, consumerId, readLen>>
    BY DEF IInv, Typed, Write, Goto, localVars
  <1>6. BlockFits'
    BY <1>3, <1>5 DEF IInv, BlockFits, Registered, Write, SameAmounts
  <1>. QED BY <1>3, <1>4, <1>5, <1>6, AmountsKeep

\* What a commit does to the buffer.
Commits ==
    /\ pc[Producer] = "commit"
    /\ cb' = ConfirmWrite(cb, wchunk.len)

\* The queues grow, so every piece stays unread.
LEMMA CommitsKeep ==
    ASSUME IInv, Commits, Typed', UNCHANGED <<consumerId, readLen>>,
           pc'[Producer] \notin {"write", "commit"},
           \A c \in Consumers : pc'[c] = pc[c]
    PROVE  IInv'
  <1>1. wchunk.len \in Offsets /\ wchunk.len \in Nat
    BY SMT DEF IInv, Typed, BlockFits, Commits, Offsets
  <1>2. /\ Sound(cb', Bytes)
        /\ cb'.reader_cnt = cb.reader_cnt
        /\ cb'.readerOffset = cb.readerOffset
        /\ \A i \in Registered(cb) :
               AvailableData(cb', i) = AvailableData(cb, i) + wchunk.len
    <2>1. \A i \in Registered(cb) :
              AvailableData(cb, i) + wchunk.len =< DataLen - 1
      BY DEF IInv, BlockFits, Commits
    <2>. QED BY <1>1, <2>1, ConfirmWriteAmounts DEF IInv, Commits
  <1>5. SlotsOwned'
    BY <1>2 DEF IInv, SlotsOwned, Joined, Registered
  <1>6. BlockFits'
    BY DEF BlockFits
  <1>7. PiecesFit'
    <2>. SUFFICES ASSUME NEW c \in Consumers, HasPiece(c)' PROVE PieceFits(c)'
      BY DEF PiecesFit
    <2>1. HasPiece(c) /\ PieceFits(c)
      BY DEF IInv, PiecesFit, HasPiece
    <2>2. consumerId[c] \in Registered(cb)
      BY <2>1 DEF IInv, SlotsOwned, Joined, HasPiece
    <2>3. AvailableData(cb, consumerId[c]) \in Offsets
      BY <2>2, AvailableRange DEF IInv
    <2>4. readLen[c] \in 1 .. (AvailableData(cb, consumerId[c]) + wchunk.len)
      BY <1>1, <2>1, <2>3, SMT DEF PieceFits, Offsets
    <2>. QED BY <1>2, <2>1, <2>2, <2>4 DEF PieceFits
  <1>. QED BY <1>2, <1>5, <1>6, <1>7 DEF IInv

\* The producers of the server then start the next iteration.
LEMMA CommitStep ==
    ASSUME IInv, Commit
    PROVE  IInv'
  <1>1. /\ \A t \in Threads \ {Producer} : pc'[t] = pc[t]
        /\ pc'[Producer] = "produce"
        /\ UNCHANGED <<consumerId, readLen>>
        /\ Commits
    BY DEF IInv, Typed, Commit, InCritical, Goto, localVars, Commits
  <1>2. Typed'
    <2>1. NoChunk \in [rec : Recordings \cup {NoRecording}, len : Int]
      BY SMT DEF NoChunk
    <2>2. cb' \in CircularBufferOf(Bytes)
      <3>1. wchunk.len \in Offsets
        BY <1>1 DEF IInv, BlockFits, Commits
      <3>. QED BY <1>1, <3>1, ConfirmWriteAmounts DEF IInv, Commits, Sound
    <2>. QED BY <2>1, <2>2
             DEF IInv, Typed, Commit, Goto, ReleaseAndBroadcast, Unlock,
                 mainVars, localVars, AnyLabels, Labels, CriticalLabels
  <1>. QED BY <1>1, <1>2, CommitsKeep

-----------------------------------------------------------------------------
(* The steps of a consumer that touch the buffer or take a piece of it. *)

\* What a step of consumer c leaves alone.
LEMMA OthersKeep ==
    ASSUME IInv, NEW c \in Consumers, NEW label \in AnyLabels, Goto(c, label)
    PROVE  /\ \A t \in Threads \ {c} : pc'[t] = pc[t]
           /\ pc'[c] = label
           /\ pc'[Producer] = pc[Producer]
  BY DEF IInv, Typed, Goto

\* A new slot starts empty, so the block in flight fits beside it.
LEMMA RegisterStep ==
    ASSUME IInv, NEW c \in Consumers, RegisterReader(c)
    PROVE  IInv'
  <1> DEFINE n == cb.reader_cnt
  <1>1. /\ Sound(cb', Bytes)
        /\ cb'.reader_cnt = n + 1
        /\ Registered(cb') = Registered(cb) \cup {n}
        /\ n \notin Registered(cb)
        /\ AvailableData(cb', n) = 0
        /\ \A i \in Registered(cb) :
               /\ cb'.readerOffset[i] = cb.readerOffset[i]
               /\ AvailableData(cb', i) = AvailableData(cb, i)
    BY RegisterAmounts DEF IInv, RegisterReader
  <1>2. n \in 0 .. ReaderMaxCap
    BY DEF IInv, Sound, CircularBufferOf
  <1>3. /\ \A t \in Threads \ {c} : pc'[t] = pc[t]
        /\ pc'[c] = "poll"
        /\ pc'[Producer] = pc[Producer]
    BY OthersKeep DEF RegisterReader, AnyLabels, Labels, CriticalLabels
  <1>4. /\ UNCHANGED <<wchunk, readLen>>
        /\ consumerId'[c] = n
        /\ \A d \in Consumers \ {c} : consumerId'[d] = consumerId[d]
    BY DEF RegisterReader, IInv, Typed
  <1>5. Typed'
    BY <1>1, <1>2 DEF IInv, Typed, RegisterReader, Goto, Release, Unlock,
                      mainVars, AnyLabels, Labels, CriticalLabels, Sound
  <1>6. SlotsOwned'
    <2>1. \A d \in Consumers \ {c} : Joined(d)' => Joined(d)
      BY <1>3 DEF Joined
    <2>. QED BY <1>1, <1>4, <2>1 DEF IInv, SlotsOwned
  <1>7. BlockFits'
    <2>1. wchunk.len \in Offsets => 0 + wchunk.len =< DataLen - 1
      BY DataLenAssumption, SMT DEF Offsets
    <2>. QED BY <1>1, <1>3, <1>4, <2>1 DEF IInv, BlockFits
  <1>8. PiecesFit'
    <2>. SUFFICES ASSUME NEW d \in Consumers, HasPiece(d)' PROVE PieceFits(d)'
      BY DEF PiecesFit
    <2>1. d # c /\ HasPiece(d) /\ PieceFits(d)
      BY <1>3 DEF IInv, PiecesFit, HasPiece
    <2>2. consumerId[d] \in Registered(cb)
      BY <2>1 DEF IInv, SlotsOwned, Joined, HasPiece
    <2>. QED BY <1>1, <1>4, <2>1, <2>2 DEF PieceFits
  <1>. QED BY <1>1, <1>5, <1>6, <1>7, <1>8 DEF IInv

\* A piece is taken from what is available, up to the end of the buffer.
LEMMA DataStep ==
    ASSUME IInv, NEW c \in Consumers, Data(c)
    PROVE  IInv'
  <1> DEFINE i == consumerId[c]
             piece == ReadData(cb, i, readLen[c])
  <1>1. i \in Registered(cb) /\ readLen[c] \in Nat \ {0}
    BY DEF IInv, Typed, SlotsOwned, Joined, Data, InCritical
  <1>2. AvailableData(cb, i) \in Offsets
    BY <1>1, AvailableRange DEF IInv
  <1>3. locked' \in BOOLEAN /\ holders' \subseteq Threads
    BY DEF IInv, Typed, Data, Release, CondWait, Unlock
  <1>4. waiting' \subseteq Consumers
    BY DEF IInv, Typed, Data, Release, CondWait
  <1>5. pc' \in [Threads -> AnyLabels]
    BY DEF IInv, Typed, Data, Goto, AnyLabels, Labels, CriticalLabels
  <1>6. CASE cb.recordingActive /\ ~(AvailableData(cb, i) < readLen[c])
    <2>1. readLen[c] =< AvailableData(cb, i)
      BY <1>1, <1>2, <1>6, SMT DEF Offsets
    <2>2. /\ piece \in 1 .. AvailableData(cb, i)
          /\ cb.readerOffset[i] + piece =< DataLen
      BY <1>1, <2>1, ReadDataPiece DEF IInv
    <2>3. piece \in Nat \ {0}
      BY <1>2, <2>2, SMT DEF Offsets
    <2>4. /\ \A t \in Threads \ {c} : pc'[t] = pc[t]
          /\ pc'[c] = "copy"
          /\ pc'[Producer] = pc[Producer]
      BY <1>6, OthersKeep DEF Data, AnyLabels, Labels
    <2>5. /\ UNCHANGED <<cb, wchunk, consumerId>>
          /\ readLen' = [readLen EXCEPT ![c] = piece]
      BY <1>6 DEF Data
    <2>6. Typed'
      <3>1. readLen' \in [Consumers -> Nat \ {0}]
        BY <2>3, <2>5 DEF IInv, Typed
      <3>. QED BY <1>3, <1>4, <1>5, <3>1 DEF IInv, Typed, Data, mainVars
    <2>7. SlotsOwned' /\ BlockFits'
      BY <2>4, <2>5 DEF IInv, SlotsOwned, BlockFits, Joined, Data, InCritical
    <2>8. PiecesFit'
      <3>1. PieceFits(c)'
        BY <2>2, <2>5 DEF PieceFits, IInv, Typed
      <3>2. \A d \in Consumers \ {c} : HasPiece(d)' => PieceFits(d)'
        BY <2>4, <2>5 DEF IInv, Typed, PiecesFit, PieceFits, HasPiece
      <3>. QED BY <3>1, <3>2 DEF PiecesFit
    <2>. QED BY <2>5, <2>6, <2>7, <2>8 DEF IInv
  <1>7. CASE ~(cb.recordingActive /\ ~(AvailableData(cb, i) < readLen[c]))
    <2>1. UNCHANGED <<cb, wchunk, consumerId, readLen>>
      BY <1>7 DEF Data
    <2>2. Typed'
      BY <1>3, <1>4, <1>5, <2>1 DEF IInv, Typed, Data, mainVars
    <2>3. /\ \A t \in Threads \ {c} : pc'[t] = pc[t]
          /\ pc'[c] \in {"data", "poll"}
      BY <1>7 DEF IInv, Typed, Data, Goto, InCritical
    <2>. QED BY <2>1, <2>2, <2>3, Frame DEF Joined, HasPiece, Data, InCritical
  <1>. QED BY <1>6, <1>7

\* Giving bytes back shortens one queue, whose owner has no other piece.
LEMMA Shortened ==
    ASSUME IInv, NEW c \in Consumers, HasPiece(c),
           NEW b, b = ConfirmRead(cb, consumerId[c], readLen[c])
    PROVE  /\ Sound(b, Bytes)
           /\ b.reader_cnt = cb.reader_cnt
           /\ consumerId[c] \in Registered(cb)
           /\ \A i \in Registered(cb) :
                  AvailableData(b, i) =< AvailableData(cb, i)
           /\ \A d \in Consumers \ {c} : HasPiece(d) =>
                  /\ b.readerOffset[consumerId[d]]
                         = cb.readerOffset[consumerId[d]]
                  /\ AvailableData(b, consumerId[d])
                         = AvailableData(cb, consumerId[d])
  <1> DEFINE i == consumerId[c]
  <1>1. i \in Registered(cb) /\ readLen[c] \in 1 .. AvailableData(cb, i)
    BY DEF IInv, SlotsOwned, PiecesFit, PieceFits, Joined, HasPiece
  <1>2. /\ Sound(b, Bytes)
        /\ b.reader_cnt = cb.reader_cnt
        /\ AvailableData(b, i) = AvailableData(cb, i) - readLen[c]
        /\ \A j \in Registered(cb) \ {i} :
               /\ b.readerOffset[j] = cb.readerOffset[j]
               /\ AvailableData(b, j) = AvailableData(cb, j)
    BY <1>1, ConfirmReadAmounts DEF IInv
  <1>3. \A j \in Registered(cb) : AvailableData(cb, j) \in Int
    BY AvailableRange DEF IInv, Offsets
  <1>4. \A j \in Registered(cb) : AvailableData(b, j) =< AvailableData(cb, j)
    BY <1>1, <1>2, <1>3, SMT
  <1>5. \A d \in Consumers \ {c} : HasPiece(d) =>
            consumerId[d] \in Registered(cb) \ {i}
    BY DEF IInv, SlotsOwned, Joined, HasPiece
  <1>. QED BY <1>1, <1>2, <1>4, <1>5

\* A block that fits beside the unread bytes fits beside fewer.
LEMMA StillFits ==
    ASSUME IInv, NEW b, Sound(b, Bytes), b.reader_cnt = cb.reader_cnt,
           \A i \in Registered(cb) :
               AvailableData(b, i) =< AvailableData(cb, i),
           pc[Producer] \in {"write", "commit"}
    PROVE  \A i \in Registered(b) :
               AvailableData(b, i) + wchunk.len =< DataLen - 1
  <1>. SUFFICES ASSUME NEW i \in Registered(b)
                PROVE  AvailableData(b, i) + wchunk.len =< DataLen - 1
    OBVIOUS
  <1>1. i \in Registered(cb)
    BY DEF Registered
  <1>2. AvailableData(b, i) \in Int /\ AvailableData(cb, i) \in Int
    BY <1>1, AvailableRange DEF IInv, Offsets
  <1>3. AvailableData(cb, i) + wchunk.len =< DataLen - 1 /\ wchunk.len \in Int
    BY <1>1 DEF IInv, BlockFits, Typed, Offsets
  <1>. QED BY <1>1, <1>2, <1>3, DataLenAssumption, SMT

\* A reader confirming what it has copied.
LEMMA ConfirmStep ==
    ASSUME IInv, NEW c \in Consumers, Confirm(c)
    PROVE  IInv'
  <1>1. HasPiece(c) /\ cb' = ConfirmRead(cb, consumerId[c], readLen[c])
    BY DEF Confirm, InCritical, HasPiece
  <1>2. /\ Sound(cb', Bytes)
        /\ cb'.reader_cnt = cb.reader_cnt
        /\ \A i \in Registered(cb) :
               AvailableData(cb', i) =< AvailableData(cb, i)
        /\ \A d \in Consumers \ {c} : HasPiece(d) =>
               /\ cb'.readerOffset[consumerId[d]]
                      = cb.readerOffset[consumerId[d]]
               /\ AvailableData(cb', consumerId[d])
                      = AvailableData(cb, consumerId[d])
    BY <1>1, Shortened
  <1>3. /\ \A t \in Threads \ {c} : pc'[t] = pc[t]
        /\ pc'[c] = "poll"
        /\ pc'[Producer] = pc[Producer]
        /\ UNCHANGED <<wchunk, consumerId, readLen>>
    BY OthersKeep DEF Confirm, AnyLabels, Labels, CriticalLabels, localVars
  <1>4. Typed'
    BY <1>2 DEF IInv, Typed, Confirm, Goto, Release, Unlock, mainVars,
                localVars, AnyLabels, Labels, CriticalLabels, Sound
  <1>5. SlotsOwned'
    BY <1>2, <1>3 DEF IInv, SlotsOwned, Joined, Registered, Confirm, InCritical
  <1>6. BlockFits'
    BY <1>2, <1>3, StillFits DEF BlockFits, IInv
  <1>7. PiecesFit'
    BY <1>2, <1>3 DEF IInv, PiecesFit, PieceFits, HasPiece
  <1>. QED BY <1>2, <1>4, <1>5, <1>6, <1>7 DEF IInv

\* The drain loop goes on from a buffer b with the last piece given back (or
\* from cb itself): with the next piece, or with a tail that is aligned
\* already.
LEMMA DrainFromStep ==
    ASSUME IInv, NEW c \in Consumers, pc[c] \in {"drain", "drain_confirm"},
           NEW b, Sound(b, Bytes), b.reader_cnt = cb.reader_cnt,
           consumerId[c] \in Registered(cb),
           \A i \in Registered(cb) :
               AvailableData(b, i) =< AvailableData(cb, i),
           \A d \in Consumers \ {c} : HasPiece(d) =>
               /\ b.readerOffset[consumerId[d]]
                      = cb.readerOffset[consumerId[d]]
               /\ AvailableData(b, consumerId[d])
                      = AvailableData(cb, consumerId[d]),
           DrainFrom(c, b)
    PROVE  IInv'
  <1> DEFINE i == consumerId[c]
             n == AvailableData(b, i)
             want == IF n > DrainChunk THEN DrainChunk ELSE n
             piece == ReadData(b, i, want)
  <1>1. i \in Registered(b) /\ n \in Offsets /\ n \in Nat
    <2>1. i \in Registered(b)
      BY DEF Registered
    <2>. QED BY <2>1, AvailableRange, SMT DEF Offsets
  <1>2. cb' = b
    BY <1>1, AlignTailIdle DEF DrainFrom
  <1>3. /\ \A t \in Threads \ {c} : pc'[t] = pc[t]
        /\ pc'[c] \in {"drain_copy", "send_end", "poll"}
        /\ pc'[Producer] = pc[Producer]
    BY OthersKeep DEF DrainFrom, AnyLabels, Labels, CriticalLabels
  <1>4. UNCHANGED <<wchunk, consumerId>>
    BY DEF DrainFrom
  <1>5. /\ \A d \in Consumers \ {c} : readLen'[d] = readLen[d]
        /\ n > 0 => /\ readLen' = [readLen EXCEPT ![c] = piece]
                    /\ readLen'[c] = piece
        /\ ~(n > 0) => pc'[c] # "drain_copy" /\ readLen' = readLen
    BY DEF DrainFrom, IInv, Typed, Goto
  <1>6. ASSUME n > 0
        PROVE  /\ piece \in 1 .. n
               /\ b.readerOffset[i] + piece =< DataLen
    <2>1. want \in Nat \ {0} /\ want =< n
      BY <1>1, <1>6, SizesAssumption, SMT
    <2>. HIDE DEF want
    <2>. QED BY <1>1, <2>1, ReadDataPiece
  <1>7. Typed'
    <2>1. readLen' \in [Consumers -> Nat \ {0}]
      <3>1. CASE n > 0
        <4>1. piece \in Nat \ {0}
          BY <1>1, <1>6, <3>1, SMT
        <4>. QED BY <1>5, <3>1, <4>1 DEF IInv, Typed
      <3>2. CASE ~(n > 0)
        BY <1>5, <3>2 DEF IInv, Typed
      <3>. QED BY <3>1, <3>2
    <2>2. locked' \in BOOLEAN /\ holders' \subseteq Threads /\ UNCHANGED waiting
      BY DEF IInv, Typed, DrainFrom, Release, Unlock
    <2>3. pc' \in [Threads -> AnyLabels]
      BY DEF IInv, Typed, DrainFrom, Goto, AnyLabels, Labels, CriticalLabels
    <2>4. /\ threadRecordingActive' \in [Consumers -> BOOLEAN]
          /\ out' \in [Consumers -> Recordings \cup {NoRecording, Closed}]
      BY DEF IInv, Typed, DrainFrom
    <2>5. cb' \in CircularBufferOf(Bytes)
      BY <1>2 DEF Sound
    <2>. QED BY <2>1, <2>2, <2>3, <2>4, <2>5 DEF IInv, Typed, DrainFrom,
                                                 mainVars
  <1>8. SlotsOwned'
    BY <1>2, <1>3, <1>4 DEF IInv, SlotsOwned, Joined, Registered
  <1>9. BlockFits'
    BY <1>2, <1>3, <1>4, StillFits DEF BlockFits, IInv
  <1>10. PiecesFit'
    <2>1. HasPiece(c)' => PieceFits(c)'
      BY <1>2, <1>3, <1>4, <1>5, <1>6 DEF HasPiece, PieceFits
    <2>2. \A d \in Consumers \ {c} : HasPiece(d)' => PieceFits(d)'
      BY <1>2, <1>3, <1>4, <1>5 DEF IInv, PiecesFit, PieceFits, HasPiece
    <2>. QED BY <2>1, <2>2 DEF PiecesFit
  <1>. QED BY <1>2, <1>7, <1>8, <1>9, <1>10 DEF IInv

\* Both places from which the code enters the head of the drain loop.
LEMMA DrainSteps ==
    ASSUME IInv, NEW c \in Consumers, Drain(c) \/ DrainConfirm(c)
    PROVE  IInv'
  <1>1. CASE Drain(c)
    <2>1. consumerId[c] \in Registered(cb) /\ pc[c] = "drain"
      BY <1>1 DEF IInv, SlotsOwned, Joined, Drain, InCritical
    <2>2. \A i \in Registered(cb) : AvailableData(cb, i) =< AvailableData(cb, i)
      <3>1. \A i \in Registered(cb) : AvailableData(cb, i) \in Int
        BY AvailableRange DEF IInv, Offsets
      <3>. QED BY <3>1
    <2>. QED BY <1>1, <2>1, <2>2, DrainFromStep DEF Drain, IInv
  <1>2. CASE DrainConfirm(c)
    <2> DEFINE b == ConfirmRead(cb, consumerId[c], readLen[c])
    <2>1. HasPiece(c) /\ pc[c] = "drain_confirm" /\ DrainFrom(c, b)
      BY <1>2 DEF DrainConfirm, InCritical, HasPiece
    <2>2. /\ Sound(b, Bytes)
          /\ b.reader_cnt = cb.reader_cnt
          /\ consumerId[c] \in Registered(cb)
          /\ \A i \in Registered(cb) :
                 AvailableData(b, i) =< AvailableData(cb, i)
          /\ \A d \in Consumers \ {c} : HasPiece(d) =>
                 /\ b.readerOffset[consumerId[d]]
                        = cb.readerOffset[consumerId[d]]
                 /\ AvailableData(b, consumerId[d])
                        = AvailableData(cb, consumerId[d])
      BY <2>1, Shortened
    <2>. HIDE DEF b
    <2>. QED BY <2>1, <2>2, DrainFromStep
  <1>. QED BY <1>1, <1>2

\* All that a consumer does.
LEMMA ConsumerKeepsIInv ==
    ASSUME IInv, NEW c \in Consumers, ConsumerStep(c)
    PROVE  IInv'
  BY QuietPreserves, RegisterStep, DataStep, ConfirmStep, DrainSteps
  DEF ConsumerStep, LoopStep, FileStep, NetStep, QuietStep

LEMMA StutterIInv ==
    ASSUME IInv, UNCHANGED vars
    PROVE  IInv'
  BY DEF vars, mainVars, mutexVars, localVars, IInv, Typed, SlotsOwned,
         BlockFits, PiecesFit, PieceFits, Joined, HasPiece

-----------------------------------------------------------------------------
(* The theorems on types and copies. *)

\* Each step keeps the invariant.
LEMMA NextIInv == IInv /\ [Next]_vars => IInv'
  <1>. SUFFICES ASSUME IInv, [Next]_vars PROVE IInv'
    OBVIOUS
  <1>1. CASE \E t \in Threads : Acquire(t)
    BY <1>1, AcquireStep
  <1>2. CASE MainStep
    BY <1>2, ScheduleStep, FlipStep DEF MainStep
  <1>3. CASE ProducerStep
    BY <1>3, ProduceStep, WriteStep, CommitStep, DeviceSteps DEF ProducerStep
  <1>. QED BY <1>1, <1>2, <1>3, ConsumerKeepsIInv, StutterIInv DEF Next

\* The invariant holds throughout.
LEMMA AlwaysIInv == Spec => []IInv
  BY InitIInv, NextIInv, PTL DEF Spec

\* The variables keep their types: in particular the head, every tail and
\* the reader count stay inside the structure of CircularBuffer.h.
THEOREM TypeCorrect == Spec => []TypeOK
  <1> DEFINE Own == /\ pc \in [Threads -> Labels]
                    /\ wchunk.len \in Offsets
  <1>1. IInv /\ Own => TypeOK
    BY DEF IInv, Typed, TypeOK
  <1>2. Init => Own
    <2>. SUFFICES ASSUME Init PROVE Own
      OBVIOUS
    <2>1. wchunk.len \in Offsets
      BY DataLenAssumption, SMT DEF Init, SessionInit, NoChunk, Offsets
    <2>2. pc \in [Threads -> Labels]
      BY DEF Init, SessionInit, Labels, CriticalLabels
    <2>. QED BY <2>1, <2>2
  <1>3. IInv /\ Own /\ [Next]_vars => Own'
    <2>. SUFFICES ASSUME IInv, Own, [Next]_vars PROVE Own'
      OBVIOUS
    <2>. USE DEF Goto, Labels, CriticalLabels
    <2>1. /\ NoChunk.len \in Offsets
          /\ \A len \in WriteSizes : len \in Offsets
      BY SizesAssumption, DataLenAssumption, SMT DEF NoChunk, Offsets
    <2>2. cb.recordingActive \in BOOLEAN
      BY DEF IInv, Typed, CircularBufferOf
    <2>3. CASE \E t \in Threads : Acquire(t)
      BY <2>3 DEF Acquire
    <2>4. CASE MainStep
      BY <2>4 DEF MainStep, Flip, Schedule
    <2>5. CASE ProducerStep
      BY <2>1, <2>5
      DEF ProducerStep, OpenDevice, Produce, Write, Commit, ReadFails
    <2>6. ASSUME NEW c \in Consumers, LoopStep(c) PROVE Own'
      <3>1. Branch(c, cb.recordingActive) \in Labels
        BY <2>2 DEF Branch
      <3>. QED BY <2>6, <3>1 DEF LoopStep, RegisterReader, Poll, Data, Confirm,
                                 Drain, DrainConfirm, DrainFrom
    <2>7. ASSUME NEW c \in Consumers, FileStep(c) PROVE Own'
      BY <2>7 DEF FileStep, StartFile, CopyToFile
    <2>8. ASSUME NEW c \in Consumers, NetStep(c) PROVE Own'
      BY <2>8 DEF NetStep, ReadPort, Listen, Accept, SendInactive, StartSend,
                  SendStart, SendData, SendDrained, UnlockAgain, SendEnd,
                  Disconnect
    <2>9. CASE UNCHANGED vars
      BY <2>9 DEF vars
    <2>. QED BY <2>3, <2>4, <2>5, <2>6, <2>7, <2>8, <2>9
             DEF Next, ConsumerStep
  <1>. QED BY <1>1, <1>2, <1>3, AlwaysIInv, PTL DEF Spec

\* A block that fits beside the unread bytes touches none of them.
LEMMA CopiesNeverMeet == IInv => NoTornRead
  <1>. SUFFICES ASSUME IInv, NEW c \in Consumers,
                       pc[Producer] = "write", Copying(c)
                PROVE  WriteOffsets(cb, wchunk.len)
                         \cap ReadOffsets(cb, consumerId[c], readLen[c]) = {}
    BY DEF NoTornRead
  <1>1. HasPiece(c) /\ Joined(c)
    BY DEF Copying, HasPiece, Joined
  <1>2. consumerId[c] \in Registered(cb)
    BY <1>1 DEF IInv, SlotsOwned
  <1>3. readLen[c] \in 1 .. AvailableData(cb, consumerId[c])
    BY <1>1 DEF IInv, PiecesFit, PieceFits
  <1>4. /\ AvailableData(cb, consumerId[c]) + wchunk.len =< DataLen - 1
        /\ wchunk.len \in Nat
    BY <1>2, SMT DEF IInv, BlockFits, Offsets
  <1>. QED BY <1>2, <1>3, <1>4, CopiesAreDisjoint DEF IInv

\* The copies that file_consumer.c:111, server_network_consumer.c:183 and
\* server_producer.c:77 make without the mutex never meet.
THEOREM NoTornReads == Spec => []NoTornRead
  BY CopiesNeverMeet, AlwaysIInv, PTL

\* A piece that is unread and contiguous lies inside the buffer.
LEMMA PiecesInside == IInv => PiecesAreUnread
  <1>. SUFFICES ASSUME IInv, NEW c \in Consumers, HasPiece(c)
                PROVE  /\ ReadOffsets(cb, consumerId[c], readLen[c])
                              \subseteq Offsets
                       /\ readLen[c] \in 1 .. AvailableData(cb, consumerId[c])
    BY DEF PiecesAreUnread
  <1>1. consumerId[c] \in Registered(cb)
    BY DEF IInv, SlotsOwned, Joined, HasPiece
  <1>2. cb.readerOffset[consumerId[c]] \in Offsets
    BY <1>1 DEF IInv, Sound
  <1>3. PieceFits(c)
    BY DEF IInv, PiecesFit
  <1>4. AvailableData(cb, consumerId[c]) \in Offsets
    BY <1>1, AvailableRange DEF IInv
  <1>. QED BY <1>2, <1>3, <1>4, DataLenAssumption, SMT
           DEF PieceFits, ReadOffsets, Offsets

\* What a consumer copies lies inside the buffer and was not read before.
THEOREM PiecesAlwaysUnread == Spec => []PiecesAreUnread
  BY PiecesInside, AlwaysIInv, PTL

-----------------------------------------------------------------------------
(* The mutex.  The one unlock that no lock precedes is reached after a      *)
(* failed send in the drain loop; without it the mutex does its work.       *)

NoneFailed == \A c \in Consumers : pc[c] # "drain_failed"

MutexInv == Typed /\ MutualExclusion /\ NoneFailed

\* A step takes the mutex when it is free, gives it back, or leaves it alone.
MutexMoves ==
    \/ UNCHANGED <<locked, holders>>
    \/ \E t \in holders : Unlock(t)
    \/ ~locked /\ locked' = TRUE /\ \E t \in Threads : holders' = holders \cup {t}

\* That is how a consumer treats the mutex.
LEMMA ConsumerMutex ==
    ASSUME MutexInv, "send_drain" \notin Faults, NEW c \in Consumers,
           ConsumerStep(c)
    PROVE  MutexMoves /\ NoneFailed'
  <1>. USE DEF MutexInv, Typed, Goto, MutexMoves, NoneFailed
  <1>1. CASE LoopStep(c)
    <2>1. MutexMoves
      BY <1>1 DEF LoopStep, RegisterReader, Poll, Data, Confirm, Drain,
                  DrainConfirm, DrainFrom, InCritical, Release, CondWait
    <2>2. Branch(c, cb.recordingActive) # "drain_failed"
      BY DEF Branch, CircularBufferOf
    <2>3. NoneFailed'
      BY <1>1, <2>2 DEF LoopStep, RegisterReader, Poll, Data, Confirm, Drain,
                        DrainConfirm, DrainFrom
    <2>. QED BY <2>1, <2>3
  <1>2. CASE FileStep(c)
    BY <1>2 DEF FileStep, StartFile, CopyToFile, InCritical, Release, mutexVars
  <1>3. CASE NetStep(c)
    <2>1. ~UnlockAgain(c)
      BY DEF UnlockAgain
    <2>2. MutexMoves
      BY <1>3, <2>1 DEF NetStep, ReadPort, Listen, Accept, SendInactive,
                        StartSend, SendStart, SendData, SendDrained, SendEnd,
                        Disconnect, InCritical, Release, mutexVars
    <2>3. NoneFailed'
      BY <1>3, <2>1 DEF NetStep, ReadPort, Listen, Accept, SendInactive,
                        StartSend, SendStart, SendData, SendDrained, SendEnd,
                        Disconnect
    <2>. QED BY <2>2, <2>3
  <1>. QED BY <1>1, <1>2, <1>3 DEF ConsumerStep

\* The threads of the server treat it so.
LEMMA MutexSteps ==
    ASSUME MutexInv, Next, "send_drain" \notin Faults
    PROVE  MutexMoves /\ NoneFailed'
  <1>. USE DEF MutexInv, Typed, Goto, MutexMoves, NoneFailed
  <1>1. ASSUME NEW t \in Threads, Acquire(t) PROVE MutexMoves /\ NoneFailed'
    BY <1>1 DEF Acquire
  <1>2. CASE MainStep
    <2>1. MutexMoves
      BY <1>2 DEF MainStep, Flip, Schedule, InCritical, Release, mutexVars
    <2>2. NoneFailed'
      BY <1>2 DEF MainStep, Flip, Schedule
    <2>. QED BY <2>1, <2>2
  <1>3. CASE ProducerStep
    <2>1. MutexMoves
      BY <1>3 DEF ProducerStep, OpenDevice, Produce, Write, Commit,
                  ReadFails, InCritical, Release, ReleaseAndBroadcast, mutexVars
    <2>2. NoneFailed'
      BY <1>3 DEF ProducerStep, OpenDevice, Produce, Write, Commit, ReadFails
    <2>. QED BY <2>1, <2>2
  <1>. QED BY <1>1, <1>2, <1>3, ConsumerMutex DEF Next

\* That keeps at most one thread inside.
LEMMA MutexKept ==
    ASSUME MutexInv, MutexMoves, Typed', NoneFailed'
    PROVE  MutexInv'
  <1>1. MutualExclusion'
    BY DEF MutexInv, MutexMoves, MutualExclusion, Unlock
  <1>. QED BY <1>1 DEF MutexInv

\* No thread has the mutex when the session begins.
LEMMA SessionInitMutexInv ==
    ASSUME NEW producing \in AnyLabels \ {"write", "commit"},
           NEW networking \in UnconnectedLabels,
           SessionInit(producing, networking)
    PROVE  MutexInv
  <1>1. Typed
    BY SessionInitIInv DEF IInv
  <1>. QED BY <1>1 DEF SessionInit, MutexInv, MutualExclusion, NoneFailed

LEMMA AlwaysMutexInv ==
    ASSUME "send_drain" \notin Faults
    PROVE  Spec => []MutexInv
  <1>1. Init => MutexInv
    BY SessionInitMutexInv DEF Init, AnyLabels, Labels
  <1>2. MutexInv /\ IInv /\ [Next]_vars => MutexInv'
    <2>. SUFFICES ASSUME MutexInv, IInv, [Next]_vars PROVE MutexInv'
      OBVIOUS
    <2>1. Typed'
      BY NextIInv DEF IInv
    <2>2. CASE Next
      BY <2>1, <2>2, MutexSteps, MutexKept
    <2>3. CASE UNCHANGED vars
      BY <2>1, <2>3 DEF vars, mutexVars, MutexInv, MutualExclusion, NoneFailed
    <2>. QED BY <2>2, <2>3
  <1>. QED BY <1>1, <1>2, AlwaysIInv, PTL DEF Spec

\* The critical sections of a session exclude one another, as long as no send
\* fails in the drain loop of server_network_consumer.c.
THEOREM MutexHolds ==
    ASSUME "send_drain" \notin Faults
    PROVE  Spec => []MutualExclusion
  <1>1. MutexInv => MutualExclusion
    BY DEF MutexInv
  <1>. QED BY <1>1, AlwaysMutexInv, PTL

-----------------------------------------------------------------------------
(* The two flags of a consumer and its output.  What the failing unlock     *)
(* does to the mutex does not matter here: a flag is local to its thread.   *)

\* The branch a consumer is in tells its two flags.
FlagsMatch(c) ==
    /\ pc[c] \in {"start", "send_start"} =>
           ~threadRecordingActive[c] /\ bufferRecordingActive[c]
    /\ pc[c] \in {"data", "copy", "confirm"} =>
           threadRecordingActive[c] /\ bufferRecordingActive[c]
    /\ pc[c] \in {"drain", "drain_copy", "drain_confirm", "drain_failed",
                  "send_end"} =>
           threadRecordingActive[c] /\ ~bufferRecordingActive[c]

\* c is between the start and the end of a recording.
Started(c) ==
    Joined(c) /\ (threadRecordingActive[c] \/ pc[c] = "send_start")

\* An output is open only then; a transmission is, whenever that is so (a file
\* is not, if the recording is not to be kept).
OutputMatches(c) ==
    /\ out[c] # Closed => Started(c)
    /\ c \in NetConsumers /\ Started(c) => out[c] # Closed

LocalInv(c) == FlagsMatch(c) /\ OutputMatches(c)

\* What LocalInv(c) depends on.
LocalState(c) ==
    <<pc[c], threadRecordingActive[c], bufferRecordingActive[c], out[c],
      consumerId[c]>>

\* A consumer's own steps keep its flags and its output in line.
LEMMA LocalSteps ==
    ASSUME Typed, NEW c \in Consumers, LocalInv(c), ConsumerStep(c)
    PROVE  LocalInv(c)'
  <1>. USE DEF LocalInv, FlagsMatch, OutputMatches, Started, Joined, Typed,
               InCritical, Goto
  <1>1. CASE RegisterReader(c)
    BY <1>1 DEF RegisterReader
  <1>2. CASE Poll(c)
    <2>1. cb.recordingActive \in BOOLEAN
      BY DEF CircularBufferOf
    <2>. QED BY <1>2, <2>1 DEF Poll, Branch
  <1>3. CASE Data(c)
    BY <1>3 DEF Data
  <1>4. CASE Confirm(c)
    BY <1>4 DEF Confirm, localVars
  <1>5. ASSUME NEW b, DrainFrom(c, b), pc[c] \in {"drain", "drain_confirm"}
        PROVE  LocalInv(c)'
    BY <1>5 DEF DrainFrom
  <1>6. CASE Drain(c) \/ DrainConfirm(c)
    BY <1>5, <1>6 DEF Drain, DrainConfirm
  <1>7. CASE StartFile(c)
    BY <1>7 DEF StartFile
  <1>8. CASE CopyToFile(c)
    BY <1>8 DEF CopyToFile, localVars
  <1>9. CASE ReadPort(c) \/ Listen(c) \/ Accept(c)
    BY <1>9 DEF ReadPort, Listen, Accept, localVars
  <1>10. CASE Disconnect(c)
    BY <1>10 DEF Disconnect
  <1>11. CASE SendInactive(c) /\ ~Disconnect(c)
    BY <1>11 DEF SendInactive, localVars
  <1>12. CASE StartSend(c)
    <2>1. recordingInfo # Closed
      BY RecordingsAssumption DEF NoRecording, Closed
    <2>. QED BY <1>12, <2>1 DEF StartSend
  <1>13. CASE SendStart(c) /\ ~Disconnect(c)
    BY <1>13 DEF SendStart
  <1>14. CASE SendData(c) /\ ~Disconnect(c)
    BY <1>14 DEF SendData, localVars
  <1>15. CASE SendDrained(c)
    BY <1>15 DEF SendDrained, localVars
  <1>16. CASE UnlockAgain(c)
    BY <1>16 DEF UnlockAgain
  <1>17. CASE SendEnd(c) /\ ~Disconnect(c)
    BY <1>17 DEF SendEnd
  <1>. QED BY <1>1, <1>2, <1>3, <1>4, <1>6, <1>7, <1>8, <1>9, <1>10, <1>11,
              <1>12, <1>13, <1>14, <1>15, <1>16, <1>17
           DEF ConsumerStep, LoopStep, FileStep, NetStep

\* Threads that are no consumers have no business with one.
LEMMA LocalToThread ==
    ASSUME Typed, NEW c \in Consumers, NEW t, t # c, UNCHANGED localVars,
           pc' = pc \/ \E label : Goto(t, label)
    PROVE  LocalState(c)' = LocalState(c)
  BY DEF Typed, LocalState, Goto, localVars

\* Nobody touches the flags of another.
LEMMA LocalToConsumer ==
    ASSUME Typed, NEW c \in Consumers, NEW d \in Consumers \ {c},
           ConsumerStep(d)
    PROVE  LocalState(c)' = LocalState(c)
  <1>1. /\ pc \in [Threads -> AnyLabels]
        /\ threadRecordingActive \in [Consumers -> BOOLEAN]
        /\ out \in [Consumers -> Recordings \cup {NoRecording, Closed}]
        /\ bufferRecordingActive \in [Consumers -> BOOLEAN]
        /\ consumerId \in [Consumers -> 0 .. ReaderMaxCap]
    BY DEF Typed
  <1>2. pc' = pc \/ \E label : Goto(d, label)
    BY DEF ConsumerStep, LoopStep, FileStep, NetStep, RegisterReader, Poll,
           Data, Confirm, Drain, DrainConfirm, DrainFrom, StartFile,
           CopyToFile, ReadPort, Listen, Accept, SendInactive, StartSend,
           SendStart, SendData, SendDrained, UnlockAgain, SendEnd, Disconnect
  <1>3. threadRecordingActive'[c] = threadRecordingActive[c]
    BY <1>1
    DEF ConsumerStep, LoopStep, FileStep, NetStep, RegisterReader, Poll,
        Data, Confirm, Drain, DrainConfirm, DrainFrom, StartFile,
        CopyToFile, ReadPort, Listen, Accept, SendInactive, StartSend,
        SendStart, SendData, SendDrained, UnlockAgain, SendEnd, Disconnect,
        localVars
  <1>4. bufferRecordingActive'[c] = bufferRecordingActive[c]
    BY <1>1
    DEF ConsumerStep, LoopStep, FileStep, NetStep, RegisterReader, Poll,
        Data, Confirm, Drain, DrainConfirm, DrainFrom, StartFile,
        CopyToFile, ReadPort, Listen, Accept, SendInactive, StartSend,
        SendStart, SendData, SendDrained, UnlockAgain, SendEnd, Disconnect,
        localVars
  <1>5. out'[c] = out[c]
    BY <1>1
    DEF ConsumerStep, LoopStep, FileStep, NetStep, RegisterReader, Poll,
        Data, Confirm, Drain, DrainConfirm, DrainFrom, StartFile,
        CopyToFile, ReadPort, Listen, Accept, SendInactive, StartSend,
        SendStart, SendData, SendDrained, UnlockAgain, SendEnd, Disconnect,
        localVars
  <1>6. consumerId'[c] = consumerId[c]
    BY <1>1
    DEF ConsumerStep, LoopStep, FileStep, NetStep, RegisterReader, Poll,
        Data, Confirm, Drain, DrainConfirm, DrainFrom, StartFile,
        CopyToFile, ReadPort, Listen, Accept, SendInactive, StartSend,
        SendStart, SendData, SendDrained, UnlockAgain, SendEnd, Disconnect,
        localVars
  <1>. QED BY <1>1, <1>2, <1>3, <1>4, <1>5, <1>6 DEF LocalState, Goto

LEMMA LocalToOwner ==
    ASSUME Typed, Next, NEW c \in Consumers, ~ConsumerStep(c)
    PROVE  LocalState(c)' = LocalState(c)
  <1>1. ASSUME NEW t \in Threads, Acquire(t)
        PROVE  LocalState(c)' = LocalState(c)
    BY <1>1 DEF Acquire, localVars, LocalState
  <1>2. CASE MainStep
    <2>1. UNCHANGED localVars /\ \E label : Goto(Main, label)
      BY <1>2 DEF MainStep, Schedule, Flip
    <2>. QED BY <2>1, LocalToThread
  <1>3. CASE ProducerStep
    <2>1. UNCHANGED localVars /\ (pc' = pc \/ \E label : Goto(Producer, label))
      BY <1>3 DEF ProducerStep, OpenDevice, Produce, Write, Commit, ReadFails
    <2>. QED BY <2>1, LocalToThread
  <1>. QED BY <1>1, <1>2, <1>3, LocalToConsumer DEF Next

\* What depends on the local state of a consumer only.
LEMMA LocalInvLocal ==
    ASSUME NEW c \in Consumers, LocalState(c)' = LocalState(c), LocalInv(c)
    PROVE  LocalInv(c)'
  BY DEF LocalState, LocalInv, FlagsMatch, OutputMatches, Started, Joined

\* Nothing is open when the session begins.
LEMMA SessionInitLocalInv ==
    ASSUME NEW producing, NEW networking \in UnconnectedLabels,
           SessionInit(producing, networking)
    PROVE  \A c \in Consumers : LocalInv(c)
  BY DEF SessionInit, LocalInv, FlagsMatch, OutputMatches, Started, Joined

\* Flags and outputs are in line throughout.
LEMMA AlwaysLocalInv == Spec => []\A c \in Consumers : LocalInv(c)
  <1> DEFINE Inv == \A c \in Consumers : LocalInv(c)
  <1>1. Init => Inv
    BY SessionInitLocalInv DEF Init
  <1>2. IInv /\ Inv /\ [Next]_vars => Inv'
    <2>. SUFFICES ASSUME IInv, Inv, [Next]_vars, NEW c \in Consumers
                  PROVE  LocalInv(c)'
      OBVIOUS
    <2>1. CASE ConsumerStep(c)
      BY <2>1, LocalSteps DEF IInv
    <2>2. CASE Next /\ ~ConsumerStep(c)
      BY <2>2, LocalToOwner, LocalInvLocal DEF IInv
    <2>3. CASE UNCHANGED vars
      BY <2>3, LocalInvLocal DEF vars, localVars, LocalState
    <2>. QED BY <2>1, <2>2, <2>3
  <1>. QED BY <1>1, <1>2, AlwaysIInv, PTL DEF Spec

\* A consumer that sends DATA or END is between START and END.
LEMMA StartsFirst ==
    (\A c \in Consumers : LocalInv(c)) => DataFollowsStart
  BY DEF DataFollowsStart, LocalInv, FlagsMatch, OutputMatches, Started, Joined

\* On every connection the DATA packets and the END come after a START,
\* wherever the connection before broke off (server_network_consumer.c:115
\* starts each with a flag of its own).
THEOREM DataAlwaysFollowsStart == Spec => []DataFollowsStart
  <1>1. (\A c \in Consumers : LocalInv(c)) => DataFollowsStart
    BY StartsFirst
  <1>. QED BY <1>1, AlwaysLocalInv, PTL

-----------------------------------------------------------------------------
(* The block between its copy and its commit. *)

\* Once the block is copied it lies behind the head.
BlockInPlace ==
    pc[Producer] = "commit" =>
        \A k \in 0 .. wchunk.len - 1 :
            cb.data_ptr[(cb.data_head_offset + k) % DataLen]
                = [rec |-> wchunk.rec, pos |-> k]

QInv == IInv /\ BlockInPlace

\* It has one of the sizes that the producer of the server writes.
BlockSized == pc[Producer] \in {"write", "commit"} => wchunk.len \in WriteSizes

\* What a step may do to the buffer, besides Write and Commit.
SameBytes ==
    /\ cb'.data_ptr = cb.data_ptr
    /\ cb'.data_head_offset = cb.data_head_offset

SameQueues ==
    /\ SameBytes
    /\ cb'.readerOffset = cb.readerOffset
    /\ cb'.reader_cnt = cb.reader_cnt

Joins ==
    /\ cb.reader_cnt < ReaderMaxCap
    /\ cb' = Register(cb)

Takes(i, n) ==
    /\ i \in Registered(cb)
    /\ n \in 1 .. AvailableData(cb, i)
    /\ cb' = ConfirmRead(cb, i, n)

\* The block in flight, if there is one, is the one there was.
SameBlock ==
    /\ wchunk' = wchunk
    /\ pc'[Producer] \in {"write", "commit"} => pc'[Producer] = pc[Producer]

\* A consumer moves no pc but its own, and has no business with the block.
LEMMA ConsumerMoves ==
    ASSUME IInv, NEW c \in Consumers, ConsumerStep(c)
    PROVE  SameBlock
  <1>1. wchunk' = wchunk
    BY DEF ConsumerStep, LoopStep, FileStep, NetStep, RegisterReader, Poll,
           Data, Confirm, Drain, DrainConfirm, DrainFrom, StartFile,
           CopyToFile, ReadPort, Listen, Accept, SendInactive, StartSend,
           SendStart, SendData, SendDrained, UnlockAgain, SendEnd, Disconnect
  <1>2. pc' = pc \/ \E label : Goto(c, label)
    BY DEF ConsumerStep, LoopStep, FileStep, NetStep, RegisterReader, Poll,
           Data, Confirm, Drain, DrainConfirm, DrainFrom, StartFile,
           CopyToFile, ReadPort, Listen, Accept, SendInactive, StartSend,
           SendStart, SendData, SendDrained, UnlockAgain, SendEnd, Disconnect
  <1>3. pc \in [Threads -> AnyLabels]
    BY DEF IInv, Typed
  <1>4. pc'[Producer] = pc[Producer]
    BY <1>2, <1>3 DEF Goto
  <1>. QED BY <1>1, <1>4 DEF SameBlock

\* A consumer changes the buffer by registering and by giving bytes back.
LEMMA ConsumerTakes ==
    ASSUME IInv, NEW c \in Consumers, ConsumerStep(c)
    PROVE  cb' = cb \/ Joins \/ \E i, n : Takes(i, n)
  <1>1. CASE QuietStep(c) \/ Data(c)
    BY <1>1 DEF QuietStep, Poll, StartFile, CopyToFile, SendInactive,
         StartSend, SendStart, SendData, SendDrained, UnlockAgain, SendEnd,
         Accept, ReadPort, Listen, Disconnect, Data
  <1>2. CASE RegisterReader(c)
    BY <1>2 DEF RegisterReader, Joins
  <1>3. ASSUME HasPiece(c)
        PROVE  /\ consumerId[c] \in Registered(cb)
               /\ readLen[c] \in 1 .. AvailableData(cb, consumerId[c])
    BY <1>3 DEF IInv, SlotsOwned, PiecesFit, PieceFits, Joined, HasPiece
  <1>4. CASE Confirm(c)
    <2>1. HasPiece(c)
      BY <1>4 DEF Confirm, InCritical, HasPiece
    <2>2. Takes(consumerId[c], readLen[c])
      BY <1>3, <1>4, <2>1 DEF Confirm, Takes
    <2>. QED BY <2>2
  <1>5. CASE Drain(c)
    <2>1. consumerId[c] \in Registered(cb) /\ Sound(cb, Bytes)
      BY <1>5 DEF IInv, SlotsOwned, Joined, Drain, InCritical
    <2>. QED BY <1>5, <2>1, AlignTailIdle DEF Drain, DrainFrom
  <1>6. CASE DrainConfirm(c)
    <2> DEFINE b == ConfirmRead(cb, consumerId[c], readLen[c])
    <2>1. HasPiece(c)
      BY <1>6 DEF DrainConfirm, InCritical, HasPiece
    <2>2. Sound(b, Bytes) /\ b.reader_cnt = cb.reader_cnt
      BY <2>1, Shortened
    <2>3. consumerId[c] \in Registered(b)
      BY <1>3, <2>1, <2>2 DEF Registered
    <2>4. DrainFrom(c, b)
      BY <1>6 DEF DrainConfirm
    <2>. HIDE DEF b
    <2>5. cb' = b
      BY <2>2, <2>3, <2>4, AlignTailIdle DEF DrainFrom
    <2>6. Takes(consumerId[c], readLen[c])
      BY <1>3, <2>1, <2>5 DEF Takes, b
    <2>. QED BY <2>6
  <1>. QED BY <1>1, <1>2, <1>4, <1>5, <1>6
           DEF ConsumerStep, LoopStep, FileStep, NetStep, QuietStep

\* The producer has found room for a block.
NewBlock ==
    /\ SameQueues
    /\ pc'[Producer] = "write"
    /\ wchunk'.len \in WriteSizes
    /\ wchunk'.rec = recordingInfo
    /\ cb.recordingActive

\* Every step is one of these.
LEMMA BufferMoves ==
    ASSUME IInv, Next
    PROVE  \/ Write
           \/ Commit
           \/ SameQueues /\ SameBlock
           \/ NewBlock
           \/ Joins /\ SameBlock
           \/ (\E i, n : Takes(i, n)) /\ SameBlock
  <1>1. pc \in [Threads -> AnyLabels]
    BY DEF IInv, Typed
  <1>2. ASSUME NEW t \in Threads, Acquire(t) PROVE SameQueues /\ SameBlock
    BY <1>2 DEF Acquire, SameQueues, SameBytes, SameBlock
  <1>3. CASE MainStep
    <2>1. wchunk' = wchunk /\ \E label : Goto(Main, label)
      BY <1>3 DEF MainStep, Schedule, Flip
    <2>2. SameBlock
      BY <1>1, <2>1 DEF Goto, SameBlock
    <2>3. SameQueues
      BY <1>3 DEF MainStep, Schedule, Flip, SameQueues, SameBytes,
                  CircularBufferOf, IInv, Typed
    <2>. QED BY <2>2, <2>3
  <1>4. CASE ProducerStep
    <2>1. ASSUME NEW len \in WriteSizes, Produce(len)
          PROVE  (SameQueues /\ SameBlock) \/ NewBlock
      <3>1. SameQueues
        BY <2>1 DEF Produce, SameQueues, SameBytes
      <3>2. CASE cb.recordingActive /\ WriterSpace(cb) >= len
        BY <1>1, <2>1, <3>1, <3>2 DEF Produce, Goto, NewBlock
      <3>3. CASE ~(cb.recordingActive /\ WriterSpace(cb) >= len)
        BY <2>1, <3>1, <3>3 DEF Produce, SameBlock
      <3>. QED BY <3>2, <3>3
    <2>2. CASE OpenDevice \/ ReadFails
      BY <1>1, <2>2
      DEF OpenDevice, ReadFails, SameQueues, SameBytes, SameBlock, Goto
    <2>. QED BY <1>4, <2>1, <2>2 DEF ProducerStep
  <1>5. ASSUME NEW c \in Consumers, ConsumerStep(c)
        PROVE  \/ SameQueues /\ SameBlock
               \/ Joins /\ SameBlock
               \/ (\E i, n : Takes(i, n)) /\ SameBlock
    BY <1>5, ConsumerMoves, ConsumerTakes DEF SameQueues, SameBytes
  <1>. QED BY <1>2, <1>3, <1>4, <1>5 DEF Next

\* The memcpy of the block.
LEMMA WriteMakesBlock ==
    ASSUME QInv, Write
    PROVE  BlockInPlace'
  <1> DEFINE src == Chunk(wchunk.rec, wchunk.len)
  <1>1. Sound(cb, Bytes) /\ wchunk.len \in Offsets
    BY DEF QInv, IInv, BlockFits, Write
  <1>2. /\ cb'.data_head_offset = cb.data_head_offset
        /\ cb'.data_ptr = MemWrite(cb, src, wchunk.len).data_ptr
        /\ wchunk' = wchunk
    BY DEF Write, MemWrite, QInv, IInv, Typed, CircularBufferOf
  <1>3. \A k \in 0 .. wchunk.len - 1 : src[k] = [rec |-> wchunk.rec, pos |-> k]
    BY DEF Chunk
  <1>. HIDE DEF src
  <1>4. \A k \in 0 .. wchunk.len - 1 :
            MemWrite(cb, src, wchunk.len)
                .data_ptr[(cb.data_head_offset + k) % DataLen] = src[k]
    BY <1>1, MemWriteBlock
  <1>. QED BY <1>1, <1>2, <1>3, <1>4 DEF BlockInPlace

\* Readers write nothing into the buffer, and do not move the head.
LEMMA ReadersKeepBytes ==
    ASSUME IInv, Joins \/ \E i, n : Takes(i, n)
    PROVE  SameBytes
  <1>1. ASSUME NEW i, NEW n, Takes(i, n) PROVE SameBytes
    BY <1>1 DEF Takes, ConfirmRead, SameBytes, IInv, Typed, CircularBufferOf
  <1>2. CASE Joins
    BY <1>2 DEF Joins, Register, SameBytes, IInv, Typed, CircularBufferOf
  <1>. QED BY <1>1, <1>2

\* Nothing moves the head or writes into the buffer while a block waits for
\* its commit.
LEMMA BlockStays ==
    ASSUME BlockInPlace, SameBytes, SameBlock
    PROVE  BlockInPlace'
  BY DEF SameBytes, SameBlock, BlockInPlace

LEMMA NextQInv == QInv /\ [Next]_vars => QInv'
  <1>. SUFFICES ASSUME QInv, [Next]_vars PROVE BlockInPlace'
    BY NextIInv DEF QInv
  <1>1. CASE UNCHANGED vars
    BY <1>1 DEF vars, QInv, BlockInPlace
  <1>2. CASE Next
    <2>1. CASE Write
      BY <2>1, WriteMakesBlock
    <2>2. CASE Commit
      <3>1. pc'[Producer] = "produce"
        BY <2>2 DEF Commit, Goto, QInv, IInv, Typed
      <3>. QED BY <3>1 DEF BlockInPlace
    <2>3. CASE NewBlock
      BY <2>3 DEF NewBlock, BlockInPlace
    <2>. QED BY <1>2, <2>1, <2>2, <2>3, BlockStays, BufferMoves,
                ReadersKeepBytes DEF SameQueues, QInv
  <1>. QED BY <1>1, <1>2

LEMMA NextBlockSized == QInv /\ BlockSized /\ [Next]_vars => BlockSized'
  <1>. SUFFICES ASSUME QInv, BlockSized, [Next]_vars PROVE BlockSized'
    OBVIOUS
  <1>1. CASE UNCHANGED vars
    BY <1>1 DEF vars, BlockSized
  <1>2. CASE Next
    <2>1. CASE Write
      BY <2>1 DEF Write, BlockSized
    <2>2. CASE Commit
      <3>1. pc'[Producer] = "produce"
        BY <2>2 DEF Commit, Goto, QInv, IInv, Typed
      <3>. QED BY <3>1 DEF BlockSized
    <2>3. CASE NewBlock
      BY <2>3 DEF NewBlock, BlockSized
    <2>4. CASE SameBlock
      BY <2>4 DEF SameBlock, BlockSized
    <2>. QED BY <1>2, <2>1, <2>2, <2>3, <2>4, BufferMoves DEF QInv
  <1>. QED BY <1>1, <1>2

\* The invariants hold throughout.
LEMMA AlwaysQInv == Spec => [](QInv /\ BlockSized)
  <1>1. Init => QInv /\ BlockSized
    BY InitIInv DEF QInv, BlockInPlace, BlockSized, Init, SessionInit
  <1>. QED BY <1>1, NextQInv, NextBlockSized, PTL DEF Spec

-----------------------------------------------------------------------------
(* The refinement. *)

\* The state of BroadcastQueue, as the session represents it.
queue == [i \in 1 .. cb.reader_cnt |-> Unread(i - 1)]

\* Every queue is a sequence of bytes, within the capacity.
LEMMA QueueType ==
    ASSUME QInv
    PROVE  /\ cb.reader_cnt \in Nat
           /\ queue \in Seq(Seq(Bytes)) /\ Len(queue) = cb.reader_cnt
           /\ DOMAIN queue = 1 .. cb.reader_cnt
           /\ \A i \in DOMAIN queue :
                  /\ i - 1 \in Registered(cb)
                  /\ queue[i] = UnreadOf(cb, i - 1)
                  /\ queue[i] \in Seq(Bytes)
                  /\ Len(queue[i]) = AvailableData(cb, i - 1)
                  /\ Len(queue[i]) \in Offsets
  <1>1. Sound(cb, Bytes) /\ cb.reader_cnt \in Nat
    BY ReaderMaxCapAssumption, SMT
    DEF QInv, IInv, Sound, CircularBufferOf
  <1>2. \A i \in 1 .. cb.reader_cnt : i - 1 \in Registered(cb)
    BY <1>1, SMT DEF Registered
  <1>3. \A i : Unread(i) = UnreadOf(cb, i)
    BY DEF Unread, UnreadOf
  <1>4. \A i \in 1 .. cb.reader_cnt :
            /\ Unread(i - 1) \in Seq(Bytes)
            /\ Len(Unread(i - 1)) = AvailableData(cb, i - 1)
            /\ AvailableData(cb, i - 1) \in Offsets
    BY <1>1, <1>2, <1>3, UnreadIsSeq, AvailableRange
  <1>5. queue \in [1 .. cb.reader_cnt -> Seq(Bytes)]
    BY <1>4 DEF queue
  <1>6. queue \in Seq(Seq(Bytes)) /\ Len(queue) = cb.reader_cnt
    BY <1>1, <1>5, SMT
  <1>. QED BY <1>1, <1>2, <1>3, <1>4, <1>5, <1>6 DEF queue

\* The queues after a step, in terms of the buffer after it.
LEMMA QueueNext ==
    queue' = [i \in 1 .. cb'.reader_cnt |-> UnreadOf(cb', i - 1)]
  BY DEF queue, Unread, UnreadOf

\* If no slot's unread bytes change, no queue does.
LEMMA QueueStutters ==
    ASSUME QInv, cb'.reader_cnt = cb.reader_cnt,
           \A i \in Registered(cb) : UnreadOf(cb', i) = UnreadOf(cb, i)
    PROVE  queue' = queue
  <1>1. \A i \in 1 .. cb.reader_cnt : UnreadOf(cb', i - 1) = Unread(i - 1)
    BY QueueType DEF queue
  <1>. QED BY <1>1, QueueNext DEF queue

\* The unlocked copy changes no unread byte.
LEMMA WriteKeepsUnread ==
    ASSUME QInv, Write
    PROVE  /\ cb'.reader_cnt = cb.reader_cnt
           /\ \A i \in Registered(cb) :
                  /\ UnreadOf(cb', i) = UnreadOf(cb, i)
                  /\ AvailableData(cb', i) = AvailableData(cb, i)
  <1> DEFINE src == Chunk(wchunk.rec, wchunk.len)
  <1>1. /\ wchunk.len \in Offsets
        /\ wchunk.rec \in Recordings \cup {NoRecording}
        /\ Sound(cb, Bytes)
        /\ cb' = MemWrite(cb, src, wchunk.len)
    BY DEF QInv, IInv, Typed, BlockFits, Write
  <1>2. src \in [0 .. wchunk.len - 1 -> Bytes]
    <2>1. \A k \in 0 .. wchunk.len - 1 : k \in Offsets
      BY <1>1, DataLenAssumption, SMT DEF Offsets
    <2>. QED BY <1>1, <2>1 DEF Chunk, Bytes
  <1>3. \A i \in Registered(cb) :
            AvailableData(cb, i) + wchunk.len =< DataLen - 1
    BY DEF QInv, IInv, BlockFits, Write
  <1>. HIDE DEF src
  <1>4. \A i \in Registered(cb) : UnreadOf(cb', i) = UnreadOf(cb, i)
    BY <1>1, <1>2, <1>3, MemWriteUnread
  <1>. QED BY <1>1, <1>2, <1>4, MemWriteAmounts

\* So it changes no queue.
LEMMA WriteStutters ==
    ASSUME QInv, Write
    PROVE  queue' = queue
  BY WriteKeepsUnread, QueueStutters

\* What the producer commits.
BlockInFlight ==
    [k \in 1 .. wchunk.len |-> [rec |-> wchunk.rec, pos |-> k - 1]]

\* A commit appends the block to the unread bytes of every reader.
LEMMA CommitAppends ==
    ASSUME QInv, Commits
    PROVE  /\ BlockInFlight \in Seq(Bytes) /\ Len(BlockInFlight) = wchunk.len
           /\ wchunk.len \in Nat
           /\ wchunk.rec \in Recordings \cup {NoRecording}
           /\ cb'.reader_cnt = cb.reader_cnt
           /\ \A i \in Registered(cb) :
                  /\ AvailableData(cb, i) + wchunk.len =< DataLen - 1
                  /\ AvailableData(cb', i) = AvailableData(cb, i) + wchunk.len
                  /\ UnreadOf(cb', i) = UnreadOf(cb, i) \o BlockInFlight
  <1> DEFINE len == wchunk.len
  <1>1. /\ len \in Offsets /\ len \in Nat
        /\ wchunk.rec \in Recordings \cup {NoRecording}
        /\ Sound(cb, Bytes)
        /\ cb' = ConfirmWrite(cb, len)
        /\ pc[Producer] = "commit"
    BY SMT DEF QInv, IInv, Typed, BlockFits, Commits, Offsets
  <1>2. BlockInFlight \in Seq(Bytes) /\ Len(BlockInFlight) = len
    <2>1. \A k \in 1 .. len : k - 1 \in Offsets
      BY <1>1, DataLenAssumption, SMT DEF Offsets
    <2>2. BlockInFlight \in [1 .. len -> Bytes]
      BY <1>1, <2>1 DEF BlockInFlight, Bytes
    <2>. QED BY <1>1, <2>2, SMT
  <1>3. \A k \in 1 .. len :
            cb.data_ptr[(cb.data_head_offset + (k - 1)) % DataLen]
                = BlockInFlight[k]
    <2>1. \A k \in 1 .. len : k - 1 \in 0 .. len - 1
      BY <1>1, SMT
    <2>. QED BY <1>1, <2>1 DEF QInv, BlockInPlace, BlockInFlight
  <1>4. \A i \in Registered(cb) : AvailableData(cb, i) + len =< DataLen - 1
    BY <1>1 DEF QInv, IInv, BlockFits
  <1>. HIDE DEF len
  <1>5. \A i \in Registered(cb) :
            UnreadOf(cb', i) = UnreadOf(cb, i) \o BlockInFlight
    BY <1>1, <1>2, <1>3, <1>4, ConfirmWriteUnread, ZenonT(60)
  <1>6. /\ cb'.reader_cnt = cb.reader_cnt
        /\ \A i \in Registered(cb) :
               AvailableData(cb', i) = AvailableData(cb, i) + len
    BY <1>1, <1>4, ConfirmWriteAmounts
  <1>. QED BY <1>1, <1>2, <1>4, <1>5, <1>6 DEF len

\* A commit puts the block into every queue.
LEMMA CommitPuts ==
    ASSUME QInv, Commits
    PROVE  /\ Queues!Put(BlockInFlight)
           /\ BlockInFlight \in BlocksOf(wchunk.len)
           /\ wchunk.len \in Offsets
  <1>1. BlockInFlight \in BlocksOf(wchunk.len)
    BY CommitAppends DEF BlocksOf, BlockInFlight
  <1>2. \A i \in DOMAIN queue :
            Len(queue[i]) + Len(BlockInFlight) <= DataLen - 1
    BY CommitAppends, QueueType
  <1>3. queue' = [i \in DOMAIN queue |-> queue[i] \o BlockInFlight]
    BY CommitAppends, QueueNext, QueueType
  <1>4. Queues!Put(BlockInFlight)
    BY <1>2, <1>3 DEF Queues!Put, queue
  <1>5. wchunk.len \in Offsets
    BY DEF QInv, IInv, BlockFits, Commits
  <1>. QED BY <1>1, <1>4, <1>5

\* A registration lets a reader join.
LEMMA RegisterJoins ==
    ASSUME QInv, Joins
    PROVE  Queues!Join
  <1> DEFINE n == cb.reader_cnt
  <1>1. /\ Sound(cb, Bytes) /\ cb' = Register(cb) /\ n < ReaderMaxCap
        /\ n \in Nat
    BY QueueType DEF QInv, IInv, Joins
  <1>2. /\ UnreadOf(cb', n) = <<>>
        /\ \A i \in Registered(cb) : UnreadOf(cb', i) = UnreadOf(cb, i)
        /\ cb'.reader_cnt = n + 1
    BY <1>1, RegisterUnread, RegisterAmounts
  <1>3. \A i \in 1 .. n : UnreadOf(cb', i - 1) = queue[i]
    BY <1>2, QueueType
  <1>4. UnreadOf(cb', (n + 1) - 1) = <<>>
    <2>1. (n + 1) - 1 = n
      BY <1>1, SMT
    <2>. QED BY <1>2, <2>1
  <1>5. queue' = [i \in 1 .. n + 1 |-> IF i \in 1 .. n THEN queue[i] ELSE <<>>]
    <2>1. \A i \in 1 .. n + 1 : i \notin 1 .. n => i = n + 1
      BY <1>1, SMT
    <2>. QED BY <1>2, <1>3, <1>4, <2>1, QueueNext
  <1>6. Append(queue, <<>>)
            = [i \in 1 .. n + 1 |-> IF i \in 1 .. n THEN queue[i] ELSE <<>>]
    <2> DEFINE longer == Append(queue, <<>>)
    <2>1. queue \in Seq(Seq(Bytes)) /\ Len(queue) = n /\ <<>> \in Seq(Bytes)
      BY QueueType, EmptySeq
    <2>2. /\ longer \in Seq(Seq(Bytes)) /\ Len(longer) = n + 1
          /\ \A i \in 1 .. n : longer[i] = queue[i]
          /\ longer[n + 1] = <<>>
      BY <2>1, AppendProperties
    <2>. HIDE DEF longer
    <2>3. longer \in [1 .. n + 1 -> Seq(Bytes)]
      BY <2>2, LenProperties
    <2>4. \A i \in 1 .. n + 1 : i \notin 1 .. n => i = n + 1
      BY <1>1, SMT
    <2>5. longer = [i \in 1 .. n + 1 |-> IF i \in 1 .. n THEN queue[i] ELSE <<>>]
      BY <2>2, <2>3, <2>4
    <2>. QED BY <2>5 DEF longer
  <1>. QED BY <1>5, <1>6 DEF Queues!Join, queue

\* A confirmation takes from the front of one queue.
LEMMA ConfirmTakes ==
    ASSUME QInv, NEW j, NEW n, Takes(j, n)
    PROVE  \E i \in DOMAIN queue : \E m \in 1 .. DataLen - 1 : Queues!Take(i, m)
  <1>1. /\ Sound(cb, Bytes) /\ j \in Registered(cb)
        /\ n \in 1 .. AvailableData(cb, j)
        /\ cb' = ConfirmRead(cb, j, n)
    BY DEF QInv, IInv, Takes
  <1>2. /\ j + 1 \in 1 .. cb.reader_cnt /\ (j + 1) - 1 = j
        /\ \A i \in 1 .. cb.reader_cnt : i # j + 1 => i - 1 # j
    BY <1>1, QueueType, SMT DEF Registered
  <1>3. /\ UnreadOf(cb', j)
               = SubSeq(UnreadOf(cb, j), n + 1, Len(UnreadOf(cb, j)))
        /\ \A i \in Registered(cb) \ {j} : UnreadOf(cb', i) = UnreadOf(cb, i)
        /\ cb'.reader_cnt = cb.reader_cnt
    BY <1>1, ConfirmReadUnread, ConfirmReadAmounts
  <1>4. queue' = [queue EXCEPT
                    ![j + 1] = SubSeq(@, n + 1, Len(@))]
    BY <1>2, <1>3, QueueNext, QueueType
  <1>5. n \in 1 .. Len(queue[j + 1]) /\ n \in 1 .. DataLen - 1
    <2>1. Len(queue[j + 1]) = AvailableData(cb, j)
      BY <1>2, QueueType
    <2>2. AvailableData(cb, j) \in Offsets
      BY <1>1, AvailableRange
    <2>. QED BY <1>1, <2>1, <2>2, DataLenAssumption, SMT DEF Offsets
  <1>6. Queues!Take(j + 1, n)
    BY <1>4, <1>5 DEF Queues!Take, queue
  <1>7. j + 1 \in DOMAIN queue
    BY <1>2, QueueType
  <1>. QED BY <1>5, <1>6, <1>7

\* Every step of the session is a step of the queues, or changes none.
LEMMA QueueSteps ==
    ASSUME QInv, BlockSized, [Next]_vars
    PROVE  Queues!Next \/ queue' = queue
  <1>1. CASE UNCHANGED vars
    BY <1>1 DEF vars, queue, Unread
  <1>2. CASE Next
    <2>1. CASE SameQueues
      <3>1. \A i \in Registered(cb) : UnreadOf(cb', i) = UnreadOf(cb, i)
        BY <2>1 DEF SameQueues, SameBytes, UnreadOf, UnreadOffset, AvailableData
      <3>. QED BY <2>1, <3>1, QueueStutters DEF SameQueues
    <2>2. CASE Commit
      <3>1. Commits
        BY <2>2 DEF Commit, Commits, InCritical
      <3>2. /\ Queues!Put(BlockInFlight)
            /\ BlockInFlight \in UNION {BlocksOf(len) : len \in WriteSizes}
        BY <3>1, CommitPuts DEF BlockSized, Commits
      <3>. QED BY <3>2 DEF Queues!Next
    <2>3. CASE Joins
      BY <2>3, RegisterJoins DEF Queues!Next
    <2>4. CASE \E i, n : Takes(i, n)
      BY <2>4, ConfirmTakes DEF Queues!Next, queue
    <2>. QED BY <1>2, <2>1, <2>2, <2>3, <2>4, BufferMoves, WriteStutters
             DEF QInv, NewBlock
  <1>. QED BY <1>1, <1>2

\* The ring buffer, its mutex and all its threads implement a bounded FIFO
\* queue per reader: between a commit of the producer
\* (server_producer.c:79) and a confirmation (file_consumer.c:117) no byte is
\* lost, repeated, reordered or overwritten.
THEOREM SessionIsQueues == Spec => ImplementsQueues
  <1>1. Init => Queues!Init
    <2>. SUFFICES ASSUME Init PROVE queue = <<>>
      BY DEF Queues!Init, queue
    <2>1. QInv
      BY InitIInv DEF QInv, BlockInPlace, Init, SessionInit
    <2>2. cb.reader_cnt = 0
      BY DEF Init, SessionInit, EmptyBuffer
    <2>. QED BY <2>1, <2>2, QueueType, EmptySeq
  <1>2. QInv /\ BlockSized /\ [Next]_vars => [Queues!Next]_queue
    BY QueueSteps
  <1>. QED BY <1>1, <1>2, AlwaysQInv, PTL
           DEF Spec, ImplementsQueues, Queues!Spec, queue

-----------------------------------------------------------------------------
(* Whose bytes a queue holds, if the consumers keep up with the flips.      *)

InFlight == pc[Producer] \in {"write", "commit"}

\* Of the unread bytes of slot i only the first may be of other recordings
\* than `own', and no more than one block holds.  A block of another recording
\* that is still in flight will find the queue empty.
Mixed(i, own) ==
    /\ \A k \in 1 .. AvailableData(cb, i) :
           UnreadOf(cb, i)[k].rec \notin own => \E len \in WriteSizes : k =< len
    /\ InFlight => wchunk.rec \in own \/ AvailableData(cb, i) = 0

\* c has drained its queue, or has not had one to drain.
Drained(c) == ~threadRecordingActive[c] \/ pc[c] = "send_end"

\* The queue of c while a recording is active; while c has still to wind it
\* down; and until the next.
QueueOf(c) ==
    /\ cb.recordingActive =>
           /\ Mixed(consumerId[c], {recordingInfo})
           /\ out[c] # Closed => out[c] = recordingInfo
    /\ ~cb.recordingActive =>
           /\ out[c] # Closed => Mixed(consumerId[c], {out[c]})
           /\ Drained(c) => Mixed(consumerId[c], {})

\* The scheduler alternates, and flips when all have settled.
InStep ==
    /\ cb.recordingActive <=> recordingInfo # NoRecording
    /\ \/ pc[Main] = "schedule" /\ currentRecording = recordingInfo
       \/ /\ pc[Main] = "flip"
          /\ currentRecording # recordingInfo
          /\ NoRecording \in {currentRecording, recordingInfo}
    /\ Main \in holders =>
           \A c \in Consumers : Settled(c) \/ pc[c] = "register"
    /\ \A c \in Consumers : pc[c] = "start" => cb.recordingActive

RInv ==
    /\ QInv /\ BlockSized
    /\ MutexInv
    /\ InStep
    /\ \A c \in Consumers : LocalInv(c) /\ (Joined(c) => QueueOf(c))

\* A reader takes the front of its queue.
LEMMA TakenFront ==
    ASSUME IInv, NEW i, NEW m, Takes(i, m)
    PROVE  /\ m \in 1 .. AvailableData(cb, i) /\ AvailableData(cb, i) > 0
           /\ AvailableData(cb', i) = AvailableData(cb, i) - m
           /\ AvailableData(cb, i) - m \in Nat
           /\ \A k \in 1 .. AvailableData(cb, i) - m :
                  /\ m + k \in 1 .. AvailableData(cb, i)
                  /\ UnreadOf(cb', i)[k] = UnreadOf(cb, i)[m + k]
  <1> DEFINE n == AvailableData(cb, i)
             u == UnreadOf(cb, i)
  <1>1. /\ i \in Registered(cb) /\ m \in 1 .. n
        /\ cb' = ConfirmRead(cb, i, m) /\ Sound(cb, Bytes)
    BY DEF Takes, IInv
  <1>2. n \in Nat /\ u \in Seq(Bytes) /\ Len(u) = n
    BY <1>1, UnreadIsSeq, LenProperties
  <1>3. /\ UnreadOf(cb', i) = SubSeq(u, m + 1, n)
        /\ AvailableData(cb', i) = n - m
    BY <1>1, <1>2, ConfirmReadUnread, ConfirmReadAmounts
  <1>4. n > 0 /\ n - m \in Nat
    BY <1>1, <1>2, SMT
  <1>5. ASSUME NEW k \in 1 .. n - m
        PROVE  m + k \in 1 .. n /\ SubSeq(u, m + 1, n)[k] = u[m + k]
    <2>1. m + k \in 1 .. n
      BY <1>1, <1>2, SMT
    <2>2. /\ m + 1 \in Int /\ n \in Int
          /\ k \in 1 .. n - (m + 1) + 1 /\ (m + 1) + k - 1 = m + k
      BY <1>1, <1>2, SMT
    <2>3. \A x \in m + 1 .. n : u[x] \in Bytes
      <3>1. \A x \in m + 1 .. n : x \in 1 .. Len(u)
        BY <1>1, <1>2
      <3>. QED BY <1>2, <3>1, ElementOfSeq
    <2>. HIDE DEF n, u
    <2>. QED BY <2>1, <2>2, <2>3, SubSeqProperties
  <1>. QED BY <1>1, <1>3, <1>4, <1>5

\* A mixture stays one, if the blocks the producer now starts are its own.
LEMMA MixedNext ==
    ASSUME QInv, BlockSized, Next,
           NEW i \in Registered(cb), NEW own, Mixed(i, own),
           NewBlock => recordingInfo \in own
    PROVE  Mixed(i, own)'
  <1> DEFINE n == AvailableData(cb, i)
             u == UnreadOf(cb, i)
  <1>1. n \in Nat /\ u \in Seq(Bytes) /\ Len(u) = n
    BY UnreadIsSeq, LenProperties DEF QInv, IInv
  <1>2. CASE /\ UnreadOf(cb', i) = u
             /\ AvailableData(cb', i) = n
             /\ SameBlock
    BY <1>2 DEF Mixed, InFlight, SameBlock
  <1>3. CASE Write
    <2>1. InFlight /\ wchunk' = wchunk
      BY <1>3 DEF Write, InFlight
    <2>. QED BY <1>3, <2>1, WriteKeepsUnread DEF Mixed
  <1>4. CASE Commit
    <2> DEFINE len == wchunk.len
    <2>a. Commits
      BY <1>4 DEF Commit, Commits, InCritical
    <2>1. /\ len \in Nat /\ len \in WriteSizes
          /\ AvailableData(cb', i) = n + len
          /\ UnreadOf(cb', i) = u \o BlockInFlight
          /\ BlockInFlight \in Seq(Bytes) /\ Len(BlockInFlight) = len
          /\ \A k \in 1 .. len : BlockInFlight[k].rec = wchunk.rec
      BY <2>a, CommitAppends DEF BlockInFlight, BlockSized, Commits
    <2>2. ~InFlight'
      BY <1>4 DEF Commit, Goto, InFlight, QInv, IInv, Typed
    <2>3. InFlight
      BY <1>4 DEF Commit, InCritical, InFlight
    <2>4. ASSUME NEW k \in 1 .. n + len,
                 UnreadOf(cb', i)[k].rec \notin own
          PROVE  \E l \in WriteSizes : k =< l
      <3>1. UnreadOf(cb', i)[k]
                = IF k <= n THEN u[k] ELSE BlockInFlight[k - n]
        <4>. HIDE DEF n, u, len
        <4>. QED BY <1>1, <2>1, ConcatProperties
      <3>2. CASE k <= n
        <4>1. k \in 1 .. n
          BY <1>1, <3>2
        <4>. QED BY <2>4, <3>1, <3>2, <4>1 DEF Mixed
      <3>3. CASE ~(k <= n)
        <4>1. k - n \in 1 .. len
          BY <1>1, <2>1, <3>3, SMT
        <4>2. wchunk.rec \notin own
          BY <2>1, <2>4, <3>1, <3>3, <4>1
        <4>3. n = 0
          BY <2>3, <4>2 DEF Mixed
        <4>4. k =< len
          BY <2>1, <4>1, <4>3, SMT
        <4>. QED BY <2>1, <4>4
      <3>. QED BY <3>2, <3>3
    <2>. QED BY <2>1, <2>2, <2>4 DEF Mixed
  <1>5. CASE SameQueues /\ SameBlock
    <2>1. UnreadOf(cb', i) = u /\ AvailableData(cb', i) = n
      BY <1>5 DEF SameQueues, SameBytes, UnreadOf, UnreadOffset, AvailableData
    <2>. QED BY <1>2, <1>5, <2>1
  <1>6. CASE NewBlock
    <2>1. UnreadOf(cb', i) = u /\ AvailableData(cb', i) = n
      BY <1>6 DEF NewBlock, SameQueues, SameBytes, UnreadOf, UnreadOffset,
                  AvailableData
    <2>. QED BY <1>6, <2>1 DEF Mixed, NewBlock
  <1>7. CASE Joins /\ SameBlock
    <2>1. UnreadOf(cb', i) = u /\ AvailableData(cb', i) = n
      BY <1>7, RegisterUnread, RegisterAmounts DEF Joins, QInv, IInv
    <2>. QED BY <1>2, <1>7, <2>1
  <1>8. ASSUME NEW j, NEW m, Takes(j, m), SameBlock PROVE Mixed(i, own)'
    <2>1. /\ j \in Registered(cb) /\ m \in 1 .. AvailableData(cb, j)
          /\ cb' = ConfirmRead(cb, j, m) /\ Sound(cb, Bytes)
      BY <1>8 DEF Takes, QInv, IInv
    <2>2. CASE j # i
      <3>1. UnreadOf(cb', i) = u /\ AvailableData(cb', i) = n
        BY <2>1, <2>2, ConfirmReadUnread, ConfirmReadAmounts
      <3>. QED BY <1>2, <1>8, <3>1
    <2>3. CASE j = i
      <3>1. /\ AvailableData(cb', i) = n - m
            /\ m \in 1 .. n /\ n > 0 /\ n - m \in Nat
        BY <1>8, <2>3, TakenFront DEF QInv
      <3>3. InFlight' => wchunk'.rec \in own
        BY <1>8, <3>1 DEF Mixed, SameBlock, InFlight
      <3>4. ASSUME NEW k \in 1 .. n - m
            PROVE  m + k \in 1 .. n /\ UnreadOf(cb', i)[k] = u[m + k]
        BY <1>8, <2>3, TakenFront DEF QInv
      <3>5. ASSUME NEW k \in 1 .. n - m, UnreadOf(cb', i)[k].rec \notin own
            PROVE  \E l \in WriteSizes : k =< l
        <4>1. PICK l \in WriteSizes : m + k =< l
          BY <3>4, <3>5 DEF Mixed
        <4>2. l \in Int
          BY SizesAssumption
        <4>3. k =< l
          BY <1>1, <3>1, <4>1, <4>2, SMT
        <4>. QED BY <4>3
      <3>. QED BY <3>1, <3>3, <3>5 DEF Mixed
    <2>. QED BY <2>2, <2>3
  <1>. QED BY <1>2, <1>3, <1>4, <1>5, <1>6, <1>7, <1>8, BufferMoves DEF QInv

\* A reader that has just registered has nothing of anybody.
LEMMA NothingIsMixed ==
    ASSUME NEW i, AvailableData(cb, i) = 0, NEW own
    PROVE  Mixed(i, own)
  BY SMT DEF Mixed

\* More may be its own.
LEMMA MixedWeaker ==
    ASSUME NEW i, NEW own, Mixed(i, {})
    PROVE  Mixed(i, own)
  BY DEF Mixed

\* The mixture is in the buffer and in the block, not in the flag.
LEMMA FlipKeepsMixed ==
    ASSUME QInv, Flip, NEW i, NEW own, Mixed(i, own)
    PROVE  Mixed(i, own)'
  <1>1. /\ cb'.data_ptr = cb.data_ptr
        /\ cb'.data_head_offset = cb.data_head_offset
        /\ cb'.readerOffset = cb.readerOffset
    BY DEF Flip, QInv, IInv, Typed, CircularBufferOf
  <1>2. pc'[Producer] = pc[Producer] /\ wchunk' = wchunk
    BY DEF Flip, Goto, QInv, IInv, Typed
  <1>3. UnreadOf(cb', i) = UnreadOf(cb, i)
        /\ AvailableData(cb', i) = AvailableData(cb, i)
    BY <1>1 DEF UnreadOf, UnreadOffset, AvailableData
  <1>. QED BY <1>2, <1>3 DEF Mixed, InFlight

\* A consumer does not touch the flag, nor the item.
LEMMA ConsumerKeepsFlag ==
    ASSUME IInv, NEW c \in Consumers, ConsumerStep(c)
    PROVE  /\ cb'.recordingActive = cb.recordingActive
           /\ UNCHANGED mainVars
           /\ \A t \in Threads \ {c} : pc'[t] = pc[t]
  <1>1. cb \in CircularBufferOf(Bytes) /\ pc \in [Threads -> AnyLabels]
    BY DEF IInv, Typed
  <1>2. /\ UNCHANGED mainVars
        /\ pc' = pc \/ \E label : Goto(c, label)
    BY DEF ConsumerStep, LoopStep, FileStep, NetStep, RegisterReader, Poll,
           Data, Confirm, Drain, DrainConfirm, DrainFrom, StartFile,
           CopyToFile, ReadPort, Listen, Accept, SendInactive, StartSend,
           SendStart, SendData, SendDrained, UnlockAgain, SendEnd, Disconnect
  <1>3. cb'.recordingActive = cb.recordingActive
    BY <1>1, ConsumerTakes
    DEF Joins, Takes, Register, ConfirmRead, CircularBufferOf
  <1>. QED BY <1>1, <1>2, <1>3 DEF Goto

\* Only Flip touches the flag and the item.
LEMMA FlagKept ==
    ASSUME QInv, Next, ~Flip
    PROVE  /\ cb'.recordingActive = cb.recordingActive
           /\ recordingInfo' = recordingInfo
  <1>1. cb \in CircularBufferOf(Bytes)
    BY DEF QInv, IInv, Typed
  <1>2. ASSUME NEW t \in Threads, Acquire(t)
        PROVE  UNCHANGED <<cb, recordingInfo>>
    BY <1>2 DEF Acquire, mainVars
  <1>3. CASE MainStep
    BY <1>3 DEF MainStep, Schedule
  <1>4. CASE ProducerStep
    BY <1>1, <1>4 DEF ProducerStep, OpenDevice, Produce, Write, Commit,
       ReadFails, MemWrite, ConfirmWrite, mainVars, CircularBufferOf
  <1>5. ASSUME NEW c \in Consumers, ConsumerStep(c)
        PROVE  /\ cb'.recordingActive = cb.recordingActive
               /\ recordingInfo' = recordingInfo
    BY <1>5, ConsumerKeepsFlag DEF QInv, mainVars
  <1>. QED BY <1>2, <1>3, <1>4, <1>5 DEF Next

\* Nothing is left behind an aligned tail.
LEMMA AlignedIsEmpty ==
    ASSUME NEW Byte, NEW b, Sound(b, Byte), NEW i \in Registered(b)
    PROVE  AvailableData(AlignTail(b, i), i) = 0
  <1>1. i \in Slots /\ b.data_head_offset \in Offsets
    BY ReaderMaxCapAssumption, SMT
    DEF Sound, CircularBufferOf, Registered, Slots
  <1>2. /\ AlignTail(b, i).readerOffset[i] = b.data_head_offset
        /\ AlignTail(b, i).data_head_offset = b.data_head_offset
    BY <1>1 DEF AlignTail, Sound, CircularBufferOf
  <1>. QED BY <1>1, <1>2, SMT DEF AvailableData, Offsets

\* The drain loop ends with an empty queue.
LEMMA DrainEnds ==
    ASSUME IInv, NEW c \in Consumers, Drain(c) \/ DrainConfirm(c)
    PROVE  \/ UNCHANGED threadRecordingActive /\ pc'[c] = "drain_copy"
           \/ AvailableData(cb', consumerId[c]) = 0
  <1>1. ASSUME NEW b, Sound(b, Bytes), consumerId[c] \in Registered(b),
               DrainFrom(c, b)
        PROVE  \/ UNCHANGED threadRecordingActive /\ pc'[c] = "drain_copy"
               \/ AvailableData(cb', consumerId[c]) = 0
    BY <1>1, AlignedIsEmpty DEF DrainFrom, Goto, IInv, Typed
  <1>2. CASE Drain(c)
    <2>1. consumerId[c] \in Registered(cb) /\ Sound(cb, Bytes)
      BY <1>2 DEF IInv, SlotsOwned, Joined, Drain, InCritical
    <2>. QED BY <1>1, <1>2, <2>1 DEF Drain
  <1>3. CASE DrainConfirm(c)
    <2> DEFINE b == ConfirmRead(cb, consumerId[c], readLen[c])
    <2>1. HasPiece(c) /\ DrainFrom(c, b)
      BY <1>3 DEF DrainConfirm, InCritical, HasPiece
    <2>2. Sound(b, Bytes) /\ consumerId[c] \in Registered(b)
      BY <2>1, Shortened DEF Registered
    <2>. HIDE DEF b
    <2>. QED BY <1>1, <2>1, <2>2
  <1>. QED BY <1>2, <1>3

\* A consumer gets to its start branch from a poll that saw the flag.
LEMMA StartsWhenActive ==
    ASSUME IInv, NEW c \in Consumers, ConsumerStep(c), pc'[c] = "start"
    PROVE  cb.recordingActive
  <1>1. pc \in [Threads -> AnyLabels] /\ cb.recordingActive \in BOOLEAN
    BY DEF IInv, Typed, CircularBufferOf
  <1>. USE DEF Goto, InCritical
  <1>2. CASE Poll(c)
    BY <1>1, <1>2 DEF Poll, Branch
  <1>3. CASE ~Poll(c)
    BY <1>1, <1>3 DEF ConsumerStep, LoopStep, FileStep, NetStep,
       RegisterReader, Data, Confirm, Drain, DrainConfirm, DrainFrom,
       StartFile, CopyToFile, ReadPort, Listen, Accept, SendInactive,
       StartSend, SendStart, SendData, SendDrained, UnlockAgain, SendEnd,
       Disconnect
  <1>. QED BY <1>2, <1>3

\* What a step does to a consumer that is and stays registered: where its
\* output comes from, and how it comes to be drained.
LEMMA LocalMoves ==
    ASSUME IInv, NEW c \in Consumers, LocalInv(c), ConsumerStep(c),
           Joined(c), Joined(c)'
    PROVE  /\ consumerId'[c] = consumerId[c]
           /\ \/ out'[c] \in {out[c], Closed}
              \/ pc[c] = "start" /\ out'[c] = recordingInfo
           /\ Drained(c)' =>
                  Drained(c) \/ AvailableData(cb', consumerId[c]) = 0
  <1>1. ~RegisterReader(c)
    BY DEF RegisterReader, InCritical, Joined
  <1>2. consumerId' = consumerId
    BY <1>1 DEF ConsumerStep, LoopStep, FileStep, NetStep, Poll, Data,
       Confirm, Drain, DrainConfirm, DrainFrom, StartFile, CopyToFile,
       ReadPort, Listen, Accept, SendInactive, StartSend, SendStart, SendData,
       SendDrained, UnlockAgain, SendEnd, Disconnect, localVars
  <1>3. \/ out'[c] \in {out[c], Closed}
        \/ pc[c] = "start" /\ out'[c] = recordingInfo
    BY <1>1 DEF ConsumerStep, LoopStep, FileStep, NetStep, Poll, Data,
       Confirm, Drain, DrainConfirm, DrainFrom, StartFile, CopyToFile,
       ReadPort, Listen, Accept, SendInactive, StartSend, SendStart, SendData,
       SendDrained, UnlockAgain, SendEnd, Disconnect, localVars, InCritical,
       IInv, Typed
  <1>. USE DEF FlagsMatch, LocalInv, Goto, InCritical
  <1>4. /\ pc \in [Threads -> AnyLabels]
        /\ threadRecordingActive \in [Consumers -> BOOLEAN]
        /\ bufferRecordingActive \in [Consumers -> BOOLEAN]
        /\ cb.recordingActive \in BOOLEAN
    BY DEF IInv, Typed, CircularBufferOf
  <1>5. Drained(c)' => Drained(c) \/ AvailableData(cb', consumerId[c]) = 0
    <2>1. CASE Drain(c) \/ DrainConfirm(c)
      <3>1. CASE UNCHANGED threadRecordingActive /\ pc'[c] = "drain_copy"
        BY <3>1 DEF Drained
      <3>. QED BY <2>1, <3>1, DrainEnds
    <2>2. CASE Poll(c)
      <3>1. Branch(c, cb.recordingActive) # "send_end"
        BY <1>4 DEF Branch
      <3>. QED BY <1>4, <2>2, <3>1 DEF Poll, Drained
    <2>3. CASE StartFile(c) \/ SendStart(c) \/ SendEnd(c)
      BY <1>4, <2>3 DEF StartFile, SendStart, SendEnd, Drained
    <2>4. CASE ~(Drain(c) \/ DrainConfirm(c) \/ Poll(c) \/ StartFile(c)
                   \/ SendStart(c) \/ SendEnd(c))
      BY <1>1, <1>4, <2>4 DEF ConsumerStep, LoopStep, FileStep, NetStep,
         Data, Confirm, CopyToFile, ReadPort, Listen, Accept, SendInactive,
         StartSend, SendData, SendDrained, UnlockAgain, Disconnect, localVars,
         Drained
    <2>. QED BY <2>1, <2>2, <2>3, <2>4
  <1>. QED BY <1>2, <1>3, <1>5

\* Between the lock and the flip of another thread no consumer comes out of
\* step: with the mutex gone it can only copy, send, lose its client or gain
\* one.
LEMMA StaysSettled ==
    ASSUME IInv, MutexInv, NEW t \in holders \ Consumers,
           NEW c \in Consumers, LocalInv(c),
           Settled(c) \/ pc[c] = "register", ConsumerStep(c)
    PROVE  Settled(c)' \/ pc'[c] = "register"
  <1>1. \A label : ~InCritical(c, label)
    BY DEF InCritical, MutexInv, MutualExclusion
  <1>2. ~UnlockAgain(c)
    BY DEF UnlockAgain, MutexInv, NoneFailed
  <1>3. \/ CopyToFile(c) \/ Listen(c) \/ Accept(c) \/ SendInactive(c)
        \/ SendStart(c) \/ SendData(c) \/ SendDrained(c) \/ SendEnd(c)
    BY <1>1, <1>2
    DEF ConsumerStep, LoopStep, FileStep, NetStep, RegisterReader, Poll, Data,
        Confirm, Drain, DrainConfirm, StartFile, ReadPort, StartSend
  <1>4. cb' = cb
    BY <1>3 DEF CopyToFile, Listen, Accept, SendInactive, SendStart, SendData,
                SendDrained, SendEnd, Disconnect
  <1>. USE DEF Settled, Goto, LocalInv, FlagsMatch, IInv, Typed
  <1>5. CASE Listen(c) \/ Accept(c)
    BY <1>5 DEF Listen, Accept
  <1>6. CASE Disconnect(c)
    BY <1>6 DEF Disconnect
  <1>7. CASE CopyToFile(c) \/ SendDrained(c)
    BY <1>4, <1>7 DEF CopyToFile, SendDrained, localVars
  <1>8. CASE (SendInactive(c) \/ SendData(c)) /\ ~Disconnect(c)
    BY <1>4, <1>8 DEF SendInactive, SendData, localVars
  <1>9. CASE (SendStart(c) \/ SendEnd(c)) /\ ~Disconnect(c)
    BY <1>9 DEF SendStart, SendEnd
  <1>. QED BY <1>3, <1>5, <1>6, <1>7, <1>8, <1>9

\* Who is settled stays so, as long as neither it nor the flag moves.
LEMMA OthersStaySettled ==
    ASSUME NEW c \in Consumers, LocalState(c)' = LocalState(c),
           cb'.recordingActive = cb.recordingActive,
           Settled(c) \/ pc[c] = "register"
    PROVE  Settled(c)' \/ pc'[c] = "register"
  BY DEF LocalState, Settled

\* What everybody but Main leaves alone.
LEMMA MainKept ==
    ASSUME IInv, Next, ~MainStep
    PROVE  pc'[Main] = pc[Main] /\ UNCHANGED mainVars
  <1>1. pc \in [Threads -> AnyLabels]
    BY DEF IInv, Typed
  <1>2. ASSUME NEW t \in Threads, Acquire(t)
        PROVE  pc'[Main] = pc[Main] /\ UNCHANGED mainVars
    BY <1>2 DEF Acquire
  <1>3. CASE ProducerStep
    <2>1. /\ UNCHANGED mainVars
          /\ pc' = pc \/ \E label : Goto(Producer, label)
      BY <1>3 DEF ProducerStep, OpenDevice, Produce, Write, Commit, ReadFails
    <2>. QED BY <1>1, <2>1 DEF Goto
  <1>4. ASSUME NEW c \in Consumers, ConsumerStep(c)
        PROVE  pc'[Main] = pc[Main] /\ UNCHANGED mainVars
    BY <1>4, ConsumerKeepsFlag
  <1>. QED BY <1>2, <1>3, <1>4 DEF Next

\* A consumer gives the mutex back; it gets it by Acquire.
LEMMA ConsumerReleases ==
    ASSUME NEW c \in Consumers, ConsumerStep(c)
    PROVE  holders' \subseteq holders
  BY DEF ConsumerStep, LoopStep, FileStep, NetStep, RegisterReader, Poll,
         Data, Confirm, Drain, DrainConfirm, DrainFrom, StartFile,
         CopyToFile, ReadPort, Listen, Accept, SendInactive, StartSend,
         SendStart, SendData, SendDrained, UnlockAgain, SendEnd, Disconnect,
         Release, CondWait, Unlock, mutexVars

\* Main is in the mutex only after its lock.
LEMMA MainEnters ==
    ASSUME MutexInv, Next, Main \in holders', Main \notin holders
    PROVE  Acquire(Main)
  <1>1. ASSUME NEW t \in Threads, Acquire(t) PROVE Acquire(Main)
    BY <1>1 DEF Acquire
  <1>2. CASE MainStep
    BY <1>2 DEF MainStep, Schedule, Flip, Release, Unlock, mutexVars
  <1>3. CASE ProducerStep
    BY <1>3 DEF ProducerStep, OpenDevice, Produce, Write, Commit, ReadFails,
                Release, ReleaseAndBroadcast, Unlock, mutexVars
  <1>. QED BY <1>1, <1>2, <1>3, ConsumerReleases DEF Next

\* A consumer joins by registering.
LEMMA JoinsByRegistering ==
    ASSUME IInv, NEW c \in Consumers, ConsumerStep(c), ~RegisterReader(c),
           Joined(c)'
    PROVE  Joined(c)
  BY DEF ConsumerStep, LoopStep, FileStep, NetStep, Poll, Data, Confirm, Drain,
         DrainConfirm, DrainFrom, StartFile, CopyToFile, ReadPort, Listen,
         Accept, SendInactive, StartSend, SendStart, SendData, SendDrained,
         UnlockAgain, SendEnd, Disconnect, InCritical, Goto, Joined, IInv,
         Typed

\* The scheduler and the consumers stay in step.
LEMMA InStepNext ==
    ASSUME SlowFlips, QInv, MutexInv, InStep, Next,
           \A c \in Consumers : LocalInv(c)
    PROVE  InStep'
  <1>1. pc \in [Threads -> AnyLabels]
    BY DEF QInv, IInv, Typed
  <1>2. CASE Flip
    <2>1. /\ cb'.recordingActive = (currentRecording # NoRecording)
          /\ recordingInfo' = currentRecording
          /\ currentRecording' = currentRecording
          /\ pc'[Main] = "schedule"
          /\ Main \in holders /\ Main \notin holders'
          /\ \A c \in Consumers : pc'[c] = pc[c]
      BY <1>1, <1>2 DEF Flip, InCritical, Release, Unlock, Goto, QInv, IInv,
                        Typed, CircularBufferOf
    <2>2. \A c \in Consumers : pc[c] # "start"
      BY <2>1 DEF InStep, Settled, LocalInv, FlagsMatch
    <2>. QED BY <2>1, <2>2 DEF InStep
  <1>3. CASE ~Flip
    <2>1. /\ cb'.recordingActive = cb.recordingActive
          /\ recordingInfo' = recordingInfo
      BY <1>3, FlagKept
    <2>2. \/ pc'[Main] = "schedule" /\ currentRecording' = recordingInfo'
          \/ /\ pc'[Main] = "flip"
             /\ currentRecording' # recordingInfo'
             /\ NoRecording \in {currentRecording', recordingInfo'}
      <3>1. CASE MainStep
        BY <1>1, <1>3, <3>1 DEF MainStep, Schedule, Goto, InStep
      <3>2. CASE ~MainStep
        BY <3>2, MainKept DEF QInv, mainVars, InStep
      <3>. QED BY <3>1, <3>2
    <2>3. ASSUME NEW c \in Consumers, pc'[c] = "start"
          PROVE  cb.recordingActive
      <3>1. CASE ConsumerStep(c)
        BY <2>3, <3>1, StartsWhenActive DEF QInv
      <3>2. CASE ~ConsumerStep(c)
        BY <2>3, <3>2, LocalToOwner DEF LocalState, InStep, QInv, IInv
      <3>. QED BY <3>1, <3>2
    <2>4. ASSUME Main \in holders', NEW c \in Consumers
          PROVE  Settled(c)' \/ pc'[c] = "register"
      <3>1. Settled(c) \/ pc[c] = "register"
        <4>1. CASE Main \in holders
          BY <4>1 DEF InStep
        <4>2. CASE Main \notin holders
          BY <2>4, <4>2, MainEnters DEF Acquire, FlipDue
        <4>. QED BY <4>1, <4>2
      <3>2. CASE ~ConsumerStep(c)
        BY <2>1, <3>1, <3>2, LocalToOwner, OthersStaySettled DEF QInv, IInv
      <3>3. CASE ConsumerStep(c) /\ Main \in holders
        BY <3>1, <3>3, StaysSettled DEF QInv
      <3>4. CASE ConsumerStep(c) /\ Main \notin holders
        <4>1. Acquire(Main)
          BY <2>4, <3>4, MainEnters
        <4>2. LocalState(c)' = LocalState(c)
          BY <4>1 DEF Acquire, LocalState, localVars
        <4>. QED BY <2>1, <3>1, <4>2, OthersStaySettled
      <3>. QED BY <3>2, <3>3, <3>4
    <2>. QED BY <2>1, <2>2, <2>3, <2>4 DEF InStep
  <1>. QED BY <1>2, <1>3

\* Where a consumer's state comes from, whoever steps.
LEMMA OutAndDrained ==
    ASSUME IInv, Next, NEW c \in Consumers, LocalInv(c), Joined(c), Joined(c)'
    PROVE  /\ consumerId'[c] = consumerId[c]
           /\ \/ out'[c] \in {out[c], Closed}
              \/ pc[c] = "start" /\ out'[c] = recordingInfo
           /\ Drained(c)' =>
                  Drained(c) \/ AvailableData(cb', consumerId[c]) = 0
  <1>1. CASE ConsumerStep(c)
    BY <1>1, LocalMoves
  <1>2. CASE ~ConsumerStep(c)
    <2>1. LocalState(c)' = LocalState(c)
      BY <1>2, LocalToOwner DEF IInv
    <2>. QED BY <2>1 DEF LocalState, Drained
  <1>. QED BY <1>1, <1>2

\* A flip finds the queues ready for it.
LEMMA FlipQueueOf ==
    ASSUME RInv, Flip, NEW c \in Consumers, Joined(c)'
    PROVE  QueueOf(c)'
  <1>1. /\ cb'.recordingActive = (currentRecording # NoRecording)
        /\ recordingInfo' = currentRecording
        /\ Main \in holders /\ pc[Main] = "flip"
        /\ pc'[c] = pc[c] /\ UNCHANGED localVars
    BY DEF Flip, InCritical, Goto, RInv, QInv, IInv, Typed, CircularBufferOf
  <1>2. Joined(c) /\ QueueOf(c) /\ Settled(c) /\ LocalInv(c)
    BY <1>1 DEF Joined, RInv, InStep
  <1>3. /\ threadRecordingActive[c] = cb.recordingActive
        /\ bufferRecordingActive[c] = cb.recordingActive
    BY <1>2 DEF Settled, Joined
  <1>. PICK i : i = consumerId[c]
    OBVIOUS
  <1>4. CASE cb.recordingActive
    <2>. PICK r : r = recordingInfo
      OBVIOUS
    <2>1. ~cb'.recordingActive
      BY <1>1, <1>4 DEF RInv, InStep
    <2>2. out[c] # Closed => out[c] = r
      BY <1>2, <1>4 DEF QueueOf
    <2>3. Mixed(i, {r})'
      BY <1>2, <1>4, FlipKeepsMixed DEF QueueOf, RInv
    <2>4. ~Drained(c)'
      BY <1>1, <1>2, <1>3, <1>4 DEF Drained, LocalInv, FlagsMatch, localVars
    <2>. QED BY <1>1, <2>1, <2>2, <2>3, <2>4 DEF QueueOf, localVars, Mixed
  <1>5. CASE ~cb.recordingActive
    <2>. PICK r : r = currentRecording
      OBVIOUS
    <2>1. cb'.recordingActive
      BY <1>1, <1>5 DEF RInv, InStep
    <2>2. Drained(c)
      BY <1>3, <1>5 DEF Drained
    <2>3. Mixed(i, {r})'
      BY <1>2, <1>5, <2>2, MixedWeaker, FlipKeepsMixed DEF QueueOf, RInv
    <2>4. out[c] = Closed
      BY <1>2, <1>3, <1>5 DEF LocalInv, FlagsMatch, OutputMatches, Started
    <2>. QED BY <1>1, <2>1, <2>3, <2>4 DEF QueueOf, localVars, Mixed
  <1>. QED BY <1>4, <1>5

\* A registration starts with an empty queue and no output.
LEMMA RegisterQueueOf ==
    ASSUME RInv, NEW c \in Consumers, RegisterReader(c)
    PROVE  QueueOf(c)'
  <1>1. /\ consumerId'[c] = cb.reader_cnt
        /\ AvailableData(cb', cb.reader_cnt) = 0
    BY RegisterAmounts DEF RegisterReader, RInv, QInv, IInv, Typed
  <1>2. out'[c] = Closed
    BY DEF RegisterReader, InCritical, RInv, LocalInv, OutputMatches, Started,
           Joined
  <1>3. AvailableData(cb', consumerId'[c]) = 0
    BY <1>1
  <1>. QED BY <1>2, <1>3, SMT DEF QueueOf, Mixed

\* Any other step leaves the flag alone, and the queue as it should be.
LEMMA StepQueueOf ==
    ASSUME RInv, Next, ~Flip, NEW c \in Consumers, Joined(c), Joined(c)'
    PROVE  QueueOf(c)'
  <1>1. /\ cb'.recordingActive = cb.recordingActive
        /\ recordingInfo' = recordingInfo
    BY FlagKept DEF RInv
  <1>2. /\ consumerId'[c] = consumerId[c]
        /\ \/ out'[c] \in {out[c], Closed}
           \/ pc[c] = "start" /\ out'[c] = recordingInfo
        /\ Drained(c)' =>
               Drained(c) \/ AvailableData(cb', consumerId[c]) = 0
    BY OutAndDrained DEF RInv, QInv
  <1>3. QueueOf(c) /\ consumerId[c] \in Registered(cb)
    BY DEF RInv, QInv, IInv, SlotsOwned
  <1>. PICK i : i = consumerId[c]
    OBVIOUS
  <1>4. CASE cb.recordingActive
    <2>. PICK r : r = recordingInfo
      OBVIOUS
    <2>1. Mixed(i, {r})'
      BY <1>3, <1>4, MixedNext DEF QueueOf, RInv
    <2>2. out'[c] # Closed => out'[c] = r
      BY <1>2, <1>3, <1>4 DEF QueueOf
    <2>. QED BY <1>1, <1>2, <1>4, <2>1, <2>2 DEF QueueOf, Mixed
  <1>5. CASE ~cb.recordingActive
    <2>. PICK r : r = out[c]
      OBVIOUS
    <2>1. ~NewBlock
      BY <1>5 DEF NewBlock
    <2>2. pc[c] # "start"
      BY <1>5 DEF RInv, InStep
    <2>3. out'[c] # Closed => out'[c] = r /\ Mixed(i, {r})'
      BY <1>2, <1>3, <1>5, <2>1, <2>2, MixedNext DEF QueueOf, RInv
    <2>4. Drained(c)' => Mixed(i, {})'
      <3>1. CASE Drained(c)
        BY <1>3, <1>5, <2>1, <3>1, MixedNext DEF QueueOf, RInv
      <3>2. CASE AvailableData(cb', i) = 0
        BY <3>2, SMT DEF Mixed
      <3>. QED BY <1>2, <3>1, <3>2
    <2>. QED BY <1>1, <1>2, <1>5, <2>3, <2>4 DEF QueueOf, Mixed
  <1>. QED BY <1>4, <1>5

\* The strengthened invariant is one.
LEMMA AlwaysRInv ==
    ASSUME SlowFlips, "send_drain" \notin Faults
    PROVE  Spec => []RInv
  <1> DEFINE Locals == \A c \in Consumers : LocalInv(c)
             Queued == \A c \in Consumers : Joined(c) => QueueOf(c)
  <1>1. Init => InStep /\ Queued
    BY DEF Init, SessionInit, EmptyBuffer, InStep, Joined
  <1>2. /\ QInv /\ BlockSized /\ MutexInv /\ Locals /\ InStep /\ Queued
        /\ [Next]_vars
        => InStep' /\ Queued'
    <2>. SUFFICES ASSUME QInv, BlockSized, MutexInv, Locals, InStep, Queued,
                         [Next]_vars
                  PROVE  InStep' /\ Queued'
      OBVIOUS
    <2>1. RInv
      BY DEF RInv
    <2>2. CASE UNCHANGED vars
      <3>1. InStep'
        BY <2>2 DEF vars, mainVars, mutexVars, localVars, InStep, Settled
      <3>2. Queued'
        BY <2>2 DEF vars, mainVars, mutexVars, localVars, QueueOf, Mixed,
                    InFlight, Drained, Joined, UnreadOf
      <3>. QED BY <3>1, <3>2
    <2>3. CASE Next
      <3>1. InStep'
        BY <2>3, InStepNext
      <3>2. ASSUME NEW c \in Consumers, Joined(c)'
            PROVE  QueueOf(c)'
        <4>1. CASE Flip
          BY <2>1, <3>2, <4>1, FlipQueueOf
        <4>2. CASE RegisterReader(c)
          BY <2>1, <4>2, RegisterQueueOf
        <4>3. CASE ~Flip /\ ~RegisterReader(c)
          <5>1. Joined(c)
            <6>1. CASE ConsumerStep(c)
              BY <3>2, <4>3, <6>1, JoinsByRegistering DEF QInv
            <6>2. CASE ~ConsumerStep(c)
              BY <2>3, <3>2, <6>2, LocalToOwner
              DEF LocalState, Joined, QInv, IInv
            <6>. QED BY <6>1, <6>2
          <5>. QED BY <2>1, <2>3, <3>2, <4>3, <5>1, StepQueueOf
        <4>. QED BY <4>1, <4>2, <4>3
      <3>. QED BY <3>1, <3>2
    <2>. QED BY <2>2, <2>3
  <1>3. QInv /\ BlockSized /\ MutexInv /\ Locals /\ InStep /\ Queued => RInv
    BY DEF RInv
  <1>4. Spec => []MutexInv
    BY AlwaysMutexInv
  <1>. QED BY <1>1, <1>2, <1>3, <1>4, AlwaysQInv, AlwaysLocalInv, PTL DEF Spec

\* The largest size of a block bounds them all.
LEMMA LargestBlock ==
    ASSUME NEW len \in WriteSizes
    PROVE  Max(WriteSizes) \in WriteSizes /\ len =< Max(WriteSizes)
  <1> DEFINE S == {DataLen - 1 - w : w \in WriteSizes}
  <1>1. WriteSizes \subseteq 0 .. DataLen - 1
    BY SizesAssumption
  <1>2. S # {} /\ S \subseteq 0 .. DataLen - 1
    BY <1>1, DataLenAssumption, SMT
  <1>3. \E x \in S : \A y \in S : x =< y
    <2>1. DataLen - 1 \in Nat
      BY DataLenAssumption
    <2>. HIDE DEF S
    <2>. QED BY <1>2, <2>1, LeastElement
  <1>4. \E m \in WriteSizes : \A w \in WriteSizes : m >= w
    <2>1. PICK m \in WriteSizes :
              \A w \in WriteSizes : DataLen - 1 - m =< DataLen - 1 - w
      BY <1>3
    <2>2. \A w \in WriteSizes : m >= w
      BY <1>1, <2>1, DataLenAssumption, SMT
    <2>. QED BY <2>2
  <1>5. /\ Max(WriteSizes) \in WriteSizes
        /\ \A w \in WriteSizes : Max(WriteSizes) >= w
    BY <1>4 DEF Max
  <1>. QED BY <1>1, <1>5, SMT

\* If the consumers keep up with the flips (SlowFlips), a file or a
\* transmission takes over at most one producer block of the recording
\* before (server_producer.c:77-80, file_consumer.c:143), whatever the number
\* of consumers, the sizes and the clients that vanish; as long as no send
\* fails in the drain loop.
THEOREM OneForeignBlockAtMost ==
    ASSUME SlowFlips, "send_drain" \notin Faults
    PROVE  Spec => []AtMostOneForeignBlock
  <1>1. RInv => AtMostOneForeignBlock
    <2>. SUFFICES ASSUME RInv, NEW c \in Consumers, out[c] # Closed,
                         NEW k \in ForeignBytes(c)
                  PROVE  k < Max(WriteSizes)
      BY DEF AtMostOneForeignBlock
    <2> DEFINE i == consumerId[c]
    <2>1. Joined(c) /\ QueueOf(c)
      BY DEF RInv, LocalInv, OutputMatches, Started
    <2>2. i \in Registered(cb) /\ Sound(cb, Bytes)
      BY <2>1 DEF RInv, QInv, IInv, SlotsOwned
    <2>3. Mixed(i, {out[c]})
      BY <2>1 DEF QueueOf, RInv, QInv, IInv, Typed, CircularBufferOf
    <2>4. AvailableData(cb, i) \in Nat
      BY <2>2, AvailableRange, SMT DEF Offsets
    <2>5. /\ k \in 0 .. AvailableData(cb, i) - 1
          /\ cb.data_ptr[UnreadOffset(cb, i, k)].rec # out[c]
      BY DEF ForeignBytes
    <2>. HIDE DEF i
    <2>6. k + 1 \in 1 .. AvailableData(cb, i) /\ (k + 1) - 1 = k
      BY <2>4, <2>5, SMT
    <2>7. UnreadOf(cb, i)[k + 1] = cb.data_ptr[UnreadOffset(cb, i, k)]
      BY <2>2, <2>6, UnreadIsSeq
    <2>8. PICK len \in WriteSizes : k + 1 =< len
      BY <2>3, <2>5, <2>6, <2>7 DEF Mixed
    <2>9. Max(WriteSizes) \in WriteSizes /\ len =< Max(WriteSizes)
      BY LargestBlock
    <2>10. \A w \in WriteSizes : w \in Int
      BY SizesAssumption, DataLenAssumption, SMT
    <2>11. len \in Int /\ Max(WriteSizes) \in Int
      BY <2>9, <2>10, Zenon
    <2>12. k \in Int
      BY <2>4, <2>5, SMT
    <2>. QED BY <2>8, <2>9, <2>11, <2>12, SMT
  <1>. QED BY <1>1, AlwaysRInv, PTL

HIDE ThreadsAssumption
DEF Threads, Consumers, Unconnected, UnconnectedLabels

-----------------------------------------------------------------------------
(* ClientSession: the invariant of the link. *)

Elements ==
    [type : {"START", "END", "INACTIVE"}, value : Recordings \cup Nat]
        \cup [type : {"DATA"}, value : Nat \ {0}]
        \cup [type : {"BYTES"}, value : Recordings, len : Nat]

\* Element e, sent while r is open, leaves s open; data has a recording to
\* belong to.
Carries(e, r, s) ==
    \/ e.type = "START" /\ r = NoRecording /\ s = e.value /\ s # NoRecording
    \/ e.type = "END" /\ r # NoRecording /\ s = NoRecording
    \/ e.type = "INACTIVE" /\ s = r
    \/ e.type = "DATA" /\ s = r /\ r # NoRecording
    \/ e.type = "BYTES" /\ s = r /\ r # NoRecording /\ e.value = r

\* o[i] is open behind the i-th element; behind the last, what the server has
\* open, and on a broken connection nothing, unless an END has been cut off.
Carried(o) ==
    /\ \A i \in 1 .. Len(chan) : Carries(chan[i], o[i - 1], o[i])
    /\ link = "up" => o[Len(chan)] = sent
    /\ link # "up" /\ ~cut => o[Len(chan)] = NoRecording

\* The bytes of a packet follow its header, as many as it says.
IsBytes(e, len) == e.type = "BYTES" /\ e.len = len
Adjacent(e, f) == IF e.type = "DATA" THEN IsBytes(f, e.value)
                                     ELSE f.type # "BYTES"

Packets ==
    /\ \A i \in 1 .. Len(chan) - 1 : Adjacent(chan[i], chan[i + 1])
    /\ chan # <<>> => IF pc[Producer] = "payload"
                      THEN IsBytes(chan[1], dataToRead)
                      ELSE chan[1].type # "BYTES"
    /\ link = "up" => IF chan = <<>> THEN pc[Producer] # "payload"
                                     ELSE chan[Len(chan)].type # "DATA"

\* What the producer has made of what it has received: r is open.  Where no END
\* has been cut off, it flips only to change the flag.
HasBytes == pc[Producer] \in {"produce", "write", "commit"}

ProducerAt(r) ==
    /\ r # NoRecording =>
           IF pc[Producer] = "flip"
           THEN currentRecording = LookUp(r)
           ELSE cb.recordingActive /\ recordingInfo = LookUp(r)
    /\ r = NoRecording /\ ~cut =>
           IF pc[Producer] = "flip"
           THEN currentRecording = NoRecording
           ELSE ~cb.recordingActive
    /\ pc[Producer] = "flip" /\ ~cut =>
           (cb.recordingActive <=> currentRecording = NoRecording)
    /\ HasBytes /\ wchunk.len > 0 =>
           wchunk.rec = r /\ r # NoRecording /\ wchunk.len = dataToRead

\* After a failed recv() nothing is received on this connection.
Nothing ==
    /\ pc[Producer] = "connect" => chan = <<>> /\ link # "up"
    /\ pc[Producer] = "payload" => dataToRead \in Nat \ {0}
    /\ HasBytes => wchunk.len \in Int
    /\ HasBytes /\ ~(wchunk.len > 0) =>
           chan = <<>> /\ link # "up" /\ dataToRead \in Nat \ {0}

Shaped == "recordingActive" \in DOMAIN cb /\ DOMAIN pc = Threads

Opens == [0 .. Len(chan) -> Recordings \cup {NoRecording}]

LinkInv ==
    /\ Shaped
    /\ chan \in Seq(Elements)
    /\ Packets
    /\ Nothing
    /\ \E o \in Opens : Carried(o) /\ ProducerAt(o[0])

\* What a step of a consumer, or of a thread that takes the mutex, leaves to
\* the producer.
Untouched ==
    /\ pc'[Producer] = pc[Producer]
    /\ cb'.recordingActive = cb.recordingActive
    /\ UNCHANGED <<mainVars, wchunk, linkVars>>

LEMMA UntouchedKeeps ==
    ASSUME LinkInv, Untouched, Shaped'
    PROVE  LinkInv'
  <1>1. /\ pc'[Producer] = pc[Producer]
        /\ cb'.recordingActive = cb.recordingActive
        /\ UNCHANGED <<recordingInfo, currentRecording, wchunk, link, chan,
                       sent, dataToRead, cut>>
    BY DEF Untouched, mainVars, linkVars
  <1>2. Packets' /\ Nothing' /\ chan' \in Seq(Elements)
    BY <1>1 DEF LinkInv, Packets, Nothing, HasBytes
  <1>3. PICK o \in Opens : Carried(o) /\ ProducerAt(o[0])
    BY DEF LinkInv
  <1>4. Carried(o)' /\ ProducerAt(o[0])' /\ o \in Opens'
    BY <1>1, <1>3 DEF Carried, ProducerAt, HasBytes, Opens
  <1>. QED BY <1>2, <1>4 DEF LinkInv

-----------------------------------------------------------------------------
(* The server sends. *)

\* Places in a queue of l elements with n behind them.
LEMMA Behind ==
    ASSUME NEW l \in Nat, NEW n \in Nat \ {0}
    PROVE  /\ \A i \in 1 .. l : i \in 1 .. l + n /\ i <= l
           /\ \A j \in 1 .. n : /\ l + j \in 1 .. l + n /\ ~(l + j <= l)
                                /\ (l + j) - l = j
           /\ 1 \in 1 .. n /\ n \in 1 .. n /\ l \in 0 .. l
           /\ l # 0 => 1 \in 1 .. l
           /\ l + n # 0 /\ l + n \in Nat
  BY SMT

\* The j-th place behind the queue.
LEMMA PlaceBehind ==
    ASSUME NEW l \in Nat, NEW n \in Nat \ {0}, NEW i \in 1 .. l + n,
           i \notin 1 .. l, NEW j \in Int, j = i - l
    PROVE  /\ j \in 1 .. n /\ i = l + j /\ i + 1 = l + (j + 1)
           /\ i - 1 = l + (j - 1)
           /\ (i < l + n => j \in 1 .. n - 1 /\ j + 1 \in 1 .. n)
           /\ (j # 1 => j - 1 \in 1 .. n /\ j \in 2 .. n)
           /\ (j = 1 => i - 1 = l)
  BY SMT

\* The server sends n elements, which leave s open.
LEMMA Sends ==
    ASSUME LinkInv, NEW items \in Seq(Elements), NEW n \in Nat \ {0},
           Len(items) = n, NEW s \in Recordings \cup {NoRecording},
           Carries(items[1], sent, s),
           \A j \in 2 .. n : Carries(items[j], s, s),
           items[1].type # "BYTES",
           \A j \in 1 .. n - 1 : Adjacent(items[j], items[j + 1]),
           items[n].type # "DATA",
           Send(items), sent' = s
    PROVE  LinkInv'
  <1>1. /\ link = "up" /\ chan' = chan \o items
        /\ UNCHANGED <<vars, link, dataToRead, cut>>
    BY DEF Send
  <1>a. UNCHANGED <<cb, pc, recordingInfo, currentRecording, wchunk, cut>>
    BY <1>1 DEF vars, mainVars
  <1>. PICK o \in Opens : Carried(o) /\ ProducerAt(o[0])
    BY DEF LinkInv
  <1>b. chan \in Seq(Elements)
    BY DEF LinkInv
  <1>. PICK l \in Nat : l = Len(chan)
    BY <1>b, LenProperties
  <1>2. /\ chan' \in Seq(Elements) /\ Len(chan') = l + n
        /\ \A i \in 1 .. l + n :
               chan'[i] = IF i <= l THEN chan[i] ELSE items[i - l]
    BY <1>1, <1>b, ConcatProperties
  <1>3. /\ \A i \in 1 .. l : chan'[i] = chan[i]
        /\ \A j \in 1 .. n : chan'[l + j] = items[j]
    <2>1. \A j \in 1 .. n : /\ l + j \in 1 .. l + n /\ ~(l + j <= l)
                            /\ (l + j) - l = j
      BY Behind
    <2>2. ASSUME NEW j \in 1 .. n
          PROVE  chan'[l + j] = items[j]
      <3>1. /\ l + j \in 1 .. l + n /\ ~(l + j <= l) /\ (l + j) - l = j
        BY <2>1
      <3>. QED BY <1>2, <3>1
    <2>3. \A i \in 1 .. l : i \in 1 .. l + n /\ i <= l
      BY Behind
    <2>. QED BY <1>2, <2>2, <2>3
  <1>4. PICK p \in [0 .. l + n -> Recordings \cup {NoRecording}] :
            /\ \A i \in 0 .. l : p[i] = o[i]
            /\ \A j \in 1 .. n : p[l + j] = s
    <2>1. /\ \A i \in 0 .. l : i \in 0 .. l + n /\ i <= l
          /\ \A i \in 0 .. l + n : i <= l => i \in 0 .. l
          /\ \A j \in 1 .. n : l + j \in 0 .. l + n /\ ~(l + j <= l)
      BY SMT
    <2>2. o \in [0 .. l -> Recordings \cup {NoRecording}]
      BY DEF Opens
    <2>3. [i \in 0 .. l + n |-> IF i <= l THEN o[i] ELSE s]
              \in [0 .. l + n -> Recordings \cup {NoRecording}]
      BY <2>1, <2>2
    <2>. QED BY <2>1, <2>3
  <1>5. o[l] = sent /\ sent \in Recordings \cup {NoRecording}
    <2>1. o \in [0 .. l -> Recordings \cup {NoRecording}] /\ o[l] = sent
      BY <1>1 DEF Opens, Carried
    <2>. QED BY <2>1, Behind
  <1>6. Carried(p)'
    <2>1. ASSUME NEW i \in 1 .. l + n
          PROVE  Carries(chan'[i], p[i - 1], p[i])
      <3>1. CASE i \in 1 .. l
        <4>1. i - 1 \in 0 .. l /\ i \in 0 .. l
          BY <3>1, SMT
        <4>2. Carries(chan[i], o[i - 1], o[i])
          BY <3>1 DEF Carried
        <4>. QED BY <1>3, <1>4, <3>1, <4>1, <4>2
      <3>2. CASE i \notin 1 .. l
        <4>. PICK j \in Int : j = i - l
          BY SMT
        <4>1. /\ j \in 1 .. n /\ i = l + j /\ i - 1 = l + (j - 1)
              /\ j # 1 => j - 1 \in 1 .. n /\ j \in 2 .. n
              /\ j = 1 => i - 1 = l
          BY <3>2, PlaceBehind
        <4>2. chan'[i] = items[j] /\ p[i] = s
          BY <1>3, <1>4, <4>1, ZenonT(60)
        <4>3. CASE j = 1
          <5>1. l \in 0 .. l
            BY Behind
          <5>2. p[i - 1] = sent
            BY <1>4, <1>5, <4>1, <4>3, <5>1
          <5>. QED BY <1>5, <4>2, <4>3, <5>2
        <4>4. CASE j # 1
          <5>1. p[i - 1] = s
            BY <1>4, <4>1, <4>4
          <5>. QED BY <4>1, <4>2, <4>4, <5>1
        <4>. QED BY <4>3, <4>4
      <3>. QED BY <3>1, <3>2
    <2>2. p[l + n] = sent'
      BY <1>4, Behind
    <2>. QED BY <1>1, <1>2, <2>1, <2>2 DEF Carried
  <1>7. Packets'
    <2>1. ASSUME NEW i \in 1 .. l + n - 1
          PROVE  Adjacent(chan'[i], chan'[i + 1])
      <3>1. CASE i \in 1 .. l - 1
        <4>1. i \in 1 .. l /\ i + 1 \in 1 .. l
          BY <3>1, SMT
        <4>2. Adjacent(chan[i], chan[i + 1])
          BY <3>1 DEF LinkInv, Packets
        <4>. QED BY <1>3, <4>1, <4>2
      <3>2. CASE i = l
        <4>1. l \in 1 .. l /\ l # 0 /\ i + 1 = l + 1
          BY <3>2, SMT
        <4>2. chan'[i] = chan[l] /\ chan'[i + 1] = items[1]
          BY <1>3, <3>2, <4>1, Behind
        <4>3. chan # <<>>
          BY <4>1, EmptySeq
        <4>4. chan[l].type # "DATA"
          BY <1>1, <4>3 DEF LinkInv, Packets
        <4>. QED BY <4>2, <4>4 DEF Adjacent
      <3>3. CASE i \notin 1 .. l
        <4>1. i \in 1 .. l + n /\ i < l + n
          BY SMT
        <4>3. i - l \in Int
          BY SMT
        <4>. PICK j \in Int : j = i - l
          BY <4>3
        <4>2. /\ j \in 1 .. n /\ i = l + j /\ i + 1 = l + (j + 1)
              /\ j \in 1 .. n - 1 /\ j + 1 \in 1 .. n
          BY <3>3, <4>1, PlaceBehind
        <4>. QED BY <1>3, <4>2, ZenonT(60)
      <3>4. i \in 1 .. l - 1 \/ i = l \/ i \notin 1 .. l
        BY SMT
      <3>. QED BY <3>1, <3>2, <3>3, <3>4
    <2>2. IF pc[Producer] = "payload" THEN IsBytes(chan'[1], dataToRead)
                                      ELSE chan'[1].type # "BYTES"
      <3>1. CASE chan = <<>>
        <4>1. l = 0 /\ 0 + 1 = 1
          BY <3>1, EmptySeq, SMT
        <4>2. chan'[1] = items[1]
          BY <1>3, <4>1, Behind
        <4>. QED BY <1>1, <3>1, <4>2 DEF LinkInv, Packets
      <3>2. CASE chan # <<>>
        <4>1. 1 \in 1 .. l
          BY <1>b, <3>2, EmptySeq, Behind
        <4>. QED BY <1>3, <3>2, <4>1 DEF LinkInv, Packets
      <3>. QED BY <3>1, <3>2
    <2>3. chan' # <<>>
      BY <1>2, EmptySeq, Behind
    <2>4. chan'[l + n].type # "DATA"
      BY <1>3, Behind
    <2>5. \A i \in 1 .. Len(chan') - 1 : Adjacent(chan'[i], chan'[i + 1])
      BY <1>2, <2>1
    <2>6. chan'[Len(chan')].type # "DATA"
      BY <1>2, <2>4
    <2>. QED BY <1>1, <1>a, <2>2, <2>3, <2>5, <2>6 DEF Packets
  <1>8. ProducerAt(p[0])'
    <2>1. 0 \in 0 .. l
      BY SMT
    <2>2. p[0] = o[0]
      BY <1>4, <2>1
    <2>. QED BY <1>1, <1>a, <2>2 DEF ProducerAt, HasBytes
  <1>9. Nothing' /\ Shaped'
    BY <1>1, <1>a DEF LinkInv, Nothing, HasBytes, Shaped
  <1>. QED BY <1>2, <1>6, <1>7, <1>8, <1>9 DEF LinkInv, Opens

\* What is open at the server's end.
LEMMA SentTyped ==
    ASSUME LinkInv, link = "up"
    PROVE  sent \in Recordings \cup {NoRecording}
  <1>1. PICK o \in Opens : Carried(o)
    BY DEF LinkInv
  <1>2. Len(chan) \in Nat
    BY LenProperties DEF LinkInv
  <1>3. Len(chan) \in 0 .. Len(chan)
    BY <1>2, SMT
  <1>. QED BY <1>1, <1>3 DEF Carried, Opens

\* One element, without bytes.
LEMMA SendsOne ==
    ASSUME LinkInv, NEW e \in Elements, e.type \notin {"DATA", "BYTES"},
           NEW s \in Recordings \cup {NoRecording}, Carries(e, sent, s),
           Send(<<e>>), sent' = s
    PROVE  LinkInv'
  <1>1. 1 \in Nat \ {0} /\ 2 .. 1 = {} /\ 1 .. 1 - 1 = {}
    BY SMT
  <1>2. <<e>> \in Seq(Elements) /\ Len(<<e>>) = 1 /\ <<e>>[1] = e
    OBVIOUS
  <1>. PICK items \in Seq(Elements) : items = <<e>>
    BY <1>2
  <1>. QED BY <1>1, <1>2, Sends

LEMMA ServerSends ==
    ASSUME LinkInv,
           \/ \E r \in Recordings \ {Unknown} : SendStartPacket(r)
           \/ \E len \in PacketSizes : SendDataPacket(len)
           \/ SendEndPacket
           \/ SendInactivePacket
    PROVE  LinkInv'
  <1>1. ASSUME NEW r \in Recordings, SendStartPacket(r)
        PROVE  LinkInv'
    <2>1. /\ Send(<<Header("START", r)>>) /\ sent' = r
          /\ sent = NoRecording
      BY <1>1 DEF SendStartPacket
    <2>2. /\ Header("START", r) \in Elements
          /\ Header("START", r).type = "START"
          /\ Header("START", r).value = r
      BY DEF Header, Elements
    <2>3. r # NoRecording
      BY RecordingsAssumption
    <2>4. Carries(Header("START", r), sent, r)
      BY <2>1, <2>2, <2>3 DEF Carries
    <2>. QED BY <2>1, <2>2, <2>4, SendsOne
  <1>2. ASSUME SendEndPacket
        PROVE  LinkInv'
    <2>1. /\ Send(<<Header("END", 0)>>) /\ sent' = NoRecording
          /\ sent # NoRecording
      BY <1>2 DEF SendEndPacket
    <2>2. /\ Header("END", 0) \in Elements
          /\ Header("END", 0).type = "END"
      BY DEF Header, Elements
    <2>3. Carries(Header("END", 0), sent, NoRecording)
      BY <2>1, <2>2 DEF Carries
    <2>. QED BY <2>1, <2>2, <2>3, SendsOne
  <1>3. ASSUME SendInactivePacket
        PROVE  LinkInv'
    <2>1. /\ Send(<<Header("INACTIVE", 0)>>) /\ sent' = NoRecording
          /\ sent = NoRecording
      BY <1>3 DEF SendInactivePacket
    <2>2. /\ Header("INACTIVE", 0) \in Elements
          /\ Header("INACTIVE", 0).type = "INACTIVE"
      BY DEF Header, Elements
    <2>3. Carries(Header("INACTIVE", 0), sent, NoRecording)
      BY <2>1, <2>2 DEF Carries
    <2>. QED BY <2>1, <2>2, <2>3, SendsOne
  <1>4. ASSUME NEW len \in PacketSizes, SendDataPacket(len)
        PROVE  LinkInv'
    <2>1. /\ Send(<<Header("DATA", len), Payload(sent, len)>>)
          /\ sent' = sent /\ sent # NoRecording /\ link = "up"
      BY <1>4 DEF SendDataPacket, Send
    <2>2. sent \in Recordings
      BY <2>1, SentTyped
    <2>3. len \in Nat \ {0}
      BY LinkAssumption, SizesAssumption, SMT
    <2>a. /\ Header("DATA", len) \in Elements
          /\ Header("DATA", len).type = "DATA"
          /\ Header("DATA", len).value = len
      BY <2>3 DEF Header, Elements
    <2>b. /\ Payload(sent, len) \in Elements
          /\ Payload(sent, len).type = "BYTES"
          /\ Payload(sent, len).value = sent
          /\ Payload(sent, len).len = len
      <3>1. len \in Nat
        BY <2>3
      <3>. QED BY <2>2, <3>1 DEF Payload, Elements
    <2>. PICK e \in Elements : e = Header("DATA", len)
      BY <2>a
    <2>. PICK f \in Elements : f = Payload(sent, len)
      BY <2>b
    <2>c. /\ e.type = "DATA" /\ e.value = len /\ f.type = "BYTES"
          /\ f.value = sent /\ f.len = len
      BY <2>a, <2>b
    <2>4. Carries(e, sent, sent) /\ Carries(f, sent, sent) /\ Adjacent(e, f)
      BY <2>1, <2>c DEF Carries, Adjacent, IsBytes
    <2>5. /\ <<e, f>> \in Seq(Elements) /\ Len(<<e, f>>) = 2
          /\ <<e, f>>[1] = e /\ <<e, f>>[2] = f
      OBVIOUS
    <2>. PICK items \in Seq(Elements) : items = <<e, f>>
      BY <2>5
    <2>6. /\ 2 \in Nat \ {0} /\ \A j \in 2 .. 2 : j = 2
          /\ \A j \in 1 .. 2 - 1 : j = 1 /\ j + 1 = 2
      BY SMT
    <2>7. /\ \A j \in 2 .. 2 : Carries(items[j], sent, sent)
          /\ \A j \in 1 .. 2 - 1 : Adjacent(items[j], items[j + 1])
      BY <2>4, <2>5, <2>6
    <2>8. /\ items[1].type # "BYTES" /\ items[2].type # "DATA"
          /\ Carries(items[1], sent, sent) /\ Send(items) /\ Len(items) = 2
      BY <2>1, <2>4, <2>5, <2>c
    <2>. QED BY <2>1, <2>2, <2>6, <2>7, <2>8, Sends
  <1>. QED BY <1>1, <1>2, <1>3, <1>4

\* If nothing is open behind the last element, and no END is among those from
\* the k-th on, nothing is open behind the k-th.
LEMMA NothingCutOff ==
    ASSUME NEW l \in Nat, NEW k \in 0 .. l, NEW q, NEW o,
           \A i \in 1 .. l : Carries(q[i], o[i - 1], o[i]),
           \A i \in k + 1 .. l : q[i].type # "END",
           o[l] = NoRecording
    PROVE  o[k] = NoRecording
  <1> DEFINE S == {j \in k .. l : o[j] = NoRecording}
  <1>1. S # {} /\ S \subseteq 0 .. l
    <2>1. l \in k .. l /\ \A j \in k .. l : j \in 0 .. l
      BY SMT
    <2>. QED BY <2>1
  <1>. HIDE DEF S
  <1>. PICK j \in S : \A i \in S : j =< i
    BY <1>1, LeastElement
  <1>2. j \in k .. l /\ o[j] = NoRecording
    BY DEF S
  <1>3. CASE j = k
    BY <1>2, <1>3
  <1>4. CASE j # k
    <2>1. /\ j \in 1 .. l /\ j \in k + 1 .. l /\ j - 1 \in k .. l
          /\ ~(j =< j - 1)
      BY <1>2, <1>4, SMT
    <2>2. Carries(q[j], o[j - 1], o[j]) /\ q[j].type # "END"
      BY <2>1
    <2>3. o[j - 1] = NoRecording
      BY <1>2, <2>2 DEF Carries
    <2>4. j - 1 \in S
      BY <2>1, <2>3 DEF S
    <2>. QED BY <2>1, <2>4
  <1>. QED BY <1>3, <1>4

\* A prefix of what is on its way arrives.
LEMMA BreakKeeps ==
    ASSUME LinkInv, NEW k \in 0 .. Len(chan), NEW how \in Breaks,
           Break(k, how)
    PROVE  LinkInv'
  <1>1. /\ link = "up" /\ link' = how /\ chan' = SubSeq(chan, 1, k)
        /\ UNCHANGED <<vars, dataToRead>>
        /\ cut' = (\/ cut
                   \/ sent # NoRecording
                   \/ \E i \in k + 1 .. Len(chan) : chan[i].type = "END")
    BY DEF Break
  <1>2. UNCHANGED <<cb, pc, recordingInfo, currentRecording, wchunk>>
    BY <1>1 DEF vars, mainVars
  <1>3. link' # "up"
    BY <1>1, LinkAssumption
  <1>. PICK o \in Opens : Carried(o) /\ ProducerAt(o[0])
    BY DEF LinkInv
  <1>4. chan \in Seq(Elements) /\ Len(chan) \in Nat
    BY LenProperties DEF LinkInv
  <1>. PICK l \in Nat : l = Len(chan)
    BY <1>4
  <1>5. /\ k \in Nat /\ 1 \in Int /\ k \in Int
        /\ \A i \in 1 .. k : i \in 1 .. l /\ 1 + i - 1 = i
        /\ \A i \in 1 .. k - 1 : /\ i \in 1 .. k /\ i + 1 \in 1 .. k
                                 /\ i \in 1 .. l - 1
        /\ k - 1 + 1 = k /\ (IF 1 <= k THEN k - 1 + 1 ELSE 0) = k
        /\ \A i \in 0 .. k : i \in 0 .. l
        /\ 0 \in 0 .. k
        /\ \A i \in 1 .. k : i - 1 \in 0 .. k /\ i \in 0 .. k
        /\ k # 0 => 1 \in 1 .. k
    BY SMT
  <1>6. /\ chan' \in Seq(Elements) /\ Len(chan') = k
        /\ \A i \in 1 .. k : chan'[i] = chan[i]
    <2>1. \A i \in 1 .. k : chan[i] \in Elements
      BY <1>4, <1>5, ElementOfSeq
    <2>2. /\ SubSeq(chan, 1, k) \in Seq(Elements)
          /\ Len(SubSeq(chan, 1, k)) = (IF 1 <= k THEN k - 1 + 1 ELSE 0)
          /\ \A i \in 1 .. k - 1 + 1 : SubSeq(chan, 1, k)[i] = chan[1 + i - 1]
      BY <1>5, <2>1, SubSeqProperties
    <2>. QED BY <1>1, <1>5, <2>2
  <1>7. PICK p \in [0 .. k -> Recordings \cup {NoRecording}] :
            \A i \in 0 .. k : p[i] = o[i]
    <2>1. o \in [0 .. l -> Recordings \cup {NoRecording}]
      BY DEF Opens
    <2>2. [i \in 0 .. k |-> o[i]] \in [0 .. k -> Recordings \cup {NoRecording}]
      BY <1>5, <2>1
    <2>. QED BY <2>2
  <1>8. Carried(p)' /\ ProducerAt(p[0])'
    <2>1. ASSUME NEW i \in 1 .. k
          PROVE  Carries(chan'[i], p[i - 1], p[i])
      <3>1. Carries(chan[i], o[i - 1], o[i])
        BY <1>5 DEF Carried
      <3>. QED BY <1>5, <1>6, <1>7, <3>1
    <2>2. p[0] = o[0]
      BY <1>5, <1>7
    <2>3. ~cut' => ~cut /\ p[k] = NoRecording
      <3>. SUFFICES ASSUME ~cut'
                    PROVE  ~cut /\ o[k] = NoRecording
        <4>1. k \in 0 .. k
          BY <1>5, SMT
        <4>. QED BY <1>7, <4>1
      <3>1. /\ ~cut /\ sent = NoRecording
            /\ \A i \in k + 1 .. l : chan[i].type # "END"
        BY <1>1
      <3>2. o[l] = NoRecording
        BY <1>1, <3>1 DEF Carried
      <3>3. \A i \in 1 .. l : Carries(chan[i], o[i - 1], o[i])
        BY DEF Carried
      <3>4. o[k] = NoRecording
        BY <3>1, <3>2, <3>3, NothingCutOff
      <3>. QED BY <3>1, <3>4
    <2>. QED BY <1>1, <1>2, <1>3, <1>6, <2>1, <2>2, <2>3
             DEF Carried, ProducerAt, HasBytes
  <1>9. Packets'
    <2>1. ASSUME NEW i \in 1 .. k - 1
          PROVE  Adjacent(chan'[i], chan'[i + 1])
      <3>1. Adjacent(chan[i], chan[i + 1])
        BY <1>5 DEF LinkInv, Packets
      <3>. QED BY <1>5, <1>6, <3>1
    <2>2. chan' # <<>> => chan # <<>> /\ chan'[1] = chan[1]
      <3>1. ASSUME chan' # <<>>
            PROVE  1 \in 1 .. k /\ 1 \in 1 .. l
        <4>1. k # 0
          BY <1>6, <3>1, EmptySeq
        <4>. QED BY <1>5, <4>1
      <3>2. 1 \in 1 .. l => chan # <<>>
        <4>1. 1 \in 1 .. l => l # 0
          BY SMT
        <4>. QED BY <4>1, EmptySeq
      <3>. QED BY <1>6, <3>1, <3>2
    <2>. QED BY <1>1, <1>2, <1>3, <1>6, <2>1, <2>2 DEF LinkInv, Packets
  <1>10. Nothing' /\ Shaped'
    BY <1>1, <1>2 DEF LinkInv, Nothing, HasBytes, Shaped
  <1>. QED BY <1>6, <1>7, <1>8, <1>9, <1>10 DEF LinkInv, Opens

-----------------------------------------------------------------------------
(* The producer receives. *)

LEMMA ProducerGoes ==
    ASSUME Shaped, NEW label, Goto(Producer, label)
    PROVE  pc'[Producer] = label /\ DOMAIN pc' = Threads
  <1>1. Producer \in DOMAIN pc
    BY DEF Shaped, Threads
  <1>. QED BY <1>1 DEF Goto, Shaped

\* The first element leaves the queue.
LEMMA Arrives ==
    ASSUME LinkInv, chan # <<>>, chan' = Tail(chan),
           UNCHANGED <<link, sent, cut>>,
           NEW o \in Opens, Carried(o)
    PROVE  /\ Head(chan) = chan[1] /\ chan[1] \in Elements
           /\ chan' \in Seq(Elements)
           /\ o[1] \in Recordings \cup {NoRecording}
           /\ Carries(chan[1], o[0], o[1])
           /\ \E p \in Opens' : Carried(p)' /\ p[0] = o[1]
           /\ \A i \in 1 .. Len(chan') - 1 : Adjacent(chan'[i], chan'[i + 1])
           /\ chan' # <<>> => Adjacent(chan[1], chan'[1])
           /\ link = "up" => IF chan' = <<>> THEN chan[1].type # "DATA"
                             ELSE chan'[Len(chan')].type # "DATA"
  <1>1. chan \in Seq(Elements) /\ Len(chan) \in Nat
    BY LenProperties DEF LinkInv
  <1>2. Len(chan) # 0
    BY <1>1, EmptySeq
  <1>. PICK m \in Nat : Len(chan) = m + 1
    <2>1. Len(chan) - 1 \in Nat /\ Len(chan) = (Len(chan) - 1) + 1
      BY <1>1, <1>2, SMT
    <2>. QED BY <2>1
  <1>3. /\ 1 \in 1 .. m + 1 /\ 1 - 1 = 0 /\ (m + 1) - 1 = m
        /\ 0 \in 0 .. m /\ 0 + 1 = 1 /\ 1 \in 0 .. m + 1 /\ m \in 0 .. m
        /\ \A i \in 1 .. m : /\ i + 1 \in 1 .. m + 1 /\ (i + 1) - 1 = i
                             /\ i \in 0 .. m /\ i - 1 \in 0 .. m
                             /\ (i - 1) + 1 = i
        /\ \A i \in 1 .. m - 1 : /\ i \in 1 .. m /\ i + 1 \in 1 .. m
        /\ \A i \in 0 .. m : i + 1 \in 0 .. m + 1
        /\ m # 0 => 1 \in 1 .. m /\ m \in 1 .. m
    BY SMT
  <1>4. /\ Head(chan) = chan[1] /\ Head(chan) \in Elements
        /\ chan' \in Seq(Elements) /\ Len(chan') = m
        /\ \A i \in 1 .. m : chan'[i] = chan[i + 1]
    BY <1>1, <1>3, HeadTailProperties
  <1>5. o \in [0 .. m + 1 -> Recordings \cup {NoRecording}]
    BY DEF Opens
  <1>6. \A i \in 1 .. m + 1 : Carries(chan[i], o[i - 1], o[i])
    BY DEF Carried
  <1>7. \A i \in 1 .. m : Adjacent(chan[i], chan[i + 1])
    BY <1>3 DEF LinkInv, Packets
  <1>8. \E p \in Opens' : Carried(p)' /\ p[0] = o[1]
    <2>1. [i \in 0 .. m |-> o[i + 1]]
              \in [0 .. m -> Recordings \cup {NoRecording}]
      BY <1>3, <1>5
    <2>. PICK p \in [0 .. m -> Recordings \cup {NoRecording}] :
             \A i \in 0 .. m : p[i] = o[i + 1]
      BY <2>1
    <2>2. ASSUME NEW i \in 1 .. m
          PROVE  Carries(chan'[i], p[i - 1], p[i])
      <3>1. p[i - 1] = o[i] /\ p[i] = o[i + 1] /\ chan'[i] = chan[i + 1]
        BY <1>3, <1>4
      <3>2. Carries(chan[i + 1], o[(i + 1) - 1], o[i + 1])
        BY <1>3, <1>6
      <3>. QED BY <1>3, <3>1, <3>2
    <2>3. p[m] = o[m + 1] /\ p[0] = o[1]
      BY <1>3
    <2>4. Carried(p)'
      BY <1>4, <2>2, <2>3 DEF Carried
    <2>5. p \in Opens'
      BY <1>4 DEF Opens
    <2>. QED BY <2>3, <2>4, <2>5
  <1>9. \A i \in 1 .. Len(chan') - 1 : Adjacent(chan'[i], chan'[i + 1])
    <2>1. ASSUME NEW i \in 1 .. m - 1
          PROVE  Adjacent(chan'[i], chan'[i + 1])
      <3>1. chan'[i] = chan[i + 1] /\ chan'[i + 1] = chan[(i + 1) + 1]
        BY <1>3, <1>4
      <3>. QED BY <1>3, <1>7, <3>1
    <2>. QED BY <1>4, <2>1
  <1>10. CASE m = 0
    <2>1. chan' = <<>> /\ Len(chan) = 1
      BY <1>3, <1>4, <1>10, EmptySeq
    <2>. QED BY <1>3, <1>4, <1>5, <1>6, <1>8, <1>9, <2>1
             DEF LinkInv, Packets
  <1>11. CASE m # 0
    <2>1. chan' # <<>>
      BY <1>4, <1>11, EmptySeq
    <2>2. chan'[1] = chan[1 + 1] /\ chan'[m] = chan[m + 1]
      BY <1>3, <1>4, <1>11
    <2>3. Adjacent(chan[1], chan'[1])
      BY <1>3, <1>7, <1>11, <2>2
    <2>4. link = "up" => chan'[Len(chan')].type # "DATA"
      BY <1>4, <2>2 DEF LinkInv, Packets
    <2>. QED BY <1>3, <1>4, <1>5, <1>6, <1>8, <1>9, <2>1, <2>3, <2>4
  <1>. QED BY <1>10, <1>11

\* An item that is looked up is not the empty one.
LEMMA LookUpIsSome ==
    ASSUME NEW r \in Recordings
    PROVE  LookUp(r) \in Recordings /\ LookUp(r) # NoRecording
  BY RecordingsAssumption, LinkAssumption DEF LookUp

LEMMA ReceiveKeeps ==
    ASSUME LinkInv, Receive
    PROVE  LinkInv'
  <1>. PICK o \in Opens : Carried(o) /\ ProducerAt(o[0])
    BY DEF LinkInv
  <1>1. /\ pc[Producer] = "header" /\ chan # <<>> /\ chan' = Tail(chan)
        /\ ReceiveHeader(Head(chan)) /\ UNCHANGED <<link, sent, cut>>
    BY DEF Receive
  <1>2. UNCHANGED <<cb, recordingInfo, wchunk>>
    BY <1>1 DEF ReceiveHeader
  <1>. PICK e \in Elements : e = chan[1] /\ e = Head(chan)
    BY <1>1, Arrives
  <1>3. /\ chan' \in Seq(Elements) /\ Carries(e, o[0], o[1])
        /\ o[1] \in Recordings \cup {NoRecording}
        /\ \A i \in 1 .. Len(chan') - 1 : Adjacent(chan'[i], chan'[i + 1])
        /\ chan' # <<>> => Adjacent(e, chan'[1])
        /\ link = "up" => IF chan' = <<>> THEN e.type # "DATA"
                          ELSE chan'[Len(chan')].type # "DATA"
    BY <1>1, Arrives
  <1>. PICK p \in Opens' : Carried(p)' /\ p[0] = o[1]
    BY <1>1, Arrives
  <1>4. e.type # "BYTES"
    BY <1>1 DEF LinkInv, Packets
  <1>5. SUFFICES Packets' /\ Nothing' /\ Shaped' /\ ProducerAt(o[1])'
    BY <1>3 DEF LinkInv
  <1>6. CASE e.type = "START"
    <2>1. currentRecording' = LookUp(e.value) /\ pc'[Producer] = "flip"
          /\ DOMAIN pc' = Threads /\ UNCHANGED dataToRead
      BY <1>1, <1>6, ProducerGoes DEF ReceiveHeader, LinkInv
    <2>2. o[0] = NoRecording /\ o[1] = e.value /\ o[1] # NoRecording
      BY <1>3, <1>6 DEF Carries
    <2>3. currentRecording' = LookUp(o[1]) /\ currentRecording' # NoRecording
      BY <1>3, <2>1, <2>2, LookUpIsSome
    <2>4. ProducerAt(o[1])'
      BY <1>1, <1>2, <2>1, <2>2, <2>3 DEF ProducerAt, HasBytes
    <2>. QED BY <2>4, <1>1, <1>2, <1>3, <1>6, <2>1, <2>2
             DEF Packets, Nothing, Shaped, ProducerAt, HasBytes, LinkInv,
                 Adjacent
  <1>7. CASE e.type = "END"
    <2>1. pc'[Producer] = "flip" /\ DOMAIN pc' = Threads
          /\ UNCHANGED dataToRead /\ currentRecording' = NoRecording
      BY <1>1, <1>7, ProducerGoes DEF ReceiveHeader, LinkInv
    <2>2. o[0] # NoRecording /\ o[1] = NoRecording
      BY <1>3, <1>7 DEF Carries
    <2>3. ProducerAt(o[1])'
      BY <1>1, <1>2, <2>1, <2>2 DEF ProducerAt, HasBytes
    <2>. QED BY <2>3, <1>1, <1>2, <1>3, <1>7, <2>1, <2>2
             DEF Packets, Nothing, Shaped, ProducerAt, HasBytes, LinkInv,
                 Adjacent
  <1>8. CASE e.type = "INACTIVE"
    <2>1. UNCHANGED <<pc, currentRecording, dataToRead>>
      BY <1>1, <1>8 DEF ReceiveHeader
    <2>2. o[1] = o[0]
      BY <1>3, <1>8 DEF Carries
    <2>. QED BY <1>1, <1>2, <1>3, <1>8, <2>1, <2>2
             DEF Packets, Nothing, Shaped, ProducerAt, HasBytes, LinkInv,
                 Adjacent
  <1>9. CASE e.type = "DATA"
    <2>1. /\ pc'[Producer] = "payload" /\ DOMAIN pc' = Threads
          /\ dataToRead' = e.value
      BY <1>1, <1>9, ProducerGoes DEF ReceiveHeader, LinkInv
    <2>2. o[1] = o[0]
      BY <1>3, <1>9 DEF Carries
    <2>3. e.value \in Nat \ {0}
      BY <1>9 DEF Elements
    <2>. QED BY <1>1, <1>2, <1>3, <1>9, <2>1, <2>2, <2>3
             DEF Packets, Nothing, Shaped, ProducerAt, HasBytes, LinkInv,
                 Adjacent
  <1>. QED BY <1>4, <1>6, <1>7, <1>8, <1>9 DEF Elements

LEMMA ReceiveBytesKeeps ==
    ASSUME LinkInv, ReceiveBytes
    PROVE  LinkInv'
  <1>. PICK o \in Opens : Carried(o) /\ ProducerAt(o[0])
    BY DEF LinkInv
  <1>1. /\ pc[Producer] = "payload" /\ chan # <<>> /\ chan' = Tail(chan)
        /\ wchunk' = [rec |-> Head(chan).value, len |-> Head(chan).len]
        /\ UNCHANGED <<cb, recordingInfo, currentRecording, link, sent,
                       dataToRead, cut>>
    BY DEF ReceiveBytes, mainVars
  <1>2. pc'[Producer] = "produce" /\ DOMAIN pc' = Threads
    BY ProducerGoes DEF ReceiveBytes, LinkInv
  <1>. PICK e \in Elements : e = chan[1] /\ e = Head(chan)
    BY <1>1, Arrives
  <1>3. /\ chan' \in Seq(Elements) /\ Carries(e, o[0], o[1])
        /\ o[1] \in Recordings \cup {NoRecording}
        /\ \A i \in 1 .. Len(chan') - 1 : Adjacent(chan'[i], chan'[i + 1])
        /\ chan' # <<>> => Adjacent(e, chan'[1])
        /\ link = "up" => IF chan' = <<>> THEN e.type # "DATA"
                          ELSE chan'[Len(chan')].type # "DATA"
    BY <1>1, Arrives
  <1>. PICK p \in Opens' : Carried(p)' /\ p[0] = o[1]
    BY <1>1, Arrives
  <1>4. e.type = "BYTES" /\ e.len = dataToRead
    BY <1>1 DEF LinkInv, Packets, IsBytes
  <1>5. o[1] = o[0] /\ o[0] # NoRecording /\ e.value = o[0]
    BY <1>3, <1>4 DEF Carries
  <1>6. wchunk'.rec = o[1] /\ wchunk'.len = dataToRead
    BY <1>1, <1>4, <1>5
  <1>7. dataToRead \in Int /\ dataToRead > 0
    <2>1. dataToRead \in Nat \ {0}
      BY <1>1 DEF LinkInv, Nothing
    <2>. QED BY <2>1, SMT
  <1>8. Packets'
    BY <1>1, <1>2, <1>3, <1>4 DEF Packets, Adjacent
  <1>9. Nothing'
    BY <1>2, <1>6, <1>7 DEF Nothing
  <1>10. Shaped' /\ ProducerAt(o[1])'
    BY <1>1, <1>2, <1>5, <1>6 DEF LinkInv, Shaped, ProducerAt, HasBytes
  <1>. QED BY <1>3, <1>8, <1>9, <1>10 DEF LinkInv

\* recvExact returns 0 or -1.
LEMMA ReceiveNothingKeeps ==
    ASSUME LinkInv, ReceiveNothing
    PROVE  LinkInv'
  <1>. PICK o \in Opens : Carried(o) /\ ProducerAt(o[0])
    BY DEF LinkInv
  <1>1. /\ pc[Producer] = "payload" /\ chan = <<>> /\ link' = "closed"
        /\ link \in {"closed", "reset"}
        /\ wchunk' = [rec |-> NoRecording,
                      len |-> IF link = "reset" THEN -1 ELSE 0]
        /\ UNCHANGED <<cb, recordingInfo, currentRecording, chan, dataToRead,
                       cut>>
    BY DEF ReceiveNothing, mainVars
  <1>2. pc'[Producer] = "produce" /\ DOMAIN pc' = Threads
    BY ProducerGoes DEF ReceiveNothing, LinkInv
  <1>3. wchunk'.len \in Int /\ ~(wchunk'.len > 0)
    <2>1. wchunk'.len = -1 \/ wchunk'.len = 0
      BY <1>1
    <2>. QED BY <2>1, SMT
  <1>4. Carried(o)' /\ o \in Opens'
    BY <1>1 DEF Carried, Opens
  <1>5. Packets'
    BY <1>1, <1>2 DEF LinkInv, Packets
  <1>6. Nothing'
    BY <1>1, <1>2, <1>3 DEF LinkInv, Nothing
  <1>7. Shaped' /\ ProducerAt(o[0])'
    BY <1>1, <1>2, <1>3 DEF LinkInv, Shaped, ProducerAt, HasBytes
  <1>. QED BY <1>1, <1>4, <1>5, <1>6, <1>7 DEF LinkInv

-----------------------------------------------------------------------------
(* The producer uses what it has received. *)

\* A step that receives nothing and leaves the same recording open.
LEMMA SameQueue ==
    ASSUME LinkInv, UNCHANGED <<link, chan, sent, cut>>, Shaped', Nothing',
           pc[Producer] = "payload" => chan = <<>> /\ link # "up",
           pc'[Producer] = "payload" => chan' = <<>> /\ link' # "up",
           \A o \in Opens : ProducerAt(o[0]) => ProducerAt(o[0])'
    PROVE  LinkInv'
  <1>. PICK o \in Opens : Carried(o) /\ ProducerAt(o[0])
    BY DEF LinkInv
  <1>1. Carried(o)' /\ o \in Opens' /\ ProducerAt(o[0])'
    BY DEF Carried, Opens
  <1>2. Packets'
    BY DEF LinkInv, Packets
  <1>. QED BY <1>1, <1>2 DEF LinkInv

LEMMA FlagAssigned ==
    ASSUME Shaped, NEW flag, cb' = [cb EXCEPT !.recordingActive = flag]
    PROVE  cb'.recordingActive = flag /\ "recordingActive" \in DOMAIN cb'
  BY DEF Shaped

\* START and END take effect.
LEMMA ClientFlipKeeps ==
    ASSUME LinkInv, ClientFlip
    PROVE  LinkInv'
  <1>1. /\ pc[Producer] = "flip" /\ recordingInfo' = currentRecording
        /\ UNCHANGED <<currentRecording, wchunk, link, chan, sent, dataToRead,
                       cut>>
    BY DEF ClientFlip, InCritical, linkVars
  <1>2. pc'[Producer] = "header" /\ DOMAIN pc' = Threads
    BY ProducerGoes DEF ClientFlip, LinkInv
  <1>3. /\ cb'.recordingActive = (currentRecording # NoRecording)
        /\ "recordingActive" \in DOMAIN cb'
    BY FlagAssigned DEF ClientFlip, LinkInv
  <1>4. \A r \in Recordings : LookUp(r) # NoRecording
    BY LookUpIsSome
  <1>5. ASSUME NEW o \in Opens, ProducerAt(o[0])
        PROVE  ProducerAt(o[0])'
    <2>1. o[0] \in Recordings \cup {NoRecording}
      <3>1. 0 \in 0 .. Len(chan)
        BY LenProperties, SMT DEF LinkInv
      <3>. QED BY <3>1 DEF Opens
    <2>2. o[0] # NoRecording => currentRecording # NoRecording
      BY <1>1, <1>4, <1>5, <2>1 DEF ProducerAt
    <2>. QED BY <1>1, <1>2, <1>3, <1>5, <2>2 DEF ProducerAt, HasBytes
  <1>6. Nothing' /\ Shaped'
    BY <1>1, <1>2, <1>3 DEF Nothing, Shaped, HasBytes
  <1>. QED BY <1>1, <1>2, <1>5, <1>6, SameQueue

\* The loop over the bytes of a packet: a whole packet is done at once, and
\* after nothing more is to come it goes on.
LEMMA BytesAreDone ==
    ASSUME LinkInv, HasBytes, BytesDone
    PROVE  /\ dataToRead' = dataToRead - wchunk.len
           /\ DOMAIN pc' = Threads
           /\ \/ pc'[Producer] = "header"
              \/ /\ pc'[Producer] = "payload" /\ dataToRead' \in Nat \ {0}
                 /\ chan = <<>> /\ link # "up"
  <1>1. dataToRead' = dataToRead - wchunk.len
    BY DEF BytesDone
  <1>2. /\ pc'[Producer] = IF dataToRead' > 0 THEN "payload" ELSE "header"
        /\ DOMAIN pc' = Threads
    BY ProducerGoes DEF BytesDone, LinkInv
  <1>3. wchunk.len \in Int
    BY DEF LinkInv, Nothing
  <1>4. CASE wchunk.len > 0
    <2>1. wchunk.len = dataToRead
      BY <1>4 DEF LinkInv, ProducerAt
    <2>2. ~(dataToRead' > 0)
      BY <1>1, <1>3, <2>1, SMT
    <2>. QED BY <1>1, <1>2, <2>2
  <1>5. CASE ~(wchunk.len > 0)
    <2>1. chan = <<>> /\ link # "up" /\ dataToRead \in Nat \ {0}
      BY <1>5 DEF LinkInv, Nothing
    <2>2. dataToRead' > 0 /\ dataToRead' \in Nat \ {0}
      BY <1>1, <1>3, <1>5, <2>1, SMT
    <2>. QED BY <1>1, <1>2, <2>1, <2>2
  <1>. QED BY <1>4, <1>5

LEMMA ClientProduceKeeps ==
    ASSUME LinkInv, ClientProduce
    PROVE  LinkInv'
  <1>1. /\ pc[Producer] = "produce" /\ HasBytes
        /\ UNCHANGED <<cb, recordingInfo, currentRecording, link, chan, sent,
                       cut>>
    BY DEF ClientProduce, InCritical, HasBytes, mainVars
  <1>2. CASE Goto(Producer, "write") /\ UNCHANGED <<wchunk, dataToRead>>
    <2>1. pc'[Producer] = "write" /\ DOMAIN pc' = Threads
      BY <1>2, ProducerGoes DEF LinkInv
    <2>2. Shaped' /\ Nothing'
      BY <1>1, <1>2, <2>1 DEF LinkInv, Shaped, Nothing, HasBytes
    <2>3. \A o \in Opens : ProducerAt(o[0]) => ProducerAt(o[0])'
      BY <1>1, <1>2, <2>1 DEF ProducerAt, HasBytes
    <2>. QED BY <1>1, <2>1, <2>2, <2>3, SameQueue
  <1>3. CASE BytesDone
    <2>1. /\ DOMAIN pc' = Threads
          /\ \/ pc'[Producer] = "header"
             \/ /\ pc'[Producer] = "payload" /\ dataToRead' \in Nat \ {0}
                /\ chan = <<>> /\ link # "up"
      BY <1>1, <1>3, BytesAreDone
    <2>2. Shaped' /\ Nothing'
      BY <1>1, <2>1 DEF LinkInv, Shaped, Nothing, HasBytes
    <2>3. \A o \in Opens : ProducerAt(o[0]) => ProducerAt(o[0])'
      BY <1>1, <2>1 DEF ProducerAt, HasBytes
    <2>. QED BY <1>1, <2>1, <2>2, <2>3, SameQueue
  <1>. QED BY <1>2, <1>3 DEF ClientProduce

LEMMA ClientCommitKeeps ==
    ASSUME LinkInv, ClientCommit
    PROVE  LinkInv'
  <1>1. /\ pc[Producer] = "commit" /\ HasBytes /\ BytesDone
        /\ cb' = ConfirmWrite(cb, wchunk.len)
        /\ UNCHANGED <<recordingInfo, currentRecording, link, chan, sent, cut>>
    BY DEF ClientCommit, InCritical, HasBytes, mainVars
  <1>2. /\ cb'.recordingActive = cb.recordingActive
        /\ "recordingActive" \in DOMAIN cb'
    BY <1>1 DEF LinkInv, Shaped, ConfirmWrite
  <1>3. /\ DOMAIN pc' = Threads
        /\ \/ pc'[Producer] = "header"
           \/ /\ pc'[Producer] = "payload" /\ dataToRead' \in Nat \ {0}
              /\ chan = <<>> /\ link # "up"
    BY <1>1, BytesAreDone
  <1>4. Shaped' /\ Nothing'
    BY <1>2, <1>3 DEF LinkInv, Shaped, Nothing, HasBytes
  <1>5. \A o \in Opens : ProducerAt(o[0]) => ProducerAt(o[0])'
    BY <1>1, <1>2, <1>3 DEF ProducerAt, HasBytes
  <1>. QED BY <1>1, <1>3, <1>4, <1>5, SameQueue

LEMMA ClientWriteKeeps ==
    ASSUME LinkInv, Write, UNCHANGED linkVars
    PROVE  LinkInv'
  <1>1. /\ pc[Producer] = "write"
        /\ cb' = MemWrite(cb, Chunk(wchunk.rec, wchunk.len), wchunk.len)
        /\ UNCHANGED <<recordingInfo, currentRecording, wchunk, link, chan,
                       sent, dataToRead, cut>>
    BY DEF Write, mainVars, linkVars
  <1>2. /\ cb'.recordingActive = cb.recordingActive
        /\ "recordingActive" \in DOMAIN cb'
    BY <1>1 DEF LinkInv, Shaped, MemWrite
  <1>3. pc'[Producer] = "commit" /\ DOMAIN pc' = Threads
    BY ProducerGoes DEF Write, LinkInv
  <1>4. Shaped' /\ Nothing'
    BY <1>1, <1>2, <1>3 DEF LinkInv, Shaped, Nothing, HasBytes
  <1>5. \A o \in Opens : ProducerAt(o[0]) => ProducerAt(o[0])'
    BY <1>1, <1>2, <1>3 DEF ProducerAt, HasBytes
  <1>. QED BY <1>1, <1>3, <1>4, <1>5, SameQueue

\* A new connection; whatever was open is forgotten.
LEMMA ConnectKeeps ==
    ASSUME LinkInv, Connect
    PROVE  LinkInv'
  <1>1. /\ link' = "up" /\ chan' = <<>> /\ sent' = NoRecording
        /\ UNCHANGED <<cb, wchunk, cut>> /\ pc[Producer] = "connect"
    BY DEF Connect
  <1>2. pc'[Producer] = "header" /\ DOMAIN pc' = Threads
    BY ProducerGoes DEF Connect, LinkInv
  <1>3. /\ Len(chan') = 0 /\ 1 .. 0 = {} /\ 1 .. 0 - 1 = {} /\ 0 .. 0 = {0}
        /\ chan' \in Seq(Elements)
    BY <1>1, EmptySeq, SMT
  <1>4. [i \in {0} |-> NoRecording] \in [{0} -> Recordings \cup {NoRecording}]
    OBVIOUS
  <1>. PICK p \in [{0} -> Recordings \cup {NoRecording}] : p[0] = NoRecording
    BY <1>4
  <1>a. ~cut => ~cb.recordingActive
    <2>. PICK o \in Opens : Carried(o) /\ ProducerAt(o[0])
      BY DEF LinkInv
    <2>1. Len(chan) = 0 /\ link # "up"
      BY <1>1, EmptySeq DEF LinkInv, Nothing
    <2>. QED BY <1>1, <2>1 DEF Carried, ProducerAt
  <1>5. Carried(p)' /\ p \in Opens' /\ ProducerAt(p[0])'
    BY <1>1, <1>2, <1>3, <1>a DEF Carried, Opens, ProducerAt, HasBytes
  <1>6. Packets' /\ Nothing' /\ Shaped'
    BY <1>1, <1>2, <1>3 DEF LinkInv, Packets, Nothing, Shaped, HasBytes
  <1>. QED BY <1>3, <1>5, <1>6 DEF LinkInv

LEMMA LoseConnectionKeeps ==
    ASSUME LinkInv, LoseConnection
    PROVE  LinkInv'
  <1>1. /\ pc[Producer] = "header" /\ chan = <<>> /\ link' = "down"
        /\ link # "up"
        /\ UNCHANGED <<cb, recordingInfo, currentRecording, wchunk, chan, sent,
                       dataToRead, cut>>
    BY DEF LoseConnection, mainVars
  <1>2. pc'[Producer] = "connect" /\ DOMAIN pc' = Threads
    BY ProducerGoes DEF LoseConnection, LinkInv
  <1>. PICK o \in Opens : Carried(o) /\ ProducerAt(o[0])
    BY DEF LinkInv
  <1>3. Carried(o)' /\ o \in Opens' /\ ProducerAt(o[0])'
    BY <1>1, <1>2 DEF Carried, Opens, ProducerAt, HasBytes
  <1>4. Packets' /\ Nothing' /\ Shaped'
    BY <1>1, <1>2 DEF LinkInv, Packets, Nothing, Shaped, HasBytes
  <1>. QED BY <1>1, <1>3, <1>4 DEF LinkInv

-----------------------------------------------------------------------------
(* The others. *)

LEMMA OthersKeepLink ==
    ASSUME LinkInv, UNCHANGED linkVars,
           \/ \E t \in Threads : Acquire(t)
           \/ \E c \in Consumers : LoopStep(c) \/ FileStep(c) \/ NetStep(c)
    PROVE  LinkInv'
  <1>1. CASE \E t \in Threads : Acquire(t)
    <2>1. UNCHANGED <<cb, mainVars, pc, wchunk>>
      BY <1>1 DEF Acquire
    <2>. QED BY <2>1, UntouchedKeeps DEF Untouched, LinkInv, Shaped
  <1>2. ASSUME NEW c \in Consumers, LoopStep(c) \/ FileStep(c) \/ NetStep(c)
        PROVE  LinkInv'
    <2>1. /\ UNCHANGED <<mainVars, wchunk>>
          /\ \E label : Goto(c, label) \/ UNCHANGED pc
      <3>1. CASE LoopStep(c)
        BY <3>1 DEF LoopStep, RegisterReader, Poll, Data, Confirm, Drain,
                    DrainConfirm, DrainFrom, localVars
      <3>2. CASE FileStep(c) \/ NetStep(c)
        BY <3>2 DEF FileStep, NetStep, StartFile, CopyToFile, ReadPort,
                    Listen, Accept, SendInactive, StartSend, SendStart,
                    SendData, SendDrained, UnlockAgain, SendEnd, Disconnect
      <3>. QED BY <1>2, <3>1, <3>2
    <2>2. pc'[Producer] = pc[Producer] /\ DOMAIN pc' = Threads
      <3>1. c # Producer
        BY ThreadsAssumption
      <3>. QED BY <2>1, <3>1 DEF Goto, LinkInv, Shaped, Threads
    <2>3. /\ cb'.recordingActive = cb.recordingActive
          /\ "recordingActive" \in DOMAIN cb'
      <3>1. CASE cb' = cb
        BY <3>1 DEF LinkInv, Shaped
      <3>2. CASE \/ cb' = Register(cb)
                 \/ \E n : cb' = ConfirmRead(cb, consumerId[c], n)
                 \/ cb' = AlignTail(cb, consumerId[c])
                 \/ \E n : cb' = AlignTail(ConfirmRead(cb, consumerId[c], n),
                                           consumerId[c])
        BY <3>2 DEF LinkInv, Shaped, Register, ConfirmRead, AlignTail
      <3>3. \/ cb' = cb
            \/ cb' = Register(cb)
            \/ \E n : cb' = ConfirmRead(cb, consumerId[c], n)
            \/ cb' = AlignTail(cb, consumerId[c])
            \/ \E n : cb' = AlignTail(ConfirmRead(cb, consumerId[c], n),
                                      consumerId[c])
        <4>1. CASE LoopStep(c)
          BY <4>1 DEF LoopStep, RegisterReader, Poll, Data, Confirm, Drain,
                      DrainConfirm, DrainFrom, localVars
        <4>2. CASE FileStep(c) \/ NetStep(c)
          BY <4>2 DEF FileStep, NetStep, StartFile, CopyToFile, ReadPort,
                      Listen, Accept, SendInactive, StartSend, SendStart,
                      SendData, SendDrained, UnlockAgain, SendEnd, Disconnect
        <4>. QED BY <1>2, <4>1, <4>2
      <3>. QED BY <3>1, <3>2, <3>3
    <2>. QED BY <2>1, <2>2, <2>3, UntouchedKeeps DEF Untouched, Shaped
  <1>. QED BY <1>1, <1>2

-----------------------------------------------------------------------------
(* What is written has been sent under its START. *)

LEMMA ProducerConnects ==
    ASSUME ClientInit
    PROVE  DOMAIN pc = Threads /\ pc[Producer] = "connect"
  <1>1. /\ Producer \in Threads /\ Producer # Main
        /\ pc = [t \in Threads |-> CASE t = Main -> "schedule"
                               [] t = Producer -> "connect"
                               [] t \in FileConsumers -> "register"
                               [] t \in NetConsumers -> "listen"]
    BY ThreadsAssumption DEF ClientInit, SessionInit, Threads
  <1>2. pc[Producer] = CASE Producer = Main -> "schedule"
                         [] Producer = Producer -> "connect"
                         [] Producer \in FileConsumers -> "register"
                         [] Producer \in NetConsumers -> "listen"
    BY <1>1
  <1>3. Producer \notin FileConsumers /\ Producer \notin NetConsumers
    BY ThreadsAssumption DEF Consumers
  <1>. QED BY <1>1, <1>2, <1>3

LEMMA LinkInvInit == ClientInit => LinkInv
  <1>. SUFFICES ASSUME ClientInit
                PROVE  LinkInv
    OBVIOUS
  <1>1. /\ chan = <<>> /\ link = "down" /\ cb = EmptyBuffer
        /\ DOMAIN pc = Threads /\ pc[Producer] = "connect"
    BY ProducerConnects DEF ClientInit, SessionInit
  <1>2. /\ Len(chan) = 0 /\ 1 .. 0 = {} /\ 1 .. 0 - 1 = {} /\ 0 .. 0 = {0}
        /\ chan \in Seq(Elements)
    BY <1>1, EmptySeq, SMT
  <1>3. [i \in {0} |-> NoRecording] \in [{0} -> Recordings \cup {NoRecording}]
    OBVIOUS
  <1>. PICK p \in [{0} -> Recordings \cup {NoRecording}] : p[0] = NoRecording
    BY <1>3
  <1>4. Carried(p) /\ p \in Opens /\ ProducerAt(p[0])
    BY <1>1, <1>2 DEF Carried, Opens, ProducerAt, HasBytes, EmptyBuffer
  <1>5. Packets /\ Nothing /\ Shaped
    BY <1>1, <1>2 DEF Packets, Nothing, Shaped, HasBytes, EmptyBuffer
  <1>. QED BY <1>2, <1>4, <1>5 DEF LinkInv

LEMMA LinkInvKept == LinkInv /\ [ClientNext]_clientVars => LinkInv'
  <1>. SUFFICES ASSUME LinkInv, [ClientNext]_clientVars
                PROVE  LinkInv'
    OBVIOUS
  <1>1. CASE ServerStep
    BY <1>1, ServerSends, BreakKeeps DEF ServerStep
  <1>2. CASE ClientProducerStep
    BY <1>2, ConnectKeeps, LoseConnectionKeeps, ReceiveKeeps, ClientFlipKeeps,
       ReceiveBytesKeeps, ReceiveNothingKeeps, ClientProduceKeeps,
       ClientCommitKeeps, ClientWriteKeeps DEF ClientProducerStep
  <1>3. CASE \E t \in Threads : ClientAcquire(t)
    BY <1>3, OthersKeepLink DEF ClientAcquire
  <1>4. CASE \E c \in Consumers : ClientConsumerStep(c)
    BY <1>4, OthersKeepLink
       DEF ClientConsumerStep, ClientFileConsumer, ClientNetworkConsumer,
           ClientListen, NetStep
  <1>5. CASE UNCHANGED clientVars
    BY <1>5, UntouchedKeeps
       DEF clientVars, vars, linkVars, mainVars, Untouched, LinkInv, Shaped
  <1>. QED BY <1>1, <1>2, <1>3, <1>4, <1>5 DEF ClientNext

\* What networkProducerThread writes into the buffer has been sent under the
\* START that the session announces, also after a connection that broke before
\* its END, and with any number of consumers, connections and recordings
\* (client_behaviours.c:154-213).
THEOREM SentUnderItsStart == ClientSpec => []DataUnderItsStart
  <1>1. LinkInv => DataUnderItsStart
    BY DEF LinkInv, ProducerAt, DataUnderItsStart, HasBytes
  <1>. QED BY <1>1, LinkInvInit, LinkInvKept, PTL DEF ClientSpec

-----------------------------------------------------------------------------
(* The invariants of BufferSession.  The consumers are those of the server, *)
(* so what is left to show is that this producer keeps to the same rules:   *)
(* it writes what fits, and unlocks what it has locked.                     *)

Locals == \A c \in Consumers : LocalInv(c)

\* The producer is in the mutex at its critical sections only.
ProducerInside == Producer \in holders => pc[Producer] \in CriticalLabels

SInv ==
    /\ LinkInv
    /\ QInv
    /\ Locals
    /\ ProducerInside

\* The producer connects and receives: without the mutex, and without the
\* buffer.
Receives ==
    \/ Connect \/ LoseConnection \/ Receive \/ ReceiveBytes \/ ReceiveNothing

\* What a step of the producer does to the threads and their mutex.
ProducerMoves ==
    /\ UNCHANGED localVars
    /\ pc' = pc \/ \E label \in AnyLabels : Goto(Producer, label)
    /\ \/ UNCHANGED <<locked, holders>>
       \/ Producer \in holders /\ Unlock(Producer)
    /\ waiting' \in {waiting, {}}

LEMMA ReceivesMoves ==
    ASSUME IInv, Receives
    PROVE  /\ ProducerMoves
           /\ UNCHANGED <<cb, recordingInfo, locked, holders>>
           /\ pc[Producer] \in {"connect", "header", "payload"}
           /\ pc'[Producer] \in {"connect", "header", "payload", "flip",
                                 "produce"}
  <1>. USE DEF ProducerMoves, AnyLabels, Labels, CriticalLabels, Goto, IInv,
               Typed, mainVars, mutexVars
  <1>1. CASE Connect
    BY <1>1 DEF Connect
  <1>2. CASE LoseConnection
    BY <1>2 DEF LoseConnection
  <1>3. CASE Receive
    BY <1>3 DEF Receive, ReceiveHeader
  <1>4. CASE ReceiveBytes
    BY <1>4 DEF ReceiveBytes
  <1>5. CASE ReceiveNothing
    BY <1>5 DEF ReceiveNothing
  <1>. QED BY <1>1, <1>2, <1>3, <1>4, <1>5 DEF Receives

LEMMA ProducerStepMoves ==
    ASSUME IInv,
           \/ Receives
           \/ ClientFlip \/ ClientProduce \/ ClientCommit \/ Write
    PROVE  ProducerMoves
  <1>. USE DEF ProducerMoves, AnyLabels, Labels, CriticalLabels, InCritical,
               Release, ReleaseAndBroadcast
  <1>1. CASE ClientFlip
    BY <1>1 DEF ClientFlip
  <1>2. CASE ClientProduce
    BY <1>2 DEF ClientProduce, BytesDone
  <1>3. CASE ClientCommit
    BY <1>3 DEF ClientCommit, BytesDone
  <1>4. CASE Write
    BY <1>4 DEF Write, mutexVars
  <1>. QED BY <1>1, <1>2, <1>3, <1>4, ReceivesMoves

\* Everybody else stays where it was.
LEMMA ProducerMovesAlone ==
    ASSUME IInv, ProducerMoves
    PROVE  /\ pc' \in [Threads -> AnyLabels]
           /\ \A c \in Consumers : pc'[c] = pc[c]
           /\ UNCHANGED <<consumerId, readLen, threadRecordingActive,
                          bufferRecordingActive, out>>
           /\ locked' \in BOOLEAN /\ holders' \subseteq Threads
           /\ waiting' \subseteq Consumers
  <1>1. Producer \in Threads /\ Producer \notin Consumers
    BY ThreadsAssumption DEF Threads
  <1>2. pc \in [Threads -> AnyLabels] /\ Consumers \subseteq Threads
    BY DEF IInv, Typed, Threads
  <1>3. /\ pc' \in [Threads -> AnyLabels]
        /\ \A c \in Consumers : pc'[c] = pc[c]
    BY <1>1, <1>2 DEF ProducerMoves, Goto
  <1>4. locked' \in BOOLEAN /\ holders' \subseteq Threads
    BY DEF ProducerMoves, Unlock, IInv, Typed
  <1>. QED BY <1>3, <1>4 DEF ProducerMoves, localVars, IInv, Typed

\* The types of what it has received.
LEMMA ReceivesTyped ==
    ASSUME LinkInv, IInv, Receives
    PROVE  Typed'
  <1>1. UNCHANGED <<cb, recordingInfo>> /\ ProducerMoves
    BY ReceivesMoves
  <1>2. currentRecording' \in Recordings \cup {NoRecording}
    <2>1. \A x : LookUp(x) \in Recordings
      BY LinkAssumption DEF LookUp
    <2>2. CASE Receive
      BY <2>1, <2>2 DEF Receive, ReceiveHeader, IInv, Typed
    <2>3. CASE ~Receive
      BY <2>3 DEF Receives, Connect, LoseConnection, ReceiveBytes,
                  ReceiveNothing, mainVars, IInv, Typed
    <2>. QED BY <2>2, <2>3
  <1>3. wchunk' \in [rec : Recordings \cup {NoRecording}, len : Int]
    <2>1. CASE ReceiveBytes
      <3>1. pc[Producer] = "payload" /\ chan # <<>>
        BY <2>1 DEF ReceiveBytes
      <3>2. chan \in Seq(Elements) /\ chan[1].type = "BYTES"
        BY <3>1 DEF LinkInv, Packets, IsBytes
      <3>3. Head(chan) \in Elements /\ Head(chan) = chan[1]
        BY <3>1, <3>2, HeadTailProperties
      <3>4. Head(chan).value \in Recordings /\ Head(chan).len \in Nat
        BY <3>2, <3>3 DEF Elements
      <3>5. Head(chan).len \in Int
        BY <3>4, SMT
      <3>. QED BY <2>1, <3>4, <3>5 DEF ReceiveBytes
    <2>2. CASE ReceiveNothing
      <3>1. (IF link = "reset" THEN -1 ELSE 0) \in Int
        BY SMT
      <3>. QED BY <2>2, <3>1 DEF ReceiveNothing
    <2>3. CASE Connect \/ LoseConnection \/ Receive
      BY <2>3 DEF Connect, LoseConnection, Receive, ReceiveHeader, IInv, Typed
    <2>. QED BY <2>1, <2>2, <2>3 DEF Receives
  <1>. QED BY <1>1, <1>2, <1>3, ProducerMovesAlone DEF IInv, Typed

LEMMA ReceivesKeepIInv ==
    ASSUME LinkInv, IInv, Receives
    PROVE  IInv'
  <1>1. SameAmounts
    BY ReceivesMoves DEF IInv, SameAmounts
  <1>2. BlockFits'
    BY ReceivesMoves DEF BlockFits
  <1>. QED BY <1>1, <1>2, AmountsKeep, ReceivesTyped, ReceivesMoves,
              ProducerMovesAlone

LEMMA ClientFlipKeepsIInv ==
    ASSUME IInv, ClientFlip
    PROVE  IInv' /\ SameQueues
  <1>1. /\ ProducerMoves
        /\ UNCHANGED <<currentRecording, wchunk>>
        /\ recordingInfo' = currentRecording
        /\ pc'[Producer] = "header"
    BY ProducerStepMoves
    DEF ClientFlip, Goto, IInv, Typed, Threads
  <1>. PICK flag \in BOOLEAN : flag = (currentRecording # NoRecording)
    OBVIOUS
  <1>2. cb' = [cb EXCEPT !.recordingActive = flag]
    BY DEF ClientFlip
  <1>3. SameAmounts
    BY <1>2, FlagAmounts
  <1>4. SameQueues
    BY <1>2 DEF SameQueues, SameBytes, IInv, Typed, CircularBufferOf
  <1>5. Typed'
    BY <1>1, <1>3, ProducerMovesAlone DEF IInv, Typed, SameAmounts, Sound
  <1>6. BlockFits'
    BY <1>1 DEF BlockFits
  <1>. QED BY <1>1, <1>3, <1>4, <1>5, <1>6, AmountsKeep, ProducerMovesAlone

\* The loop over the bytes of a packet ends with no block in flight.
LEMMA BytesDoneTyped ==
    ASSUME IInv, BytesDone
    PROVE  /\ wchunk' \in [rec : Recordings \cup {NoRecording}, len : Int]
           /\ pc'[Producer] \in {"payload", "header"}
  <1>1. NoChunk \in [rec : Recordings \cup {NoRecording}, len : Int]
    BY SMT DEF NoChunk
  <1>2. Producer \in DOMAIN pc
    BY DEF IInv, Typed, Threads
  <1>. QED BY <1>1, <1>2 DEF BytesDone, Goto

\* The check of the space, with a number that may be -1.
LEMMA ClientProduceKeepsIInv ==
    ASSUME IInv, ClientProduce
    PROVE  IInv' /\ SameQueues
  <1>1. UNCHANGED <<cb, recordingInfo, currentRecording>> /\ ProducerMoves
    BY ProducerStepMoves DEF ClientProduce, mainVars
  <1>2. SameQueues /\ SameAmounts
    BY <1>1 DEF SameQueues, SameBytes, SameAmounts, IInv
  <1>3. CASE /\ wchunk.len >= 0 /\ WriterSpace(cb) >= wchunk.len
             /\ Goto(Producer, "write") /\ UNCHANGED wchunk
    <2>1. wchunk.len \in Nat /\ wchunk.len \in Offsets
      <3>1. wchunk.len \in Int /\ wchunk.len >= 0
        BY <1>3 DEF IInv, Typed
      <3>2. WriterSpace(cb) \in 0 .. DataLen - 1
        BY WriterSpaceLeast DEF IInv
      <3>. QED BY <1>3, <3>1, <3>2, DataLenAssumption, SMT DEF Offsets
    <2>2. \A i \in Registered(cb) :
              AvailableData(cb, i) + wchunk.len =< DataLen - 1
      BY <1>3, <2>1, WriterSpaceFits DEF IInv
    <2>3. BlockFits'
      BY <1>1, <1>3, <2>1, <2>2 DEF BlockFits
    <2>4. Typed'
      BY <1>1, <1>3, ProducerMovesAlone DEF IInv, Typed
    <2>. QED BY <1>1, <1>2, <2>3, <2>4, AmountsKeep, ProducerMovesAlone
  <1>4. CASE BytesDone
    <2>1. BlockFits'
      BY <1>4, BytesDoneTyped DEF BlockFits
    <2>2. Typed'
      BY <1>1, <1>4, BytesDoneTyped, ProducerMovesAlone DEF IInv, Typed
    <2>. QED BY <1>1, <1>2, <2>1, <2>2, AmountsKeep, ProducerMovesAlone
  <1>. QED BY <1>3, <1>4 DEF ClientProduce

LEMMA ClientCommitKeepsIInv ==
    ASSUME IInv, ClientCommit
    PROVE  IInv' /\ Commits
  <1>1. /\ UNCHANGED <<recordingInfo, currentRecording>> /\ ProducerMoves
        /\ BytesDone /\ Commits
    BY ProducerStepMoves
    DEF ClientCommit, InCritical, mainVars, Commits
  <1>2. cb' \in CircularBufferOf(Bytes)
    <2>1. wchunk.len \in Offsets
      BY <1>1 DEF IInv, BlockFits, Commits
    <2>. QED BY <1>1, <2>1, ConfirmWriteAmounts DEF IInv, Commits, Sound
  <1>3. Typed'
    BY <1>1, <1>2, BytesDoneTyped, ProducerMovesAlone DEF IInv, Typed
  <1>4. pc'[Producer] \notin {"write", "commit"}
    BY <1>1, BytesDoneTyped
  <1>. QED BY <1>1, <1>3, <1>4, CommitsKeep, ProducerMovesAlone

-----------------------------------------------------------------------------
(* Every step. *)

\* What a step can be: the server's side of the connection is not part of the
\* session.
LEMMA ClientSteps ==
    ASSUME [ClientNext]_clientVars
    PROVE  \/ UNCHANGED vars
           \/ \E t \in Threads : Acquire(t) /\ ClientFlipDue(t)
           \/ Receives
           \/ ClientFlip \/ ClientProduce \/ ClientCommit \/ Write
           \/ \E c \in Consumers : ConsumerStep(c)
  <1>1. CASE UNCHANGED clientVars
    BY <1>1 DEF clientVars
  <1>2. CASE ServerStep
    BY <1>2 DEF ServerStep, SendStartPacket, SendDataPacket, SendEndPacket,
                SendInactivePacket, Send, Break
  <1>3. CASE ClientProducerStep
    BY <1>3 DEF ClientProducerStep, Receives
  <1>4. CASE \E t \in Threads : ClientAcquire(t)
    BY <1>4 DEF ClientAcquire
  <1>5. CASE \E c \in Consumers : ClientConsumerStep(c)
    BY <1>5 DEF ClientConsumerStep, ClientFileConsumer, ClientNetworkConsumer,
                ClientListen, ConsumerStep, NetStep
  <1>. QED BY <1>1, <1>2, <1>3, <1>4, <1>5 DEF ClientNext

LEMMA ClientKeepsIInv ==
    ASSUME LinkInv, IInv, [ClientNext]_clientVars
    PROVE  IInv'
  BY ClientSteps, StutterIInv, AcquireStep, ReceivesKeepIInv,
     ClientFlipKeepsIInv, ClientProduceKeepsIInv, ClientCommitKeepsIInv,
     WriteStep, ConsumerKeepsIInv

\* What a step does to the bytes and to the block.
LEMMA ClientBuffer ==
    ASSUME LinkInv, IInv, [ClientNext]_clientVars
    PROVE  \/ Write
           \/ Commits /\ pc'[Producer] # "commit"
           \/ SameQueues /\ (SameBlock \/ pc'[Producer] # "commit")
           \/ (Joins \/ \E i, n : Takes(i, n)) /\ SameBlock
  <1>1. CASE UNCHANGED vars
    BY <1>1 DEF vars, SameQueues, SameBytes, SameBlock
  <1>2. CASE \E t \in Threads : Acquire(t)
    BY <1>2 DEF Acquire, SameQueues, SameBytes, SameBlock
  <1>3. CASE Receives
    BY <1>3, ReceivesMoves DEF SameQueues, SameBytes
  <1>4. CASE ClientFlip
    <2>1. pc'[Producer] = "header"
      BY <1>4 DEF ClientFlip, Goto, IInv, Typed, Threads
    <2>. QED BY <1>4, <2>1, ClientFlipKeepsIInv
  <1>5. CASE ClientProduce
    <2>1. pc'[Producer] # "commit"
      BY <1>5, BytesDoneTyped
      DEF ClientProduce, Goto, IInv, Typed, Threads
    <2>. QED BY <1>5, <2>1, ClientProduceKeepsIInv
  <1>6. CASE ClientCommit
    <2>1. pc'[Producer] # "commit"
      BY <1>6, BytesDoneTyped DEF ClientCommit
    <2>. QED BY <1>6, <2>1, ClientCommitKeepsIInv
  <1>7. ASSUME NEW c \in Consumers, ConsumerStep(c)
        PROVE  \/ SameQueues /\ SameBlock
               \/ (Joins \/ \E i, n : Takes(i, n)) /\ SameBlock
    BY <1>7, ConsumerMoves, ConsumerTakes DEF SameQueues, SameBytes
  <1>. QED BY <1>1, <1>2, <1>3, <1>4, <1>5, <1>6, <1>7, ClientSteps

LEMMA ClientKeepsQInv ==
    ASSUME LinkInv, QInv, [ClientNext]_clientVars
    PROVE  QInv'
  <1>1. IInv'
    BY ClientKeepsIInv DEF QInv
  <1>2. BlockInPlace'
    <2>1. CASE Write
      BY <2>1, WriteMakesBlock
    <2>2. CASE pc'[Producer] # "commit"
      BY <2>2 DEF BlockInPlace
    <2>. QED BY <2>1, <2>2, ClientBuffer, ReadersKeepBytes, BlockStays
             DEF QInv, SameQueues
  <1>. QED BY <1>1, <1>2 DEF QInv

\* Only the consumers themselves touch what is local to them.
LEMMA ClientLocal ==
    ASSUME IInv, [ClientNext]_clientVars, NEW c \in Consumers, ~ConsumerStep(c)
    PROVE  LocalState(c)' = LocalState(c)
  <1>. USE DEF LocalState
  <1>1. CASE UNCHANGED vars
    BY <1>1 DEF vars, localVars
  <1>2. CASE \E t \in Threads : Acquire(t)
    BY <1>2 DEF Acquire, localVars
  <1>3. CASE ProducerMoves
    BY <1>3, ProducerMovesAlone
  <1>4. CASE \E d \in Consumers \ {c} : ConsumerStep(d)
    BY <1>4, LocalToConsumer DEF IInv
  <1>. QED BY <1>1, <1>2, <1>3, <1>4, ClientSteps, ProducerStepMoves

LEMMA ClientKeepsLocals ==
    ASSUME IInv, Locals, [ClientNext]_clientVars
    PROVE  Locals'
  <1>. SUFFICES ASSUME NEW c \in Consumers
                PROVE  LocalInv(c)'
    BY DEF Locals
  <1>1. CASE ConsumerStep(c)
    BY <1>1, LocalSteps DEF IInv, Locals
  <1>2. CASE ~ConsumerStep(c)
    BY <1>2, ClientLocal, LocalInvLocal DEF Locals
  <1>. QED BY <1>1, <1>2

LEMMA ClientKeepsInside ==
    ASSUME IInv, ProducerInside, [ClientNext]_clientVars
    PROVE  ProducerInside'
  <1>1. CASE UNCHANGED vars
    BY <1>1 DEF vars, mutexVars, ProducerInside
  <1>2. CASE \E t \in Threads : Acquire(t)
    BY <1>2 DEF Acquire, ProducerInside
  <1>3. CASE Receives
    BY <1>3, ReceivesMoves DEF ProducerInside, CriticalLabels
  <1>4. CASE ClientFlip \/ ClientProduce \/ ClientCommit
    BY <1>4 DEF ClientFlip, ClientProduce, ClientCommit, Release,
                ReleaseAndBroadcast, Unlock, ProducerInside
  <1>5. CASE Write
    BY <1>5 DEF Write, mutexVars, ProducerInside, CriticalLabels
  <1>6. ASSUME NEW c \in Consumers, ConsumerStep(c)
        PROVE  ProducerInside'
    <2>1. Producer \in Threads \ {c}
      BY ThreadsAssumption DEF Threads
    <2>2. pc'[Producer] = pc[Producer]
      BY <1>6, <2>1, ConsumerKeepsFlag
    <2>. QED BY <1>6, <2>2, ConsumerReleases DEF ProducerInside
  <1>. QED BY <1>1, <1>2, <1>3, <1>4, <1>5, <1>6, ClientSteps

LEMMA ClientKeepsMutex ==
    ASSUME "send_drain" \notin Faults, LinkInv, IInv, MutexInv,
           [ClientNext]_clientVars
    PROVE  MutexInv'
  <1>1. Typed'
    BY ClientKeepsIInv DEF IInv
  <1>2. MutexMoves /\ NoneFailed'
    <2>1. CASE UNCHANGED vars
      BY <2>1 DEF vars, mutexVars, MutexMoves, MutexInv, NoneFailed
    <2>2. CASE \E t \in Threads : Acquire(t)
      BY <2>2 DEF Acquire, MutexMoves, MutexInv, NoneFailed
    <2>3. CASE ProducerMoves
      BY <2>3, ProducerMovesAlone
      DEF ProducerMoves, MutexMoves, MutexInv, NoneFailed
    <2>. QED BY <2>1, <2>2, <2>3, ClientSteps, ProducerStepMoves,
                ConsumerMutex
  <1>. QED BY <1>1, <1>2, MutexKept

\* The invariants hold throughout.
LEMMA ClientInitSInv == ClientInit => SInv /\ MutexInv
  <1>. SUFFICES ASSUME ClientInit
                PROVE  SInv /\ MutexInv
    OBVIOUS
  <1>1. /\ SessionInit("connect", "listen")
        /\ "connect" \in AnyLabels \ {"write", "commit"}
        /\ "listen" \in UnconnectedLabels
    BY DEF ClientInit, AnyLabels, UnconnectedLabels
  <1>2. IInv /\ MutexInv /\ Locals
    BY <1>1, SessionInitIInv, SessionInitMutexInv, SessionInitLocalInv
    DEF Locals
  <1>3. LinkInv
    BY LinkInvInit
  <1>4. ProducerInside
    BY <1>1 DEF SessionInit, ProducerInside
  <1>5. BlockInPlace
    BY ProducerConnects DEF BlockInPlace
  <1>. QED BY <1>2, <1>3, <1>4, <1>5 DEF SInv, QInv

LEMMA ClientKeepsSInv == SInv /\ [ClientNext]_clientVars => SInv'
  BY LinkInvKept, ClientKeepsQInv, ClientKeepsLocals, ClientKeepsInside
  DEF SInv, QInv

LEMMA AlwaysSInv == ClientSpec => []SInv
  BY ClientInitSInv, ClientKeepsSInv, PTL DEF ClientSpec

LEMMA AlwaysClientMutex ==
    ASSUME "send_drain" \notin Faults
    PROVE  ClientSpec => []MutexInv
  <1>1. SInv /\ MutexInv /\ [ClientNext]_clientVars => MutexInv'
    BY ClientKeepsMutex DEF SInv, QInv
  <1>. QED BY <1>1, ClientInitSInv, AlwaysSInv, PTL DEF ClientSpec

\* What the server of these theorems owes to its producers holds of the
\* client, too: the copies that it makes without the mutex never meet
\* (client_behaviours.c), although the number of bytes that its producer
\* copies in is whatever recv() has returned.
THEOREM ClientNoTornReads == ClientSpec => []NoTornRead
  <1>1. SInv => NoTornRead
    BY CopiesNeverMeet DEF SInv, QInv
  <1>. QED BY <1>1, AlwaysSInv, PTL

\* What a consumer of the client copies is unread, and inside the buffer.
THEOREM ClientPiecesUnread == ClientSpec => []PiecesAreUnread
  <1>1. SInv => PiecesAreUnread
    BY PiecesInside DEF SInv, QInv
  <1>. QED BY <1>1, AlwaysSInv, PTL

\* The critical sections of the client exclude one another.
THEOREM ClientMutexHolds ==
    ASSUME "send_drain" \notin Faults
    PROVE  ClientSpec => []MutualExclusion
  <1>1. MutexInv => MutualExclusion
    BY DEF MutexInv
  <1>. QED BY <1>1, AlwaysClientMutex, PTL

\* On every connection that the client serves, DATA and END come after START.
THEOREM ClientDataFollowsStart == ClientSpec => []DataFollowsStart
  <1>1. SInv => DataFollowsStart
    BY StartsFirst DEF SInv, Locals
  <1>. QED BY <1>1, AlwaysSInv, PTL

\* Every step of the client is a step of the queues, or changes none.
LEMMA ClientQueueSteps ==
    ASSUME SInv, [ClientNext]_clientVars
    PROVE  ClientQueues!Next \/ queue' = queue
  <1>0. LinkInv /\ QInv /\ IInv
    BY DEF SInv, QInv
  <1>1. CASE Write
    BY <1>0, <1>1, WriteStutters
  <1>2. CASE Commits
    <2>1. /\ Queues!Put(BlockInFlight)
          /\ BlockInFlight \in UNION {BlocksOf(len) : len \in Offsets}
      BY <1>0, <1>2, CommitPuts
    <2>. QED BY <2>1 DEF ClientQueues!Next, ClientQueues!Put, Queues!Put
  <1>3. CASE SameQueues
    <2>1. \A i \in Registered(cb) : UnreadOf(cb', i) = UnreadOf(cb, i)
      BY <1>3 DEF SameQueues, SameBytes, UnreadOf, UnreadOffset, AvailableData
    <2>. QED BY <1>0, <1>3, <2>1, QueueStutters DEF SameQueues
  <1>4. CASE Joins
    <2>1. Queues!Join
      BY <1>0, <1>4, RegisterJoins
    <2>. QED BY <2>1 DEF ClientQueues!Next, ClientQueues!Join, Queues!Join
  <1>5. CASE \E i, n : Takes(i, n)
    <2>1. \E i \in DOMAIN queue : \E m \in 1 .. DataLen - 1 : Queues!Take(i, m)
      BY <1>0, <1>5, ConfirmTakes
    <2>. QED BY <2>1
             DEF ClientQueues!Next, ClientQueues!Take, Queues!Take, queue
  <1>. QED BY <1>0, <1>1, <1>2, <1>3, <1>4, <1>5, ClientBuffer

\* The client's session implements a bounded FIFO queue per reader as well:
\* between the commit of what recv() has returned (client_behaviours.c:187) and
\* a confirmation no byte is lost, repeated, reordered or overwritten.
THEOREM ClientIsQueues == ClientSpec => ImplementsClientQueues
  <1>1. ClientInit => ClientQueues!Init
    <2>. SUFFICES ASSUME ClientInit PROVE queue = <<>>
      BY DEF ClientQueues!Init, queue
    <2>1. QInv
      BY ClientInitSInv DEF SInv
    <2>2. cb.reader_cnt = 0
      BY DEF ClientInit, SessionInit, EmptyBuffer
    <2>. QED BY <2>1, <2>2, QueueType, EmptySeq
  <1>2. SInv /\ [ClientNext]_clientVars => [ClientQueues!Next]_queue
    BY ClientQueueSteps
  <1>. QED BY <1>1, <1>2, AlwaysSInv, PTL
           DEF ClientSpec, ImplementsClientQueues, ClientQueues!Spec, queue

-----------------------------------------------------------------------------
(* Whose bytes the queues hold, as long as no END has been cut off.         *)

\* The unread bytes of slot i are of recordings in `own' (with own = {}, there
\* are none).  All items that the client does not know look the same to it.
AllOf(i, own) ==
    \A k \in 1 .. AvailableData(cb, i) : LookUp(UnreadOf(cb, i)[k].rec) \in own

\* The queue of c while a recording is active; while c has still to wind it
\* down; and until the next.
ClientQueueOf(c) ==
    /\ cb.recordingActive =>
           /\ AllOf(consumerId[c], {recordingInfo})
           /\ out[c] # Closed => out[c] = recordingInfo
    /\ ~cb.recordingActive =>
           /\ out[c] # Closed => AllOf(consumerId[c], {out[c]})
           /\ Drained(c) => AllOf(consumerId[c], {})

\* The producer flips when all have settled.
InTune ==
    /\ pc[Producer] = "flip" /\ Producer \in holders =>
           \A c \in Consumers : Settled(c) \/ pc[c] = "register"
    /\ \A c \in Consumers :
           /\ pc[c] = "start" => cb.recordingActive
           /\ Joined(c) => ClientQueueOf(c)

KInv ==
    /\ SInv
    /\ MutexInv
    /\ ~cut => InTune

\* A break between START and END is never forgotten.
LEMMA CutStays ==
    ASSUME [ClientNext]_clientVars, cut
    PROVE  cut'
  <1>1. CASE ServerStep
    BY <1>1 DEF ServerStep, SendStartPacket, SendDataPacket, SendEndPacket,
                SendInactivePacket, Send, Break
  <1>2. CASE ClientProducerStep
    BY <1>2 DEF ClientProducerStep, Connect, LoseConnection, Receive,
                ClientFlip, ReceiveBytes, ReceiveNothing, ClientProduce,
                ClientCommit, linkVars
  <1>3. CASE UNCHANGED cut
    BY <1>3
  <1>. QED BY <1>1, <1>2, <1>3
           DEF ClientNext, ClientAcquire, ClientConsumerStep, clientVars,
               linkVars

\* Every flip changes the flag.
LEMMA FlipsAlternate ==
    ASSUME LinkInv, ~cut, pc[Producer] = "flip"
    PROVE  cb.recordingActive <=> currentRecording = NoRecording
  BY DEF LinkInv, ProducerAt

\* The bytes of a block are the session's.
LEMMA BlockIsAnnounced ==
    ASSUME LinkInv, Commits, wchunk.len > 0
    PROVE  cb.recordingActive /\ recordingInfo = LookUp(wchunk.rec)
  BY DEF LinkInv, ProducerAt, HasBytes, Commits

\* Only a flip touches the flag and the item.
LEMMA ClientFlagKept ==
    ASSUME IInv, [ClientNext]_clientVars, ~ClientFlip
    PROVE  /\ cb'.recordingActive = cb.recordingActive
           /\ recordingInfo' = recordingInfo
  <1>1. cb \in CircularBufferOf(Bytes)
    BY DEF IInv, Typed
  <1>2. CASE UNCHANGED vars
    BY <1>2 DEF vars, mainVars
  <1>3. CASE \E t \in Threads : Acquire(t)
    BY <1>3 DEF Acquire, mainVars
  <1>4. CASE Receives
    BY <1>4, ReceivesMoves
  <1>5. CASE ClientProduce
    BY <1>5 DEF ClientProduce, mainVars
  <1>6. CASE ClientCommit \/ Write
    BY <1>1, <1>6 DEF ClientCommit, Write, MemWrite, ConfirmWrite, mainVars,
                      CircularBufferOf
  <1>7. CASE \E c \in Consumers : ConsumerStep(c)
    BY <1>7, ConsumerKeepsFlag DEF mainVars
  <1>. QED BY <1>2, <1>3, <1>4, <1>5, <1>6, <1>7, ClientSteps

\* Bytes of one recording stay that, if what the producer adds is of it, too.
LEMMA AllOfNext ==
    ASSUME LinkInv, QInv, [ClientNext]_clientVars,
           NEW i \in Registered(cb), NEW own, AllOf(i, own),
           Commits /\ wchunk.len > 0 => LookUp(wchunk.rec) \in own
    PROVE  AllOf(i, own)'
  <1> DEFINE n == AvailableData(cb, i)
             u == UnreadOf(cb, i)
  <1>1. n \in Nat /\ u \in Seq(Bytes) /\ Len(u) = n
    BY UnreadIsSeq, LenProperties DEF QInv, IInv
  <1>2. CASE UnreadOf(cb', i) = u /\ AvailableData(cb', i) = n
    BY <1>2 DEF AllOf
  <1>3. CASE Write
    BY <1>2, <1>3, WriteKeepsUnread
  <1>4. CASE Commits
    <2> DEFINE len == wchunk.len
    <2>1. /\ len \in Nat
          /\ AvailableData(cb', i) = n + len
          /\ UnreadOf(cb', i) = u \o BlockInFlight
          /\ BlockInFlight \in Seq(Bytes) /\ Len(BlockInFlight) = len
          /\ \A k \in 1 .. len : BlockInFlight[k].rec = wchunk.rec
      BY <1>4, CommitAppends DEF BlockInFlight
    <2>2. ASSUME NEW k \in 1 .. n + len
          PROVE  LookUp(UnreadOf(cb', i)[k].rec) \in own
      <3>1. UnreadOf(cb', i)[k]
                = IF k <= n THEN u[k] ELSE BlockInFlight[k - n]
        <4>. HIDE DEF n, u, len
        <4>. QED BY <1>1, <2>1, ConcatProperties
      <3>2. CASE k <= n
        <4>1. k \in 1 .. n
          BY <1>1, <3>2
        <4>. QED BY <3>1, <3>2, <4>1 DEF AllOf
      <3>3. CASE ~(k <= n)
        <4>1. k - n \in 1 .. len /\ len > 0
          BY <1>1, <2>1, <3>3, SMT
        <4>. QED BY <1>4, <2>1, <3>1, <3>3, <4>1
      <3>. QED BY <3>2, <3>3
    <2>. QED BY <2>1, <2>2 DEF AllOf
  <1>5. CASE SameQueues
    <2>1. UnreadOf(cb', i) = u /\ AvailableData(cb', i) = n
      BY <1>5 DEF SameQueues, SameBytes, UnreadOf, UnreadOffset, AvailableData
    <2>. QED BY <1>2, <2>1
  <1>6. CASE Joins
    BY <1>2, <1>6, RegisterUnread, RegisterAmounts DEF Joins, QInv, IInv
  <1>7. ASSUME NEW j, NEW m, Takes(j, m) PROVE AllOf(i, own)'
    <2>1. /\ j \in Registered(cb) /\ m \in 1 .. AvailableData(cb, j)
          /\ cb' = ConfirmRead(cb, j, m) /\ Sound(cb, Bytes)
      BY <1>7 DEF Takes, QInv, IInv
    <2>2. CASE j # i
      BY <1>2, <2>1, <2>2, ConfirmReadUnread, ConfirmReadAmounts
    <2>3. CASE j = i
      <3>1. /\ AvailableData(cb', i) = n - m
            /\ \A k \in 1 .. n - m :
                   m + k \in 1 .. n /\ UnreadOf(cb', i)[k] = u[m + k]
        BY <1>7, <2>3, TakenFront DEF QInv
      <3>. QED BY <3>1 DEF AllOf
    <2>. QED BY <2>2, <2>3
  <1>. QED BY <1>3, <1>4, <1>5, <1>6, <1>7, ClientBuffer DEF QInv

\* A flip finds the queues ready for it.
LEMMA ClientFlipQueueOf ==
    ASSUME KInv, ~cut, [ClientNext]_clientVars, ClientFlip,
           NEW c \in Consumers, Joined(c)'
    PROVE  ClientQueueOf(c)'
  <1>1. /\ recordingInfo' = currentRecording
        /\ Producer \in holders /\ pc[Producer] = "flip"
    BY DEF ClientFlip, InCritical
  <1>2. cb'.recordingActive = (currentRecording # NoRecording)
    BY DEF ClientFlip, KInv, SInv, QInv, IInv, Typed, CircularBufferOf
  <1>3. LocalState(c)' = LocalState(c)
    <2>1. ProducerMoves
      BY ProducerStepMoves DEF KInv, SInv, QInv
    <2>. QED BY <2>1, ProducerMovesAlone DEF LocalState, KInv, SInv, QInv
  <1>4. Joined(c) /\ ClientQueueOf(c) /\ Settled(c) /\ LocalInv(c)
    <2>1. Joined(c) /\ pc[c] # "register"
      BY <1>3 DEF LocalState, Joined, Unconnected
    <2>2. InTune /\ LocalInv(c)
      BY DEF KInv, SInv, Locals
    <2>. QED BY <1>1, <2>1, <2>2 DEF InTune
  <1>5. /\ threadRecordingActive[c] = cb.recordingActive
        /\ bufferRecordingActive[c] = cb.recordingActive
    BY <1>4 DEF Settled, Joined
  <1>6. cb.recordingActive <=> currentRecording = NoRecording
    BY <1>1, FlipsAlternate DEF KInv, SInv
  <1>. PICK i : i = consumerId[c]
    OBVIOUS
  <1>7. i \in Registered(cb)
    BY <1>4 DEF KInv, SInv, QInv, IInv, SlotsOwned
  <1>8. ~Commits
    BY <1>1 DEF Commits
  <1>9. ASSUME NEW own, AllOf(i, own)
        PROVE  AllOf(i, own)'
    BY <1>7, <1>8, <1>9, AllOfNext DEF KInv, SInv
  <1>10. CASE cb.recordingActive
    <2>. PICK r : r = recordingInfo
      OBVIOUS
    <2>1. ~cb'.recordingActive
      BY <1>2, <1>6, <1>10
    <2>2. out[c] # Closed => out[c] = r
      BY <1>4, <1>10 DEF ClientQueueOf
    <2>3. AllOf(i, {r})'
      BY <1>4, <1>9, <1>10 DEF ClientQueueOf
    <2>4. ~Drained(c)'
      BY <1>3, <1>4, <1>5, <1>10 DEF Drained, LocalInv, FlagsMatch, LocalState
    <2>. QED BY <1>3, <2>1, <2>2, <2>3, <2>4
             DEF ClientQueueOf, LocalState, AllOf
  <1>11. CASE ~cb.recordingActive
    <2>. PICK r : r = currentRecording
      OBVIOUS
    <2>1. cb'.recordingActive
      BY <1>2, <1>6, <1>11
    <2>2. Drained(c)
      BY <1>5, <1>11 DEF Drained
    <2>3. AllOf(i, {})'
      BY <1>4, <1>9, <1>11, <2>2 DEF ClientQueueOf
    <2>4. out[c] = Closed
      BY <1>4, <1>5, <1>11 DEF LocalInv, FlagsMatch, OutputMatches, Started
    <2>. QED BY <1>1, <1>3, <2>1, <2>3, <2>4
             DEF ClientQueueOf, LocalState, AllOf
  <1>. QED BY <1>10, <1>11

\* A registration starts with an empty queue and no output.
LEMMA ClientRegisterQueueOf ==
    ASSUME SInv, NEW c \in Consumers, RegisterReader(c)
    PROVE  ClientQueueOf(c)'
  <1>1. /\ consumerId'[c] = cb.reader_cnt
        /\ AvailableData(cb', cb.reader_cnt) = 0
    BY RegisterAmounts DEF RegisterReader, SInv, QInv, IInv, Typed
  <1>2. out'[c] = Closed
    BY DEF RegisterReader, InCritical, SInv, Locals, LocalInv, OutputMatches,
           Started, Joined
  <1>3. AvailableData(cb', consumerId'[c]) = 0
    BY <1>1
  <1>. QED BY <1>2, <1>3, SMT DEF ClientQueueOf, AllOf

\* Where a consumer's state comes from, whoever steps.
LEMMA ClientOutAndDrained ==
    ASSUME IInv, [ClientNext]_clientVars, NEW c \in Consumers, LocalInv(c),
           Joined(c), Joined(c)'
    PROVE  /\ consumerId'[c] = consumerId[c]
           /\ \/ out'[c] \in {out[c], Closed}
              \/ pc[c] = "start" /\ out'[c] = recordingInfo
           /\ Drained(c)' =>
                  Drained(c) \/ AvailableData(cb', consumerId[c]) = 0
  <1>1. CASE ConsumerStep(c)
    BY <1>1, LocalMoves
  <1>2. CASE ~ConsumerStep(c)
    <2>1. LocalState(c)' = LocalState(c)
      BY <1>2, ClientLocal
    <2>. QED BY <2>1 DEF LocalState, Drained
  <1>. QED BY <1>1, <1>2

\* Any other step leaves the flag alone, and the queue as it should be.
LEMMA ClientStepQueueOf ==
    ASSUME KInv, ~cut, [ClientNext]_clientVars, ~ClientFlip,
           NEW c \in Consumers, Joined(c), Joined(c)'
    PROVE  ClientQueueOf(c)'
  <1>0. LinkInv /\ QInv /\ IInv /\ InTune /\ LocalInv(c)
    BY DEF KInv, SInv, QInv, Locals
  <1>1. /\ cb'.recordingActive = cb.recordingActive
        /\ recordingInfo' = recordingInfo
    BY <1>0, ClientFlagKept
  <1>2. /\ consumerId'[c] = consumerId[c]
        /\ \/ out'[c] \in {out[c], Closed}
           \/ pc[c] = "start" /\ out'[c] = recordingInfo
        /\ Drained(c)' =>
               Drained(c) \/ AvailableData(cb', consumerId[c]) = 0
    BY <1>0, ClientOutAndDrained
  <1>3. ClientQueueOf(c) /\ consumerId[c] \in Registered(cb)
    BY <1>0 DEF InTune, IInv, SlotsOwned
  <1>. PICK i : i = consumerId[c]
    OBVIOUS
  <1>4. CASE cb.recordingActive
    <2>. PICK r : r = recordingInfo
      OBVIOUS
    <2>1. Commits /\ wchunk.len > 0 => LookUp(wchunk.rec) \in {r}
      BY <1>0, BlockIsAnnounced
    <2>2. AllOf(i, {r})'
      BY <1>0, <1>3, <1>4, <2>1, AllOfNext DEF ClientQueueOf
    <2>3. out'[c] # Closed => out'[c] = r
      BY <1>2, <1>3, <1>4 DEF ClientQueueOf
    <2>. QED BY <1>1, <1>2, <1>4, <2>2, <2>3 DEF ClientQueueOf, AllOf
  <1>5. CASE ~cb.recordingActive
    <2>. PICK r : r = out[c]
      OBVIOUS
    <2>1. ASSUME NEW own, AllOf(i, own)
          PROVE  AllOf(i, own)'
      <3>1. ~(Commits /\ wchunk.len > 0)
        BY <1>0, <1>5, BlockIsAnnounced
      <3>. QED BY <1>0, <1>3, <2>1, <3>1, AllOfNext
    <2>2. pc[c] # "start"
      BY <1>0, <1>5 DEF InTune
    <2>3. out'[c] # Closed => out'[c] = r /\ AllOf(i, {r})'
      BY <1>2, <1>3, <1>5, <2>1, <2>2 DEF ClientQueueOf
    <2>4. Drained(c)' => AllOf(i, {})'
      <3>1. CASE Drained(c)
        BY <1>3, <1>5, <2>1, <3>1 DEF ClientQueueOf
      <3>2. CASE AvailableData(cb', i) = 0
        BY <3>2, SMT DEF AllOf
      <3>. QED BY <1>2, <3>1, <3>2
    <2>. QED BY <1>1, <1>2, <1>5, <2>3, <2>4 DEF ClientQueueOf, AllOf
  <1>. QED BY <1>4, <1>5

\* The flag and the item stay, and nobody new is in the mutex: then who had
\* settled still has.
LEMMA ClientStaySettled ==
    ASSUME IInv, MutexInv, Locals, [ClientNext]_clientVars, ~ClientFlip,
           NEW c \in Consumers, Settled(c) \/ pc[c] = "register",
           ConsumerStep(c) => Producer \in holders
    PROVE  Settled(c)' \/ pc'[c] = "register"
  <1>1. cb'.recordingActive = cb.recordingActive
    BY ClientFlagKept
  <1>2. CASE ConsumerStep(c)
    <2>1. Producer \in holders \ Consumers
      BY <1>2, ThreadsAssumption
    <2>. QED BY <1>2, <2>1, StaysSettled DEF Locals
  <1>3. CASE ~ConsumerStep(c)
    BY <1>1, <1>3, ClientLocal, OthersStaySettled
  <1>. QED BY <1>2, <1>3

\* When the producer has come into the mutex to flip, all have settled.
LEMMA ClientFlipReady ==
    ASSUME SlowFlips, KInv, ~cut, [ClientNext]_clientVars,
           pc'[Producer] = "flip", Producer \in holders',
           NEW c \in Consumers
    PROVE  Settled(c)' \/ pc'[c] = "register"
  <1>0. /\ IInv /\ LinkInv /\ MutexInv /\ Locals /\ InTune /\ ProducerInside
        /\ pc \in [Threads -> AnyLabels] /\ Producer \in Threads
    BY DEF KInv, SInv, QInv, IInv, Typed, Threads
  <1>. HIDE DEF KInv
  <1>1. CASE UNCHANGED vars
    <2>1. Settled(c) \/ pc[c] = "register"
      BY <1>0, <1>1 DEF vars, mutexVars, InTune
    <2>. QED BY <1>1, <2>1 DEF vars, localVars, Settled, Unconnected
  <1>2. ASSUME NEW t \in Threads, Acquire(t), ClientFlipDue(t)
        PROVE  Settled(c)' \/ pc'[c] = "register"
    <2>1. /\ holders' = holders \cup {t}
          /\ UNCHANGED <<cb, pc, localVars>>
      BY <1>2 DEF Acquire
    <2>2. Settled(c) \/ pc[c] = "register"
      <3>1. CASE Producer \in holders
        BY <1>0, <2>1, <3>1 DEF InTune
      <3>2. CASE t = Producer
        BY <1>0, <1>2, <2>1, <3>2, FlipsAlternate DEF ClientFlipDue
      <3>. QED BY <2>1, <3>1, <3>2
    <2>. QED BY <2>1, <2>2 DEF localVars, Settled, Unconnected
  <1>3. CASE Receives
    <2>1. Producer \notin holders
      BY <1>0, <1>3, ReceivesMoves DEF ProducerInside, CriticalLabels
    <2>. QED BY <1>0, <1>3, <2>1, ReceivesMoves
  <1>4. CASE ClientFlip \/ ClientProduce \/ ClientCommit \/ Write
    <2>1. pc'[Producer] # "flip"
      BY <1>0, <1>4, BytesDoneTyped
      DEF ClientFlip, ClientProduce, ClientCommit, Write, Goto
    <2>. QED BY <2>1
  <1>5. ASSUME NEW d \in Consumers, ConsumerStep(d)
        PROVE  Settled(c)' \/ pc'[c] = "register"
    <2>1. Producer \in Threads \ {d}
      BY <1>0, ThreadsAssumption
    <2>2. pc[Producer] = "flip" /\ Producer \in holders
      BY <1>0, <1>5, <2>1, ConsumerKeepsFlag, ConsumerReleases
    <2>3. Settled(c) \/ pc[c] = "register"
      BY <1>0, <2>2 DEF InTune
    <2>4. ~ClientFlip
      <3>1. pc'[Producer] = pc[Producer]
        BY <1>0, <1>5, <2>1, ConsumerKeepsFlag
      <3>. QED BY <1>0, <2>2, <3>1 DEF ClientFlip, Goto
    <2>. QED BY <1>0, <2>2, <2>3, <2>4, ClientStaySettled
  <1>. QED BY <1>1, <1>2, <1>3, <1>4, <1>5, ClientSteps

\* A consumer starts a file or a transmission while the flag is set.
LEMMA ClientStartsWhenActive ==
    ASSUME KInv, ~cut, [ClientNext]_clientVars,
           NEW c \in Consumers, pc'[c] = "start"
    PROVE  cb'.recordingActive
  <1>0. IInv /\ LinkInv /\ InTune /\ LocalInv(c)
    BY DEF KInv, SInv, QInv, Locals
  <1>. HIDE DEF KInv
  <1>1. CASE ClientFlip
    <2>1. pc[c] = "start"
      BY <1>0, <1>1, ProducerStepMoves, ProducerMovesAlone
    <2>2. Settled(c)
      BY <1>0, <1>1, <2>1 DEF InTune, ClientFlip, InCritical
    <2>. QED BY <1>0, <2>1, <2>2
             DEF Settled, Unconnected, UnconnectedLabels, LocalInv, FlagsMatch
  <1>2. CASE ~ClientFlip
    <2>1. cb'.recordingActive = cb.recordingActive
      BY <1>0, <1>2, ClientFlagKept
    <2>2. CASE ConsumerStep(c)
      BY <1>0, <2>1, <2>2, StartsWhenActive
    <2>3. CASE ~ConsumerStep(c)
      <3>1. pc'[c] = pc[c]
        BY <1>0, <2>3, ClientLocal DEF LocalState
      <3>. QED BY <1>0, <2>1, <3>1 DEF InTune
    <2>. QED BY <2>2, <2>3
  <1>. QED BY <1>1, <1>2

\* The producer and the consumers stay in tune.
LEMMA InTuneNext ==
    ASSUME SlowFlips, KInv, ~cut, [ClientNext]_clientVars
    PROVE  InTune'
  <1>0. IInv /\ SInv
    BY DEF KInv, SInv, QInv
  <1>1. ASSUME NEW c \in Consumers, Joined(c)'
        PROVE  ClientQueueOf(c)'
    <2>1. CASE ClientFlip
      BY <1>1, <2>1, ClientFlipQueueOf
    <2>2. CASE RegisterReader(c)
      BY <1>0, <2>2, ClientRegisterQueueOf
    <2>3. CASE ~ClientFlip /\ ~RegisterReader(c)
      <3>1. Joined(c)
        <4>1. CASE ConsumerStep(c)
          BY <1>0, <1>1, <2>3, <4>1, JoinsByRegistering
        <4>2. CASE ~ConsumerStep(c)
          BY <1>0, <1>1, <4>2, ClientLocal DEF LocalState, Joined, Unconnected
        <4>. QED BY <4>1, <4>2
      <3>. QED BY <1>1, <2>3, <3>1, ClientStepQueueOf
    <2>. QED BY <2>1, <2>2, <2>3
  <1>2. \A c \in Consumers : pc'[c] = "start" => cb'.recordingActive
    BY ClientStartsWhenActive
  <1>3. pc'[Producer] = "flip" /\ Producer \in holders' =>
            \A c \in Consumers : Settled(c)' \/ pc'[c] = "register"
    BY ClientFlipReady
  <1>. QED BY <1>1, <1>2, <1>3 DEF InTune

\* The strengthened invariant is one.
LEMMA AlwaysKInv ==
    ASSUME SlowFlips, "send_drain" \notin Faults
    PROVE  ClientSpec => []KInv
  <1>1. ClientInit => KInv
    <2>. SUFFICES ASSUME ClientInit
                  PROVE  KInv
      OBVIOUS
    <2>1. SInv /\ MutexInv /\ pc[Producer] # "flip"
      BY ClientInitSInv, ProducerConnects
    <2>2. ASSUME NEW c \in Consumers
          PROVE  pc[c] \in {"register", "listen"}
      <3>1. /\ c \in Threads /\ c # Main /\ c # Producer
            /\ c \in FileConsumers \/ c \in NetConsumers
            /\ FileConsumers \cap NetConsumers = {}
        BY ThreadsAssumption DEF Threads, Consumers
      <3>2. pc = [t \in Threads |-> CASE t = Main -> "schedule"
                                  [] t = Producer -> "connect"
                                  [] t \in FileConsumers -> "register"
                                  [] t \in NetConsumers -> "listen"]
        BY DEF ClientInit, SessionInit
      <3>3. pc[c] = CASE c = Main -> "schedule"
                      [] c = Producer -> "connect"
                      [] c \in FileConsumers -> "register"
                      [] c \in NetConsumers -> "listen"
        BY <3>1, <3>2
      <3>4. CASE c \in FileConsumers
        BY <3>1, <3>3, <3>4
      <3>5. CASE c \in NetConsumers
        BY <3>1, <3>3, <3>5
      <3>. QED BY <3>1, <3>4, <3>5
    <2>3. InTune
      BY <2>1, <2>2 DEF InTune, Joined, Unconnected, UnconnectedLabels
    <2>. QED BY <2>1, <2>3 DEF KInv
  <1>2. KInv /\ [ClientNext]_clientVars => KInv'
    <2>. SUFFICES ASSUME KInv, [ClientNext]_clientVars
                  PROVE  KInv'
      OBVIOUS
    <2>1. SInv' /\ MutexInv'
      BY ClientKeepsSInv, ClientKeepsMutex DEF KInv, SInv, QInv
    <2>2. ~cut' => InTune'
      BY CutStays, InTuneNext
    <2>. QED BY <2>1, <2>2 DEF KInv
  <1>. QED BY <1>1, <1>2, PTL DEF ClientSpec

\* As long as no connection has broken between START and END, no file and no
\* transmission of the client mixes recordings (client_behaviours.c:143-213,
\* 304-420), if the consumers keep up with the flips and no send fails in the
\* drain loop; whatever the number of consumers, the lengths of the packets,
\* and the connections and clients that vanish otherwise.
THEOREM OneRecordingInEach ==
    ASSUME SlowFlips, "send_drain" \notin Faults
    PROVE  ClientSpec => []OneRecordingEach
  <1>1. KInv => OneRecordingEach
    <2>. SUFFICES ASSUME KInv, ~cut, NEW c \in Consumers, out[c] # Closed,
                         NEW k \in ForeignBytes(c)
                  PROVE  LookUp(cb.data_ptr[
                             UnreadOffset(cb, consumerId[c], k)].rec) = out[c]
      BY DEF OneRecordingEach
    <2> DEFINE i == consumerId[c]
    <2>0. IInv /\ LocalInv(c) /\ InTune
      BY DEF KInv, SInv, QInv, Locals
    <2>1. Joined(c) /\ ClientQueueOf(c)
      BY <2>0 DEF LocalInv, OutputMatches, Started, InTune
    <2>2. i \in Registered(cb) /\ Sound(cb, Bytes)
      BY <2>0, <2>1 DEF IInv, SlotsOwned
    <2>3. AllOf(i, {out[c]})
      BY <2>0, <2>1 DEF ClientQueueOf, IInv, Typed, CircularBufferOf
    <2>4. AvailableData(cb, i) \in Nat
      BY <2>2, AvailableRange, SMT DEF Offsets
    <2>5. k \in 0 .. AvailableData(cb, i) - 1
      BY DEF ForeignBytes
    <2>. HIDE DEF i
    <2>6. k + 1 \in 1 .. AvailableData(cb, i) /\ (k + 1) - 1 = k
      BY <2>4, <2>5, SMT
    <2>7. UnreadOf(cb, i)[k + 1] = cb.data_ptr[UnreadOffset(cb, i, k)]
      BY <2>2, <2>6, UnreadIsSeq
    <2>8. LookUp(UnreadOf(cb, i)[k + 1].rec) = out[c]
      BY <2>3, <2>6 DEF AllOf
    <2>. QED BY <2>7, <2>8 DEF i
  <1>. QED BY <1>1, AlwaysKInv, PTL

=============================================================================
