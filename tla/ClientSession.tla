--------------------------- MODULE ClientSession ---------------------------
(***************************************************************************)
(* A session of the client that networkProducerThread                      *)
(* (client_behaviours.c) feeds over TCP from the network consumer of a     *)
(* server, with the consumers of BufferSession at its other side.  The     *)
(* loops of bufferFileConsumerThread and bufferNetworkConsumerThread in    *)
(* client_behaviours.c are those of the server, and so are their actions   *)
(* here.  What differs is the producer: it reads                           *)
(*                                                                         *)
(*      START id  (DATA len, the bytes)*  END      and INACTIVE in between *)
(*                                                                         *)
(* from the connection, flips recordingActive itself, and connects again   *)
(* when the connection has broken.  Main has no part in it.                *)
(*                                                                         *)
(* The connection is a queue of what is on its way: headers, and the bytes *)
(* behind a DATA header as one element (DATA packets are no longer than    *)
(* the producer's readBuffer).  When it breaks, the rest may be lost from  *)
(* any element on.                                                         *)
(***************************************************************************)
EXTENDS BufferSession

CONSTANTS Known,        \* the plan items in the client's database
          PacketSizes,  \* lengths of DATA packets
          MaxChan,      \* BOUND on the elements in flight
          Breaks,       \* how a connection may break: see link
          BreaksInData  \* TRUE: also between the header of a DATA packet and
                        \* the end of its bytes

Unknown == -1       \* the id of an item that getDbItemById makes up

ASSUME LinkAssumption ==
    /\ Known \subseteq Recordings
    /\ Unknown \in Recordings
    /\ PacketSizes \subseteq 1 .. ReadSize
    /\ MaxChan \in Nat
    /\ Breaks \subseteq {"closed", "reset"}
    /\ BreaksInData \in BOOLEAN

VARIABLES
    link,         \* "up"; broken: recv() returns 0 ("closed"), or first -1
                  \* ("reset"); not connected ("down")
    chan,         \* what the server has sent and the producer not received
    sent,         \* the id of the START that the server has sent on this
                  \* connection without an END after it
    dataToRead,   \* of the producer
    cut           \* history: a connection has broken between START and END

linkVars == <<link, chan, sent, dataToRead, cut>>
clientVars == <<vars, linkVars>>

Header(type, value) == [type |-> type, value |-> value]
Payload(rec, len) == [type |-> "BYTES", value |-> rec, len |-> len]

\* getDbItemById: the id of the item, or of the one it makes up.  The id of a
\* recording is here that of its START: where a lookup has failed, or the client's
\* plan has changed since, the START stands in Recordings as one that is unknown.
LookUp(id) == IF id \in Known THEN id ELSE Unknown

-----------------------------------------------------------------------------
(* The server's side of the connection, server_network_consumer.c.         *)

Send(items) ==
    /\ link = "up"
    /\ Len(chan) + Len(items) <= MaxChan
    /\ chan' = chan \o items
    /\ UNCHANGED <<vars, link, dataToRead, cut>>

\* The timing assumption of BufferSession: STARTs and ENDs come more than ten
\* seconds apart, so a START is sent when the flip before has been reacted to,
\* and the flag changes (ClientFlipDue) when newcomers have seen it, too.
SendStartPacket(r) ==
    /\ sent = NoRecording
    /\ SlowFlips => /\ chan = <<>> /\ pc[Producer] = "header"
                    /\ \A c \in Consumers : Settled(c)
    /\ sent' = r
    /\ Send(<<Header("START", r)>>)

SendDataPacket(len) ==
    /\ sent # NoRecording
    /\ UNCHANGED sent
    /\ Send(<<Header("DATA", len), Payload(sent, len)>>)

SendEndPacket ==
    /\ sent # NoRecording
    /\ sent' = NoRecording
    /\ Send(<<Header("END", 0)>>)

SendInactivePacket ==
    /\ sent = NoRecording
    /\ UNCHANGED sent
    /\ Send(<<Header("INACTIVE", 0)>>)

\* Only the first k elements in flight arrive.
BreaksPacket(k) == k < Len(chan) /\ chan[k + 1].type = "BYTES"

Break(k, how) ==
    /\ link = "up"
    /\ BreaksPacket(k) => BreaksInData
    /\ link' = how
    /\ chan' = SubSeq(chan, 1, k)
    /\ cut' = (\/ cut
               \/ sent # NoRecording
               \/ \E i \in k + 1 .. Len(chan) : chan[i].type = "END")
    /\ UNCHANGED <<vars, sent, dataToRead>>

-----------------------------------------------------------------------------
(* networkProducerThread. *)

\* (An attempt that fails is followed by a sleep and the next one.  The old
\* socket is not closed.)
Connect ==
    /\ pc[Producer] = "connect"
    /\ link' = "up" /\ chan' = <<>> /\ sent' = NoRecording
    /\ Goto(Producer, "header")
    /\ UNCHANGED <<cb, mainVars, mutexVars, wchunk, localVars, dataToRead, cut>>

\* Mutant: the end of the stream is not told from a header.
LoseOnError ==
    /\ pc[Producer] = "header"
    /\ chan = <<>>
    /\ \/ link = "reset" /\ link' = "down" /\ Goto(Producer, "connect")
       \/ link = "closed" /\ UNCHANGED <<link, pc>>
    /\ UNCHANGED <<cb, mainVars, mutexVars, wchunk, localVars, chan, sent,
                   dataToRead, cut>>

\* recvExact of a header fails.
LoseConnection ==
    /\ pc[Producer] = "header"
    /\ chan = <<>> /\ link \in {"closed", "reset"}
    /\ link' = "down"
    /\ Goto(Producer, "connect")
    /\ UNCHANGED <<cb, mainVars, mutexVars, wchunk, localVars, chan, sent,
                   dataToRead, cut>>

\* A START is looked up in the client's copy of the plan; the id of an END
\* becomes that of the empty item.
ReceiveHeader(p) ==
    /\ \/ /\ p.type = "START"
          /\ currentRecording' = LookUp(p.value)
          /\ Goto(Producer, "flip")
          /\ UNCHANGED <<waiting, dataToRead>>
       \/ /\ p.type = "DATA"
          /\ dataToRead' = p.value
          /\ Goto(Producer, "payload")
          /\ UNCHANGED <<waiting, currentRecording>>
       \/ /\ p.type = "END"
          /\ currentRecording' = NoRecording
          /\ Goto(Producer, "flip")
          /\ UNCHANGED <<waiting, dataToRead>>
       \/ /\ p.type = "INACTIVE"      \* a broadcast without the mutex
          /\ waiting' = {}
          /\ UNCHANGED <<pc, currentRecording, dataToRead>>
    /\ UNCHANGED <<cb, recordingInfo, locked, holders, wchunk, localVars>>

Receive ==
    /\ pc[Producer] = "header"
    /\ chan # <<>>
    /\ ReceiveHeader(Head(chan))
    /\ chan' = Tail(chan)
    /\ UNCHANGED <<link, sent, cut>>

ClientFlipDue(t) ==
    SlowFlips /\ t = Producer /\ pc[t] = "flip"
        => \/ cb.recordingActive = (currentRecording # NoRecording)
           \/ \A c \in Consumers : Settled(c)

ClientAcquire(t) == ClientFlipDue(t) /\ Acquire(t) /\ UNCHANGED linkVars

\* Mutant: an END does not wake the consumers.
FlipSilent ==
    /\ InCritical(Producer, "flip")
    /\ recordingInfo' = currentRecording
    /\ cb' = [cb EXCEPT !.recordingActive = (currentRecording # NoRecording)]
    /\ Release(Producer)
    /\ Goto(Producer, "header")
    /\ UNCHANGED <<currentRecording, wchunk, localVars, linkVars>>

\* Mutant: a START during a recording is ignored.
FlipOnce ==
    /\ InCritical(Producer, "flip")
    /\ recordingInfo' =
           IF cb.recordingActive /\ currentRecording # NoRecording
           THEN recordingInfo ELSE currentRecording
    /\ cb' = [cb EXCEPT !.recordingActive = (currentRecording # NoRecording)]
    /\ ReleaseAndBroadcast(Producer)
    /\ Goto(Producer, "header")
    /\ UNCHANGED <<currentRecording, wchunk, localVars, linkVars>>

\* The critical sections of START and END.  Only END broadcasts.
ClientFlip ==
    /\ InCritical(Producer, "flip")
    /\ recordingInfo' = currentRecording
    /\ cb' = [cb EXCEPT !.recordingActive = (currentRecording # NoRecording)]
    /\ IF currentRecording = NoRecording THEN ReleaseAndBroadcast(Producer)
                                         ELSE Release(Producer)
    /\ Goto(Producer, "header")
    /\ UNCHANGED <<currentRecording, wchunk, localVars, linkVars>>

\* The bytes of a DATA packet, received into readBuffer ...
ReceiveBytes ==
    /\ pc[Producer] = "payload"
    /\ chan # <<>>
    /\ wchunk' = [rec |-> Head(chan).value, len |-> Head(chan).len]
    /\ chan' = Tail(chan)
    /\ Goto(Producer, "produce")
    /\ UNCHANGED <<cb, mainVars, mutexVars, localVars, link, sent, dataToRead,
                   cut>>

\* ... or what recvExact returns on a broken connection, which is used as
\* their number.
ReceiveNothing ==
    /\ pc[Producer] = "payload"
    /\ chan = <<>> /\ link \in {"closed", "reset"}
    /\ wchunk' = [rec |-> NoRecording, len |-> IF link = "reset" THEN -1 ELSE 0]
    /\ link' = "closed"
    /\ Goto(Producer, "produce")
    /\ UNCHANGED <<cb, mainVars, mutexVars, localVars, chan, sent, dataToRead,
                   cut>>

\* The bottom of the loop over the bytes of a packet.
BytesDone ==
    /\ dataToRead' = dataToRead - wchunk.len
    /\ Goto(Producer, IF dataToRead' > 0 THEN "payload" ELSE "header")
    /\ wchunk' = NoChunk

\* Is there space for them?  (As a size_t, -1 is more than any space.)
ClientProduce ==
    /\ InCritical(Producer, "produce")
    /\ IF wchunk.len >= 0 /\ WriterSpace(cb) >= wchunk.len
       THEN Goto(Producer, "write") /\ UNCHANGED <<wchunk, dataToRead>>
       ELSE BytesDone
    /\ Release(Producer)
    /\ UNCHANGED <<cb, mainVars, localVars, link, chan, sent, cut>>

ClientCommit ==
    /\ InCritical(Producer, "commit")
    /\ cb' = ConfirmWrite(cb, wchunk.len)
    /\ ReleaseAndBroadcast(Producer)
    /\ BytesDone
    /\ UNCHANGED <<mainVars, localVars, link, chan, sent, cut>>

-----------------------------------------------------------------------------
(* The consumers: the loops of BufferSession. *)

\* bufferFileConsumerThread
ClientFileConsumer(c) == c \in FileConsumers /\ (LoopStep(c) \/ FileStep(c))

\* bufferNetworkConsumerThread; its port comes from its own arguments, so it
\* starts with setting up its socket.
ClientListen(c) == Listen(c)

ClientNetworkConsumer(c) ==
    c \in NetConsumers /\ (ClientListen(c) \/ LoopStep(c) \/ NetStep(c))

ClientConsumerStep(c) ==
    (ClientFileConsumer(c) \/ ClientNetworkConsumer(c)) /\ UNCHANGED linkVars

-----------------------------------------------------------------------------
(* The specification. *)

ClientInit ==
    /\ SessionInit("connect", "listen")
    /\ link = "down" /\ chan = <<>> /\ sent = NoRecording
    /\ dataToRead = 0 /\ cut = FALSE

ServerStep ==
    \/ \E r \in Recordings \ {Unknown} : SendStartPacket(r)
    \/ \E len \in PacketSizes : SendDataPacket(len)
    \/ SendEndPacket
    \/ SendInactivePacket
    \/ \E k \in 0 .. Len(chan), how \in Breaks : Break(k, how)

ClientProducerStep ==
    \/ Connect \/ LoseConnection \/ Receive \/ ClientFlip
    \/ ReceiveBytes \/ ReceiveNothing \/ ClientProduce \/ ClientCommit
    \/ Write /\ UNCHANGED linkVars

ClientNext ==
    \/ ServerStep
    \/ ClientProducerStep
    \/ \E t \in Threads : ClientAcquire(t)
    \/ \E c \in Consumers : ClientConsumerStep(c)

ClientSpec == ClientInit /\ [][ClientNext]_clientVars

(* As in BufferSession; and the producer goes on receiving and connecting,  *)
(* so a server is assumed that accepts connections again and again.         *)
ClientFairness ==
    /\ \A t \in Threads : SF_clientVars(ClientAcquire(t))
    /\ WF_clientVars(ClientProducerStep)
    /\ \A c \in Consumers :
          WF_clientVars(ClientConsumerStep(c) /\ pc[c] # "accept"
                                              /\ pc'[c] # "stopped")

ClientFairSpec == ClientSpec /\ ClientFairness

-----------------------------------------------------------------------------
(* Properties. *)

\* What is written into the buffer has been sent under the START that the
\* session announces, also after a connection that broke before its END
\* (client_behaviours.c:158-160).
DataUnderItsStart ==
    pc[Producer] = "write" /\ wchunk.len > 0 =>
        cb.recordingActive /\ recordingInfo = LookUp(wchunk.rec)

\* No file and no transmission mixes recordings, as long as no connection has
\* broken between START and END; after such a break the flag stays set, and
\* the next recording goes where the one before went.  (All plan items that
\* the client does not know look the same to it.)
OneRecordingEach ==
    ~cut => \A c \in Consumers : out[c] # Closed =>
                \A k \in ForeignBytes(c) :
                    LookUp(cb.data_ptr[UnreadOffset(cb, consumerId[c], k)].rec)
                        = out[c]

\* The client's session implements BroadcastQueue, too, for blocks of any
\* length that fits: what recv() has returned for a packet goes into all queues
\* or into none (client_behaviours.c:168-192).
ClientQueues == INSTANCE BroadcastQueue
                  WITH Capacity <- DataLen - 1,
                       Blocks <- UNION {BlocksOf(len) : len \in Offsets},
                       queue <- [i \in 1 .. cb.reader_cnt |-> Unread(i - 1)]

ImplementsClientQueues == ClientQueues!Spec

Broken == link \in {"closed", "reset"}

\* The end of a packet is missing from a broken connection.
Truncated == IF chan = <<>> THEN dataToRead > wchunk.len
                            ELSE chan[Len(chan)].type = "DATA"

\* A client whose connection has broken connects again
\* (client_behaviours.c:210) ...
LinkRecovers == Broken ~> link = "up"

\* ... which holds if it has broken between two packets, whatever was on its
\* way and whatever the producer was doing.
LinkRecoversBetweenPackets == Broken /\ ~Truncated ~> link = "up"

=============================================================================
