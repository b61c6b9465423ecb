---------------------------- MODULE DataProcessor ----------------------------
(***************************************************************************)
(* dataProcessorThread (client_behaviours.c): merges the streams of all    *)
(* receivers, millisecond by millisecond, into the output buffer.          *)
(*                                                                         *)
(* A stream brings the milliseconds of the true time in order, with gaps;  *)
(* the module knows a millisecond by its true time, the code only by that  *)
(* modulo 1000.  What getValidMillisecond does with the bytes is the       *)
(* subject of MsSearch; here it takes the next millisecond of a stream, or *)
(* returns -1.  A critical section is one step, a wait one with the        *)
(* critical section it ends in.                                            *)
(***************************************************************************)
EXTENDS Integers, Sequences, FiniteSetsExt

CONSTANTS StreamCount,   \* the 4 input buffers
          Modulus,       \* the 1000 of a header's millisecond
          Ahead,         \* the milliseconds that must be there to take one
          MaxQueue,      \* what an input buffer holds
          Starts,        \* the true time at which each recording starts
          Spread,        \* BOUND: how much later a stream may start
          Losses,        \* BOUND: how many milliseconds may be lost in a row
          MaxLosses,     \* BOUND on losses
          MaxMs          \* BOUND on the milliseconds of a recording

ASSUME ProcessorAssumption ==
    /\ {StreamCount, Modulus, Ahead} \subseteq Nat \ {0}
    /\ Ahead <= MaxQueue
    /\ Starts \in Seq(Nat)
    /\ {Spread, MaxLosses, MaxMs} \subseteq Nat
    /\ Losses \subseteq Nat \ {0}

VARIABLES
    active,        \* per stream: recordingActive of its buffer
    queue,         \* per stream: the milliseconds in its buffer
    now,           \* per stream: the next millisecond it will bring
    recordingNo,   \* per stream: which recording, 0 before the first
    losses,        \* losses so far
    pc,
    i,             \* the loop variable over streams
    recording,     \* copied from the master buffer
    streamMs,      \* per stream: the millisecond taken last
    msFromStart,
    currentMs,
    allActive,     \* allBuffersActive
    someData,      \* someBufferHasData
    out,           \* the output buffer's flag and recording
    base,          \* history: the true time at which msFromStart was 0
    unshown,       \* history, per stream: milliseconds taken from it in this
                   \* recording that have been in no block
    slips,         \* history, per stream: whole periods missing between the
                   \* milliseconds taken from it in this recording
    close,         \* history: the first milliseconds of the streams were less
                   \* than half a period apart
    timely         \* history: so far, see Start and End

streamVars == <<active, queue, now, recordingNo, losses>>
localVars == <<recording, streamMs, msFromStart, currentMs, allActive, someData>>
historyVars == <<base, unshown, slips, close, timely>>
vars == <<streamVars, pc, i, localVars, out, historyVars>>

Streams == 1 .. StreamCount
Master == 1

-----------------------------------------------------------------------------
(* The streams: what networkProducerThread does with their buffers. *)

\* A stream's recording starts, at most Spread after the first.  It is timely
\* if the processor is done with the one before (ten minutes of aiming lie in
\* between).
Start(s) ==
    /\ ~active[s]
    /\ recordingNo[s] < Len(Starts)
    /\ \E late \in 0 .. Spread :
          now' = [now EXCEPT ![s] = Starts[recordingNo[s] + 1] + late]
    /\ recordingNo' = [recordingNo EXCEPT ![s] = @ + 1]
    /\ active' = [active EXCEPT ![s] = TRUE]
    /\ timely' = (timely /\ pc \in {"wait_master", "wait_all"})
    /\ UNCHANGED <<queue, losses, pc, i, localVars, out, base, unshown, slips, close>>

\* It ends; what is in the buffer is left to the processor.  That is timely if
\* no recording is so short, and no server so late, that the processor has not
\* yet taken the first millisecond of each stream.
End(s) ==
    /\ active[s]
    /\ active' = [active EXCEPT ![s] = FALSE]
    /\ timely' =
           (timely /\ pc \notin {"wait_master", "wait_all", "announce", "first"})
    /\ UNCHANGED <<queue, now, recordingNo, losses, pc, i, localVars, out,
                   base, unshown, slips, close>>

Arrives(s) ==
    /\ active[s]
    /\ now[s] < Starts[recordingNo[s]] + MaxMs

\* The next millisecond to arrive, after lost ones that have not.
Bring(s, lost) ==
    /\ Arrives(s)
    /\ Len(queue[s]) < MaxQueue
    /\ queue' = [queue EXCEPT ![s] = Append(@, now[s] + lost)]
    /\ now' = [now EXCEPT ![s] = @ + lost + 1]
    /\ UNCHANGED <<active, recordingNo, pc, i, localVars, out, historyVars>>

Deliver(s) == Bring(s, 0) /\ UNCHANGED losses

\* Milliseconds are lost on the way, any number of them: no space in a buffer,
\* a connection that has to be made again (5 s and more).
Lose(s) ==
    /\ losses < MaxLosses
    /\ losses' = losses + 1
    /\ \E lost \in Losses : Bring(s, lost)

-----------------------------------------------------------------------------
(* Helpers of the processor. *)

MsOf(t) == t % Modulus

\* Mutant: the smallest number is the earliest.
SmallestMs(ms) == Min(Range(ms))

\* getEarliestMs: of the sorted milliseconds, what follows the largest gap (the
\* first of them), the one around the end included.
getEarliestMs(ms) ==
    LET values == Range(ms)
        Gap(m) == IF m = Min(values)
                  THEN Modulus - Max(values) + m
                  ELSE m - Max({l \in values : l < m})
        widest == {m \in values : \A l \in values : Gap(l) <= Gap(m)}
        inside == widest \ {Min(values)}
    IN  IF inside = {} THEN Min(values) ELSE Min(inside)

\* Mutant: the wait is for data only.
MayTakeData(s) == Len(queue[s]) >= Ahead

\* getValidMillisecond on stream s, when it does not wait: take the next
\* millisecond, or change nothing.
MayTake(s) == active[s] => Len(queue[s]) >= Ahead
Take(s) ==
    IF active[s]
    THEN /\ streamMs' = [streamMs EXCEPT ![s] = Head(queue[s])]
         /\ unshown' = [unshown EXCEPT ![s] = @ + 1]
         /\ queue' = [queue EXCEPT ![s] = Tail(@)]
    ELSE UNCHANGED <<streamMs, queue, unshown>>

\* What is missing between the millisecond taken last and the next one.
Missing(s) == Head(queue[s]) - streamMs[s] - 1

\* The end of a loop over the streams.
Loop(again, after) ==
    IF i < StreamCount THEN pc' = again /\ i' = i + 1 ELSE pc' = after /\ i' = 1

-----------------------------------------------------------------------------
(* The processor. *)

WaitForMaster ==
    /\ pc = "wait_master"
    /\ active[Master]
    /\ recording' = recordingNo[Master]
    /\ pc' = "wait_all"
    /\ UNCHANGED <<streamVars, i, streamMs, msFromStart, currentMs, allActive,
                   someData, out, historyVars>>

WaitForAll ==
    /\ pc = "wait_all"
    /\ active[i]
    /\ Loop("wait_all", "announce")
    /\ UNCHANGED <<streamVars, localVars, out, historyVars>>

\* (No broadcast: the averager wakes up at the first block.)
Announce ==
    /\ pc = "announce"
    /\ out' = [active |-> TRUE, recording |-> recording]
    /\ msFromStart' = 0
    /\ pc' = "first"
    /\ UNCHANGED <<streamVars, i, recording, streamMs, currentMs, allActive,
                   someData, base, close, timely>>
    /\ unshown' = [s \in Streams |-> 0]
    /\ slips' = [s \in Streams |-> 0]

\* The first millisecond of each stream.  The result -1 is not looked at.
First ==
    /\ pc = "first"
    /\ MayTake(i) /\ Take(i)
    /\ Loop("first", "choose")
    /\ UNCHANGED <<active, now, recordingNo, losses, recording, msFromStart,
                   currentMs, allActive, someData, out, base, slips, close, timely>>

Choose ==
    /\ pc = "choose"
    /\ currentMs' = getEarliestMs([s \in Streams |-> MsOf(streamMs[s])])
    /\ base' = Min(Range(streamMs))
    /\ close' = (\A s, t \in Streams :
                     2 * (streamMs[s] - streamMs[t]) < Modulus)
    /\ allActive' = TRUE
    /\ pc' = "emit"
    /\ UNCHANGED <<streamVars, i, recording, streamMs, msFromStart, someData, out,
                   unshown, slips, timely>>

\* A block of the streams that are at currentMs, the others zeroed out; it is
\* dropped if the output buffer has no space.  (Nothing of it is kept here:
\* the block is what Contributes says.  ProcessedSession has its two commits.)
Contributes(s) == MsOf(streamMs[s]) = currentMs

Emit ==
    /\ pc = "emit"
    /\ pc' = "update"
    /\ unshown' = [s \in Streams |-> IF Contributes(s) THEN 0 ELSE unshown[s]]
    /\ UNCHANGED <<streamVars, i, localVars, out, base, slips, close, timely>>

\* Mutant: all streams move on.
UpdateAll ==
    /\ pc = "update"
    /\ MayTake(i)
    /\ Take(i)
    /\ allActive' = (allActive /\ active[i])
    /\ Loop("update", "advance")
    /\ UNCHANGED <<active, now, recordingNo, losses, recording, msFromStart,
                   currentMs, someData, out, base, slips, close, timely>>

\* The streams that were at currentMs move on: "dont update streams which are
\* ahead".
Update ==
    /\ pc = "update"
    /\ IF Contributes(i)
       THEN /\ MayTake(i) /\ Take(i)
            /\ allActive' = (allActive /\ active[i])
            /\ slips' = IF active[i]
                        THEN [slips EXCEPT ![i] = @ + Missing(i) \div Modulus]
                        ELSE slips
       ELSE UNCHANGED <<streamMs, queue, unshown, allActive, slips>>
    /\ Loop("update", "advance")
    /\ UNCHANGED <<active, now, recordingNo, losses, recording, msFromStart,
                   currentMs, someData, out, base, close, timely>>

\* Mutant: the millisecond does not wrap.
AdvanceNoWrap ==
    /\ pc = "advance"
    /\ msFromStart' = msFromStart + 1
    /\ currentMs' = currentMs + 1
    /\ pc' = IF allActive THEN "emit" ELSE "finish"
    /\ UNCHANGED <<streamVars, i, recording, streamMs, allActive, someData, out,
                   historyVars>>

Advance ==
    /\ pc = "advance"
    /\ msFromStart' = msFromStart + 1
    /\ currentMs' = (currentMs + 1) % Modulus
    /\ pc' = IF allActive THEN "emit" ELSE "finish"
    /\ UNCHANGED <<streamVars, i, recording, streamMs, allActive, someData, out,
                   historyVars>>

Finish ==
    /\ pc = "finish"
    /\ out' = [out EXCEPT !.active = FALSE]
    /\ someData' = FALSE
    /\ pc' = "drain"
    /\ UNCHANGED <<streamVars, i, recording, streamMs, msFromStart, currentMs,
                   allActive, historyVars>>

\* Rounds over all streams until none was active in a whole round.
Drain ==
    /\ pc = "drain"
    /\ queue' = [queue EXCEPT ![i] = <<>>]
    /\ LET data == someData \/ active[i]
       IN  /\ Loop("drain", IF data THEN "drain" ELSE "wait_master")
           /\ someData' = (data /\ i < StreamCount)
    /\ UNCHANGED <<active, now, recordingNo, losses, recording, streamMs,
                   msFromStart, currentMs, allActive, out, historyVars>>

-----------------------------------------------------------------------------
(* The specification. *)

Init ==
    /\ active = [s \in Streams |-> FALSE]
    /\ queue = [s \in Streams |-> <<>>]
    /\ now = [s \in Streams |-> 0]
    /\ recordingNo = [s \in Streams |-> 0]
    /\ losses = 0
    /\ pc = "wait_master" /\ i = 1
    /\ recording = 0 /\ msFromStart = 0 /\ currentMs = 0
    /\ streamMs = [s \in Streams |-> 0]
    /\ allActive = TRUE /\ someData = FALSE
    /\ out = [active |-> FALSE, recording |-> 0]
    /\ base = 0 /\ unshown = [s \in Streams |-> 0]
    /\ slips = [s \in Streams |-> 0] /\ close = FALSE /\ timely = TRUE

StreamStep(s) == Start(s) \/ End(s) \/ Deliver(s) \/ Lose(s)

ProcessorStep ==
    \/ WaitForMaster \/ WaitForAll \/ Announce \/ First \/ Choose \/ Emit
    \/ Update \/ Advance \/ Finish \/ Drain

Next == ProcessorStep \/ \E s \in Streams : StreamStep(s)

Spec == Init /\ [][Next]_vars

\* The processor runs on when it can; its waits end because data and END are
\* broadcast.  Nothing makes a stream go on.
FairSpec == Spec /\ WF_vars(ProcessorStep)

-----------------------------------------------------------------------------
(* Properties. *)

\* The types of the streams and of the processor's locals.
TypeOK ==
    /\ active \in [Streams -> BOOLEAN]
    /\ queue \in [Streams -> Seq(Nat)]
    /\ now \in [Streams -> Nat]
    /\ recordingNo \in [Streams -> 0 .. Len(Starts)]
    /\ losses \in 0 .. MaxLosses
    /\ pc \in {"wait_master", "wait_all", "announce", "first", "choose",
               "emit", "update", "advance", "finish", "drain"}
    /\ i \in Streams
    /\ recording \in 0 .. Len(Starts)
    /\ streamMs \in [Streams -> Nat]
    /\ msFromStart \in Nat /\ currentMs \in 0 .. Modulus - 1
    /\ allActive \in BOOLEAN /\ someData \in BOOLEAN
    /\ out \in [active : BOOLEAN, recording : 0 .. Len(Starts)]
    /\ base \in Nat /\ unshown \in [Streams -> Nat]
    /\ slips \in [Streams -> Int] /\ close \in BOOLEAN /\ timely \in BOOLEAN

\* The streams in a block are of the true time that the block's counter says:
\* msFromStart milliseconds after the earliest first millisecond of any stream
\* ("overall counter of milliseconds for each recording",
\* client_behaviours.c:367).  That holds over any number of losses of any
\* length, except that a stream is a period late for each whole period that it
\* has lost at once, and for no other reason; it takes first milliseconds that
\* are less than half a period apart.  The streams are of the recording that
\* the output announces, unless one has started or ended out of time.
BlocksTrue ==
    pc = "emit" => \A s \in Streams : Contributes(s) =>
        /\ close => streamMs[s] = base + msFromStart + Modulus * slips[s]
        /\ timely => streamMs[s] >= Starts[out.recording]

\* Each millisecond that has been taken is in a block before the next one of
\* its stream is taken: none is passed over.
EveryMsIsShown == pc = "emit" => \A s \in Streams : unshown[s] <= 1

\* Once all streams have ended, the output is ended too, wherever the processor
\* was waiting, unless the next recording starts first.
OutputWindsDown ==
    (\A s \in Streams : ~active[s]) ~>
        (~out.active \/ \E s \in Streams : active[s])

=============================================================================
