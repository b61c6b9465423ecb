# A TLA+ model of the RT2 recording system

This directory specifies and verifies the software in `src/`: a server that
records the data of a radio telescope, a web server on which recordings are
planned, and a client that processes the recorded stream somewhere else.
`PROJECT.json` lists every run, mutant and theorem, and maps every definition to
the lines it models.

    tlc -config SessionSafety.cfg MCBufferSession     one run
    tlapm SessionProofs.tla                           one module of proofs

## 1. The system

### Components

**Ring buffer** (`data_transfer/CircularBuffer.c`). One writer, up to
`READER_MAX_CAP` readers. State: the bytes, the head offset, one tail offset per
reader slot, the number of slots taken, and the flag `recordingActive`. It has no
lock of its own. Right if every reader gets every committed byte once and in
order, and the writer never runs into bytes that are still to be read.

**Server, session threads** (`server_producer.c`, `file_consumer.c`,
`server_network_consumer.c`). Each device has a `BufferSession`: a ring buffer, a
mutex, a condition variable and the plan item that is being recorded. A producer
thread copies blocks from the device (FTDI, or dummy data) into the buffer while a
recording is active; a file consumer writes them into one file per recording; a
network consumer sends them to the one client that may be connected, as
`START DATA* END`. *Hard:* copies into and out of the buffer run without the
mutex; the flag is polled, and everything else read in a later critical section;
connections break at any send; the scheduler flips the flag without a broadcast.

**Server, scheduler** (`server.c` main loop, `getNextDbItem` and `getDbItemById`
of `db_transfer.c`). State: the current item; the local copy of the plan. Each
iteration fetches the plan, picks the next item that starts observing, starts
recording or ends soon, sleeps until then, and acts. *Hard:* it handles one item
at a time, cannot be interrupted, and does not look at times less than 10 s ahead.

**Plan database and its replica** (`web_server/plan_to_db.php`,
`delete_plan.php`, `get_database.php`, the two schemas, `checkAndUpdateDb` of
`db_transfer.c`). State: the table `plan` and a version that triggers count up;
on the telescope a copy of both. *Hard:* concurrent requests, a version and rows
that are read by two statements, requests that fail.

**Client, network producer** (`client_behaviours.c:53-214`). The same ring buffer and
session structure as on the server. A producer receives `START DATA* END` and writes the
bytes into its session; it flips the flag itself, looks the id up in the client's copy of
the plan, and connects again when the connection has broken. *Hard:* what a broken
connection leaves behind. The client's **file and network consumers** are the server's loops.

**Client, data processor** (`client_behaviours.c:360-529, 1056-1212`). Cuts four streams of
bytes into milliseconds (`getValidMillisecond`) and merges them by the millisecond counter in
their headers into one output session. *Hard:* streams begin anywhere in a millisecond and
have gaps; bytes may look like headers; the search peeks into the buffer without the mutex;
the counter wraps at 1000; streams start, end and lose data at different times.

**Client, data averager and image archiver** (`client_behaviours.c:772-1004`). Both watch the
processor's output: the averager takes whole blocks and condenses `ratio` of them into one;
the archiver polls the flag and keeps an image of each start, hour and end. *Hard:* a block
is written in two commits and read in up to two pieces; recordings end in between.

**Visibility and the sun** (`web_server/gen_obs_json.py`, `process.php`,
`daily_sun_plan.sh`, `script.js`). Windows in which a target can be observed on a day, computed
once per day and target and kept in a table; a daily script plans the first window of the
sun, a user any part of any window. *Hard:* requests side by side that find nothing in the
table; windows over midnight.

**Not part of the verified core**: the status report (`writeBufferStatusToFile`
reads under the mutex and changes nothing), the configurations and `client.c` (read once,
then start one thread per function), the other web pages (they display the tables), the
viewers and test tools, `client_producer.c` (not built), `plan_sun.py` (an older planner for
columns that the table no longer has), and cJSON (vendored).

### How they interact

    gen_obs_json.py --> process.php <--> table visibility
                            |  daily_sun_plan.sh, script.js
                            v
    plan_to_db.php, delete_plan.php --> table plan (web server)
                                            |  checkAndUpdateDb, get_database.php
                                            v
                                        table plan (telescope)
                                            |  getNextDbItem
                                            v
     device --> producer            main loop of server.c
                   |                        |  recordingInfo, recordingActive
                   v                        v
                 [ ring buffer of the BufferSession ] --> file consumer --> file
                                            |
                                            +--> network consumer
                                                        |  START DATA* END
     client:                                            v
                 [ session ]  <------------  network producer      (one per stream)
                     |
                     +--> getValidMillisecond, dataProcessorThread --> [ session ]
                                                                           |
                     archiver <--------------------------------------------+
                     [ session ] <-- dataAveragerThread <------------------+
                     |
                     +--> file and network consumers

Everything inside a session is shared memory under `buffer_lock`, except the two
copies. The tables are reached through SQLite, and the two machines talk over
HTTP. The client's sessions are fed by its connection, or by the thread before them in
the pipeline, instead of a scheduler.

The hazards each part is exposed to are listed in `PROJECT.json`, with their
lines and the properties that cover them.

## 2. The modules

| module | what it is |
|---|---|
| `CircularBuffer` | the functions of `CircularBuffer.c` as operators on a record; no state of its own, so that several buffers can be modelled side by side |
| `BroadcastQueue` | what the buffer promises: a bounded FIFO queue per reader, a block goes to all queues or to none |
| `BufferSession` | one session with all its threads; implements `BroadcastQueue` |
| `MCBufferSession` | values for TLC |
| `PlanDatabase` | the table `plan` and what the PHP files do to it, as operators |
| `PlanSync` | planners, cancellations and the telescope's copy |
| `Scheduler` | the main loop of `server.c` in time, over the same table |
| `ClientSession` | a session of the client, fed over TCP by the sending half of the server; extends `BufferSession` |
| `MsSearch` | `getValidMillisecond` byte by byte, over a `CircularBuffer` |
| `DataProcessor` | the merge of the streams, millisecond by millisecond |
| `ProcessedSession` | the processor's output, the averager and the archiver, over a `CircularBuffer` |
| `Visibility` | windows, their cache and what is planned from them, over `PlanDatabase` |
| `MCClientSession`, `MCDataProcessor`, `MCProcessedSession`, `MCVisibility` | values for TLC |
| `CircularBufferProofs` | lemmas about the operators of the buffer |
| `SessionProofs` | theorems about `BufferSession` and `ClientSession`, which have the buffer and the consumers in common: how many bytes are where, and which; the refinement of `BroadcastQueue`; what is on its way between server and client |
| `SchedulerProofs`, `PlanSyncProofs`, `MsSearchProofs`, `DataProcessorProofs`, `ProcessedSessionProofs`, `VisibilityProofs` | theorems about the module in their name |

### CircularBuffer and BufferSession

A C function that changes the buffer is an operator from a buffer to a buffer
(`MemWrite`, `ConfirmWrite`, `ConfirmRead`); one that measures it returns a number
(`WriterSpace`, `AvailableData`, `ReadData`). Offsets, the modulus, the guard slot
and the two-part `memcpy` are those of the code. A byte is the recording it was
acquired for and its place in the producer's block: enough to tell apart every byte
whose loss, repetition or misplacement the properties are about.

In `BufferSession` `pc` says where each thread is in its loop, and the locals of the
consumers have the names of the C variables. `locked` is the mutex word, `holders`
the threads between their lock and their unlock, `waiting` those in
`pthread_cond_wait`. A critical section is two steps, `Acquire` and one action up to
the unlock. The unlocked copies are steps of their own: a thread that is at
`write`, `copy` or `drain_copy` is copying. (That the critical section is one step
is sound because nobody else changes shared data while the mutex is held. After a
failed send in the drain loop the mutex does not work any more; of such behaviours
only `MutualExclusion` and `DataFollowsStart` are claimed, which do not depend on
shared data.) The file and the network consumer run the same loop with different
outputs: `Poll`, `Data`, `Confirm`, `Drain` and `DrainConfirm` stand for both.

`out[c]` is what the outside sees of a consumer: the recording of the open file, or
the id in the START that was sent. The record flag of a plan item is the set
`Recorded`. `fopen` failing ends the process, and so ends the behaviour. Spurious
wake-ups are left out: every wait is in a loop that tests its condition again, so one
is a `Data` step that waits again. A send that fails is a nondeterministic choice when
`"send"` (or, in the drain loop, `"send_drain"`) is in `Faults`, a device error one
when `"ftdi"` is. The scheduler is here only two actions: `Schedule` decides to start or
end at any moment, `Flip` does what the loop does under the mutex.

Threads start where those of the code do: the producer by opening its device (`OpenDevice`), the
network consumer by reading its port in a critical section (`ReadPort`) and setting up its socket
(`Listen`). An FTDI device that is not there (`"ftdi"`) and a port that is taken (`"bind"`) stop their
thread for good. What ends the process at start-up (no configuration, no memory) ends the behaviour.

`SlowFlips` is the one timing assumption. It says that a consumer has looked at the flag
before it flips again, and that a start does not follow a start. File consumers poll
every 10 ms and clients at the latest after 5 s, planned flips are more than 10 s apart,
and ten minutes of aiming lie between an end and the next start, which is the time a drain
has. The properties that speak of files and of liveness need it; SessionSafety has it too,
to keep two consumers and two lengths of blocks within reach of TLC. SessionReconnect
leaves flips free, and so do the theorems about what SessionSafety and SessionReconnect check: all
of that is proved without the assumption. Only `OneForeignBlockAtMost` and `OneRecordingInEach` name it.

### PlanDatabase, PlanSync, Scheduler

The three share the table. A row is its key and its three times; the name of the object
and the record flag are left out because no decision about the plan looks at them.
`PlanSync` has one action per transaction: the check and the INSERT of `plan_to_db.php`
are two, `delete_plan.php` is one (it is an explicit transaction that starts with a read,
so SQLite lets it commit only if nobody wrote in between), the two statements of
`get_database.php` are two, and `update_database` is one. `LoseAnswer` can end a request at
any of its stages.

In `Scheduler` a loop iteration is `Fetch`, then one of `EndCancelled`, `TakeNap` and
`Choose`, then the end of the sleep (`EndNap`, `Observe`, `Record`, `Finish`), as in the
code. Time is discrete and passes during sleeps and fetches only; a sleep ends on time,
and a fetch takes at most `MaxDelay`. The replica is replaced by the web server's table
at some moment of the fetch, or (`FetchFails`) stays: this is what `PlanSync` promises
(`VersionTells`, `PlanArrives`), without its steps. A lookup in the local file that fails
(`LookupFails`) looks to the loop like an item that is not there. `Crash` is the process ending
at any point of the loop (`file_consumer.c:80` is one way), `Restart` its start with no current
item. The history variable `calm` says that nothing has been cancelled and no request or lookup
has failed: what the plan promises its planners is stated for such behaviours.

### ClientSession

It extends `BufferSession`: the buffer, the mutex and the consumers are those of the server,
since the functions are the same. `Main` has no part in it. `Connect`, `LoseConnection`,
`Receive`, `ClientFlip`, `ReceiveBytes`, `ReceiveNothing`, `ClientProduce` and `ClientCommit` are
the pieces of `networkProducerThread` between its locks and its receives. The connection is a
queue of headers and of the bytes behind a DATA header; `Break` cuts it after any element, and
afterwards `recv` returns 0 (`"closed"`) or first -1 (`"reset"`). The server's side is what
`server_network_consumer.c` may send (`BufferSession` has how it comes to do so). `LookUp` is
`getDbItemById`: an id that is not in the client's plan becomes -1 (`Unknown`, which therefore counts as a recording).
A member of `Recordings` is a START with what its lookup finds, so a lookup that fails once, or a change of the
client's plan, is a START that is not in `Known` among others that are.

### MsSearch and DataProcessor

`MsSearch` is one stream on the level of bytes: a byte is its place in the stream of the device,
so that its millisecond and its place in it are arithmetic, and a byte "looks like" a header if
it is one or is in `LookAlikes`. Gaps occur before the client (`Gap`) and at its full buffer
(`Receive`). Each step of `getValidMillisecond` between two changes of the buffer is an action;
`Scan` and the copies run without the mutex while `Producing`. Chunks may be shorter than a millisecond (the server's drain
loop sends at most 1000 bytes at a time, `server_network_consumer.c:202`, and an FTDI read may be short), so several may be
missing from one. The processor drains the stream when it has ended or when another one has (`UseMillisecond`), so also
while it is active.

`DataProcessor` is all streams on the level of milliseconds, which it knows by their true time while
the code knows them modulo `Modulus`. It relies on `MsSearch` for one thing, that milliseconds
come in order and none twice (`MillisecondsInOrder`). `getEarliestMs` is an operator;
`BlocksTrue` holds it against its meaning, the smallest true time, in every state in which it is
used. Streams start, lose milliseconds and end whenever they like. History variables say what of this the
processor cannot know: `slips` counts the whole periods that a stream has lost at once, `close` says whether the first
milliseconds of the streams were less than half a period apart, and `timely` whether every recording began and ended
outside the few steps between the end of the one before and the first milliseconds.

### ProcessedSession

The writer is the end of `dataProcessorThread` with its two commits, the averager the whole of
`dataAveragerThread` with its split reads. A block is its counter and some samples, an item its
recording, millisecond and place. The sum is kept as the sequence of blocks it is made of. The output
session is its flag and item; an average that finds no space there is dropped, which changes nothing
here. The archiver is one action, `Poll`; an image is what it was kept for.

### Visibility

A request to `process.php` is a process with one action per SELECT (`LookUp`) and per INSERT
(`Store`), and one for the program in between (`Compute`), which may fail or not know a target.
`OutWindows` is the loop of `gen_obs_json.py` and its merge over midnight, over a day of `Day`
minutes; which minutes are visible is an input (`Skies`). `PlanSun` is the script, `PlanWindow` what
the page does with the sliders, and `PlanNothing` the slider from 0:00 to 0:00 that it offers for a target without
windows (`script.js:78`): a row of no length, for which the antenna would aim. The windows of a sky, the rows of a SELECT and the rows to be stored are
sorted by `InOrder`. `plan_to_db.php` is one step here, since `PlanSync` has its two.

## 3. The runs

Runs that pass:

| run | what it shows |
|---|---|
| SessionSafety | types; the mutex works when connections break outside the drain loop; the two copies never overlap; a consumer copies only bytes inside the buffer that it has not confirmed; and `BufferSession` implements `BroadcastQueue`: no byte is lost, repeated, reordered or overwritten between commit and confirmation, with two readers at different places |
| SessionReconnect | each connection's DATA and END come after a START of its own, wherever the one before broke, with a client that comes back on a new slot; the device may be absent or fail, and the port be taken |
| SessionLiveness | a file takes over at most one producer block of the recording before; a file consumer keeps taking data while a recording lasts; no thread sleeps through its end although the scheduler does not broadcast; each recording that is to be kept gets its file |
| PlanSync | an equal version stands for an equal plan in spite of the two reads; one planner at a time never overlaps; every change of the plan reaches the telescope although requests fail |
| SchedulerPlan | whatever is cancelled, fails or crashes, no sleep is negative, the sessions never get the flag without an item, and a server that comes back leaves a begun observation alone; when nothing goes wrong and planners leave a little room, exactly the plan is recorded |
| ClientLink | data is written only while the session announces the recording under which it was sent; unless a connection broke inside a recording, what the client sends on is of one recording; after a break between two packets the client connects again; and an END reaches every consumer |
| MsSearch | the search peeks only at committed, unconfirmed bytes; what it returns has every byte in its place, wherever the stream begins and whatever is lost, with three exceptions (see the weaknesses below); milliseconds come in order, none twice, of this recording, and all of them when nothing is lost; it throws away eight milliseconds only over a gap |
| DataProcessor | what is merged into a block is of the true time its counter says, across the wrap and over losses of any length, a stream being late by just the whole periods it has lost, and of the recording announced; no millisecond is passed over; when the streams end, the output ends |
| ProcessedSession | the averager never reads what is being written; averages are over whole, aligned blocks of one recording in order; images of start and end come in pairs of one recording; the end reaches the next session |
| Visibility | requests get true windows with the day's first one in front, also while another request is filling the cache; the cache ends up whole; what is planned is visible from its first to its last minute |

Runs that end in a counterexample, each a disagreement of the code with what it says of
itself (`PROJECT.json`, "findings", quotes the lines):

| run | what happens |
|---|---|
| DepartedClient | the slot of a client that has gone is never given up, and the file consumer starves |
| ClientSpin | a connection that breaks between a DATA header and the end of its bytes keeps the client in that loop for ever |

The passing runs are the other sides of these: SessionLiveness has no client that could go, and
`LinkRecoversBetweenPackets` leaves out the connections that break inside a packet.

Other weaknesses have no run of their own. The properties leave them out, by an assumption that can
be lifted to see each of them:

* A send that fails in the drain loop makes the network consumer unlock a mutex it does not hold
  (`server_network_consumer.c:216, 242`; the client has the same code). SessionSafety with
  `"send_drain"` in `Faults` finds `MutualExclusion` violated.
* Two planners side by side get the same slot (`plan_to_db.php:35-85` has no transaction). PlanSync with
  `Planners = {p, q}` finds `NoOverlap` violated.
* Of two recordings as close as allowed the second is missed, because items less than 10 s ahead are
  not looked at. SchedulerPlan with `Slack = 0` and 30 for 31 in
  `RecTimes` finds `AllOfThePlan` violated.
* A cancelled recording goes on while another item is due (`server.c:122`), and a failed lookup ends
  a recording as if it had been cancelled; hence `calm` in `OnlyAsPlanned` and `AllOfThePlan`.
* A port that is taken when the server starts leaves the session without a network consumer until the
  process ends (`server_network_consumer.c:77`); no property promises a client anything then.
* After a device error nobody wakes a consumer that waits: `RecordingWindsDown` does not hold with
  `"ftdi"` in `Faults` (and `Ftdi = TRUE`, `CHECK_DEADLOCK FALSE`).
* A START can carry the id 0 if the recording ends between the poll of the flag and the START.
* A recording of 10 s or less is not seen to end, because the query looks only at times further ahead;
  `OnlyAsPlanned` is checked with items that are longer.
* A connection that breaks inside a recording leaves the client's flag set, and what follows goes
  where the recording before went: hence `cut` in `OneRecordingEach`.
* A stream that ends before the processor has its first millisecond leaves an old one in its place
  (`client_behaviours.c:422` does not look at -1), and one that starts early is drained with the recording before:
  hence `timely` in `BlocksTrue`.
* A stream whose first millisecond is half a period (500 ms) behind may be taken for the earliest: hence `close`.
* A stream that has lost a whole period at once (1000 ms; a reconnection takes 5 s, `client_behaviours.c:23`) is merged
  with the others again as soon as the counters agree, a period late, for the rest of the recording. `BlocksTrue`
  says so (`slips`): it is late by the whole periods it has lost and by nothing else.
* The search compares just two headers, and `SamplesInPlace` names the three ways in which it is misled: two bytes
  exactly a millisecond apart that both look like a header (dummy data may have them everywhere); one that does where bytes
  are missing as well; and bytes missing at two places of one millisecond, which takes a chunk that is shorter. Even
  then milliseconds come in order and none twice, which is all that `DataProcessor` relies on.
* A target that cannot be seen can be planned with a length of zero (`script.js:78`); `PlannedIsVisible` speaks of the
  minutes of a recording, and this one has none.
* An INSERT into the cache that fails leaves a part of a target's windows there for good. Visibility with
  `"insert"` in `Faults` finds `CacheWhole` violated.
* A target that comes into view at 24:00 sharp gets a window that begins at "00:00" and changes places
  between computation and cache; `SkyAssumption` leaves it out.
* The windows are in UTC and the script reads them in the server's local time; there are no time zones here.

Every property of a passing run has a mutant: a definition changed the way a plausible
bug would change it, after which TLC finds the property violated. Their bodies stand next
to the definitions they change, marked `Mutant:`.

### Bounds, and why they are enough

* `DataLen = 5`, blocks of 2 bytes, `ReadSize = 3`, `DrainChunk = 2`. Head and tails wrap
  at every offset, since 5 is prime to 2; the buffer can be full (two blocks fill all but the
  guard slot); blocks are split by the end of the buffer, pieces are cut by it; a drain takes
  several chunks. `DataLen - 1 >= ReadSize - 1 + 2`, without which reader and writer would
  wait for each other, as they would in the code (46,080,000 against 15,000 and about 3,000).
  DepartedClient uses a buffer of 3, as the queue of the departed client must fill up. ClientLink and
  ClientSpin use a buffer of 2 with pieces of one byte: their subject is the order of packets, breaks
  and flips, and a full buffer (one byte) drops the next packet.
* One file consumer, one network consumer and `ReaderMaxCap` 2 or 3: the code has one of
  each, and a third slot gives a client the chance to come back. In the code the limit is 128,
  and a registration past it writes outside the array; the model stops accepting there.
* One or two recordings: the second is what may go wrong after the first. The scheduler may
  flip for ever, only the ids are few. Recording 2 is one that is not to be kept, so that a
  file follows on none and none on a file.
* Blocks of 2 bytes, and in SessionSafety also of 0: `ftdi_read_data` may return no data.
* `MaxId` and `MaxTime` bound plan rows and time in `PlanSync` and `Scheduler`. The time
  constants are scaled: `AimTime` 8, `PlanAhead` 6, `Lead` 1, `Horizon` 6, `Nap` 2, `MaxDelay`
  1 for 600, 300, 10, 300, 60 s and a request. What counts is kept: `AimTime > Horizon`,
  `Horizon > Nap + MaxDelay + Lead` (no time gets from too far to too near during a nap), and
  `PlanAhead > Nap + 2 MaxDelay + Lead` (a new item is seen before its observation starts).
  The times planners may ask for are chosen around the points where intervals just touch, just
  fit, and just do not. A crash happens at any time; later ones are like the first.
* ClientLink: two elements in flight, so that a break loses none, one or both; ids 1 (known), 2
  (unknown) and -1. A third recording would be like the first.
* MsSearch: milliseconds of 3 bytes (two of header, one sample) in a ring of 11, a window of 3 and a
  scan of 1 for 10 and 8 ms; chunks of 2 and 4, shorter and longer than a millisecond, so that commits end anywhere in
  one and milliseconds are cut by the end of the ring at every place; two gaps of up to a millisecond, which may be in the same
  one; three bytes in the middle of a millisecond look like headers, two of them exactly a millisecond apart. `MaxBytes` is
  more than twice the ring, and eight milliseconds.
* DataProcessor: two streams for four, a period of 5 for 1000, starts up to one apart, and one loss, of less than
  a period or of more than one (`Losses`); the first recording starts just before the wrap, and the second
  shows what the first leaves behind. (With three streams and one recording the properties hold as well; the theorems
  are about any number of both.)
* ProcessedSession: blocks of 3 items in a ring of 8: two fit, the third is dropped, and blocks
  are cut by the end of the ring at every place; averages of 3, so that recordings end inside one.
* Visibility: days of 5 minutes with every sky of the sun and every sky of a pulsar that
  `SkyAssumption` admits, so up to three windows, and the merged one; two requests; one row planned,
  since what keeps rows apart is the subject of `PlanSync`.

Deadlock is checked except where a bound makes the model stop: at `MaxTime` in SchedulerPlan, after the
last recording in DataProcessor and ProcessedSession.

### Fairness, and why the code justifies it

`BufferSession`: a thread that holds the mutex, copies or sends runs on (weak fairness of the
producer's steps, unless the device has failed, of a consumer's steps, unless it waits for a
client, and of `Flip`; for sending this says that the client keeps reading). `Acquire` has
strong fairness, thread by thread: a POSIX mutex promises no order, but both producers are
outside it for most of an iteration (`usleep(1100)`, `ftdi_read_data`), so it is free again and
again. Nothing is assumed that makes the scheduler decide, a client connect, or a device or a
send fail. SessionLiveness has a file consumer only; the network consumer runs the same loop, and
with both the liveness check takes many times as long. `PlanSync`: the main
loop asks again and again, and a request may fail but not every time (strong fairness of its
stages). No planner is obliged to do anything.

`ClientSession`: as `BufferSession`, and the producer goes on connecting and receiving, so the server
is assumed to accept connections. `DataProcessor`, `ProcessedSession`: the processor, the averager and the
archiver go on when they can (weak fairness of each thread as a whole; their waits end because
data and END are broadcast). Nothing makes a stream or a recording go on.

## 4. The proofs

TLAPS proves the following for every value of the constants that the named assumptions admit.

**CircularBufferProofs** proves about the operators of the ring buffer what their callers rely
on: `AvailableData` and `ReaderSpace` add up to `DataLen - 1`; the writer's space fits beside the
unread bytes of every reader; each operator changes the amounts as its name says; and a block that
fits has no offset in common with a piece that is available (`CopiesAreDisjoint`). The theory of
`%` that TLAPS lacks is in three lemmas at its start.

**SessionProofs** proves of `BufferSession` `TypeCorrect`, `NoTornReads` and `PiecesAlwaysUnread`. The properties
are not inductive: that two unlocked copies do not overlap depends on what each thread saw under the
mutex some steps before. The invariant `IInv` says that what they saw still holds: the block being
written fits beside the unread bytes of every registered reader (`BlockFits`: readers, registrations
and alignments only make room), a piece being copied is unread and contiguous (`PiecesFit`: the
producer only adds), and each slot has one owner (`SlotsOwned`: otherwise another thread could confirm
the piece away). None of this needs the mutex to exclude anybody, only the critical sections to be
atomic. `MutexHolds` proves `MutualExclusion` by itself, under the assumption that no send fails in
the drain loop; the failing send is the one way to break it. `DataAlwaysFollowsStart` needs neither: what a
consumer has sent and the two flags in its locals change together, at whatever point the
connection breaks (`LocalInv`).

Its second part goes from the number of bytes to the bytes. `SessionIsQueues` proves that
`BufferSession` implements `BroadcastQueue`, where the queue of a reader is the bytes between its tail
and the head. To `IInv` it adds that the block which has been copied in and not yet committed still lies
where it was copied (`BlockInPlace`). Then every step is shown to be one of the queues or none: `Commit` is a
broadcast, which `BlockFits` shows not to be over the capacity; a `Register` adds an empty queue; `Confirm` and
`DrainConfirm` take from the front what the consumer has copied; `Data` and `Poll` may align a reader, which takes the whole
of its queue; all others leave bytes and offsets alone. `OneForeignBlockAtMost` proves
`AtMostOneForeignBlock` under `SlowFlips` and without failing sends in the drain loop. Its
invariant says of each consumer what may be in its queue at each point of its loop (`QueueOf`): bytes of its
own recording, behind at most one block that was in flight when the one before ended.

Of `ClientSession` the module proves `SentUnderItsStart`, with any number of elements in flight and
connections that break anywhere, inside packets, too. What is open at the producer and what the
server has opened are as far apart as the queue is long, so `LinkInv` carries the open
recording along the queue, element by element, from the one to the other.

The steps of the consumers are those of the server, and the lemmas about them do not speak of a
producer. So what is left for `ClientIsQueues`, `ClientNoTornReads`, `ClientPiecesUnread`, `ClientMutexHolds` and
`ClientDataFollowsStart` is that the client's producer keeps the same invariants (`SInv`): it writes what fits, though
`recv` may have returned -1, and unlocks what it has locked. `ClientIsQueues` has blocks of any length that fits for
those of `WriteSizes`. `OneRecordingInEach` proves `OneRecordingEach` under
`SlowFlips` and without failing sends in the drain loop. Its invariant `KInv` has `ClientQueueOf` in place of `QueueOf`; there is
no foreign block, since a producer that flips has none in flight. That a flip finds all consumers ready rests on `LinkInv`: while
nothing has been cut off, each flip changes the flag, and so `SlowFlips` speaks of it.

**SchedulerProofs** proves `SchedulerTyped`, `NoNegativeSleep`, `FlagHasItem` and `RestartLeavesAlone` for
every plan, every cancellation, every lost request, failed lookup and crash, and every choice of the
timing constants. `IInv` adds that no row
has id 0, which is what makes id 0 mean "none", and that the loop sleeps towards a recording only with
an item in hand. That no sleep is negative comes from the query: an item whose first two times are over is
returned only for an end that lies ahead. `RecordsOnlyThePlan` and `RecordsAllOfThePlan` prove `OnlyAsPlanned`
and `AllOfThePlan` if the constants are `Timely`, six inequalities that say that the loop comes back
in time. The constants of `server.c` satisfy them if a fetch takes up to 30 s and planners leave 50 s, and those of
SchedulerPlan do as well. The invariants say for every place of the loop how far off the
next thing to do is: for the current recording `PInv`, for any row `NoneMissed`.

**PlanSyncProofs** proves `VersionStandsForRows`, for any number of planners and any failures:
the version that is read first is never ahead of the rows that are read later (`VersionInv`), which is why the two
SELECTs of `get_database.php` need no transaction. `SlotsDisjoint` proves `NoOverlap` for one planner at a time: what
a check has found free stays free until the INSERT (`SlotInv`); with two it does not, see section 3.

**MsSearchProofs** proves every property of MsSearch. For types and
`SearchPeeksSafely` the amounts suffice (`AInv`): what a phase of the search has found to be unread still
is, because only the search confirms. The others are about content (`CInv`): the bytes in the
buffer are some of the device's in their order (`Rising`), with gaps anywhere; `Course` says that the search moves
forward, behind the last millisecond taken, and at once while nothing is lost; and `Taken` carries the bytes of one
millisecond from the buffer through the two parts of the copy. That a window without a gap has a header where the scan
looks is then arithmetic (`SearchFlushesOnlyGaps`), and so is `SearchKeepsPlaces`: between two true headers a
millisecond apart lie either just the bytes of a millisecond (`InPlaceWhole`), or some that are missing at one place, which
would leave fewer than a millisecond has (`InPlaceBent`), or at two (`TwoSeams`), which is an exception the property names. `SearchAssumption`
asks only for a window of two milliseconds more than the scan, as 10 and 8 are; chunks, losses and look-alikes are
arbitrary.

**DataProcessorProofs** proves every safety property of DataProcessor. `ProcessorShowsAll` needs no more
than that a block takes its streams before they move on (`Shown`); it holds whatever `getEarliestMs` returns. For
`ProcessorMergesTrue` the code's comparison modulo the period must stand for a comparison of times. Nothing is assumed
of the streams, which may start, lose and end as they like. A stream is `Due` in so many milliseconds after the block,
not counting its `slips`, and `OnTime` says that this is always less than a period: the next millisecond of a stream that
was in the block is at least one later, and what is more than a period slips (`DueNext`). So equal remainders mean that it is due
now (`ContributesIfDue`), however many losses there are, and however long. That it is so in the first block is up to `getEarliestMs`:
`EarliestFollows` proves that on a circle the largest gap is the one before the earliest, if
all lie within less than half a period of it, which is what `close` says. `RecordingInv` is the other half: while every
start and end is `timely`, what has been taken, what waits and what will come are all of the processor's recording.

**ProcessedSessionProofs** proves `ImagesPaired`: the images of the archiver come in pairs of one
recording. It is not inductive: an "end" is kept with what the archiver copied at an earlier poll. `IInv`
adds that the archiver is inside a recording exactly when the last image is not an "end", that the image, its
copy and the session's item then agree (`Archived`), and that the ring's operations leave the flag
alone. It rests on the modelled assumption that the next recording is announced only after the archiver has seen
the end of the one before. `ProcessedTyped` and `ProcessedNotTorn` follow from amounts (`AInv`), which are not always whole
blocks: between the two commits there are two items more. For `ProcessedAverages` the invariant `CInv` lists the
milliseconds of all blocks that are in the running sum or in the session, and says which item of which block
every unread item is, at each point between the two commits of a write and the two parts of a read.

**VisibilityProofs** proves every property of Visibility. `InOrderSorts` says that `InOrder` goes through a
finite set once and in order: an element's place is the number of those before it. From it follow the order of the
windows of a sky, of the rows of a SELECT and of the rows that `Compute` leaves to be stored. `OutWindowsRight` says that
the windows of a day are its visible minutes, also where the first and the last are merged: the first then begins the
day, the last ends it, and they are apart. `IInv` says that nothing but such windows is cached, on its way or answered,
which is enough for `PlansAreVisible`, whatever fails. `AnswersAreTrue` and `CacheIsWhole` assume that no INSERT fails. That a
cached target is there from its first window on is not inductive by itself, since an answer may be given while another
request has stored a part: `WholeInv` adds that each request stores the windows of a target from the first one
on, all that are not there yet (`WaitingInv`), and that what is missing of a cached target some request still has to
store (`CachedInv`). That the sun is down around midnight (`SkyAssumption`) is what makes its first window
end after its start, as the script takes for granted.

What stays with TLC is liveness (`DataFlows`, `RecordingWindsDown`, `RecordingIsTakenUp`, `PlanArrives`,
`LinkRecoversBetweenPackets`, `OutputWindsDown`, `AveragesWindDown`), whose proofs would need ENABLED. Every invariant
and every other action property of the runs is stated by a theorem.

## 5. The plan

In this order, the most important behaviour first:

1. *(done)* `CircularBuffer`, `BroadcastQueue`, `BufferSession`: the path of the data.
2. *(done)* `PlanDatabase`, `PlanSync`, `Scheduler`: the path of the plan.
3. *(done)* `ClientSession`: server and client over a connection that breaks.
4. *(done)* `MsSearch` and `DataProcessor`: from bytes to milliseconds to blocks of all streams.
5. *(done)* `ProcessedSession`: averager and archiver behind the processor.
6. *(done)* `Visibility`: windows, their cache, and the plan made from them.
7. *(done)* a restart of the server and failing lookups in `Scheduler`.
8. *(done)* Proofs: every safety property of the runs, for every value of the constants, and that a session
   implements `BroadcastQueue`.

## 6. Not modelled, and why

* The configurations and `client.c`: read once before any thread runs. The sizes they yield are constants
  here; that they fit into the `int` they pass through (`client.c:200`) is not checked.
* The arithmetic on samples (gain, order of halves, averages): straight-line code without state.
* The status report, images as files, and everything the web pages only
  display: they change nothing that a property speaks of.
* Reader slots past `READER_MAX_CAP`: the registration writes outside the array, and what follows is
  undefined; the models stop accepting there.
* The sizes of SQLite's and TCP's own buffers, descriptors that leak, and time zones.
* cJSON, the viewers, the test tools, `client_producer.c` and `plan_sun.py`: not part of the running system.
