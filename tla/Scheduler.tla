------------------------------ MODULE Scheduler ------------------------------
(***************************************************************************)
(* The main loop of data_transfer/server.c in time: it fetches the plan,   *)
(* looks for the next thing to do (getNextDbItem of db_transfer.c), sleeps *)
(* until then and does it.  What it does to a session is to set            *)
(* recordingInfo and recordingActive; BufferSession takes it from there.   *)
(*                                                                         *)
(* Time is discrete and passes only while the loop sleeps or talks to the  *)
(* web server.  Sleeps are not interrupted and end on time (sleep() may    *)
(* run late: that lateness is part of MaxDelay).  The plan is changed on   *)
(* the web server at any moment, one request at a time; that a fetch gets  *)
(* the plan as it is at some moment of the request, or fails, is what      *)
(* PlanSync is about.                                                      *)
(***************************************************************************)
EXTENDS PlanDatabase

CONSTANTS Lead,      \* the 10 s of getNextDbItem's query ...
          Horizon,   \* ... and its 300 s
          Nap,       \* the 60 s the loop sleeps when there is nothing to do
          MaxDelay,  \* the longest that a fetch takes
          Slack,     \* what planners leave, beyond what plan_to_db.php asks
                     \* for, between recordings and between rec and end
          RecTimes, EndTimes,  \* what planners may ask for
          Troubles,            \* what may happen: see TroublesAssumption
          MaxId, MaxTime       \* BOUNDS on rows ever inserted, and on time

ASSUME SchedulerAssumption ==
    /\ {Lead, Horizon, Nap, MaxDelay, Slack, MaxId, MaxTime} \subseteq Nat
    /\ RecTimes \subseteq Nat /\ EndTimes \subseteq Nat

\* A plan item is cancelled, the web server does not answer, the telescope's
\* table cannot be read, the process ends and is started again.
ASSUME TroublesAssumption ==
    Troubles \subseteq {"cancel", "fetch", "lookup", "crash"}

VARIABLES
    now,
    webPlan, lastId,    \* the web server's table
    plan,               \* the telescope's copy
    currentRecording, nextRecording,
    recordingInfo, recordingActive,   \* of the sessions, set under the lock
    pc, wake,           \* what the loop is doing, and until when
    upSince,            \* history: when the process was last started
    calm                \* history: no cancellation and no failed read so far

webVars == <<webPlan, lastId>>
loopVars == <<plan, currentRecording, nextRecording, pc, wake>>
sessionVars == <<recordingInfo, recordingActive>>
historyVars == <<upSince, calm>>
vars == <<now, webVars, loopVars, sessionVars, historyVars>>

emptyItem == [id |-> 0, obs |-> 0, rec |-> 0, end |-> 0]

Items == [id : 0 .. MaxId, obs : Int, rec : Nat, end : Nat]

Sleeps == {"nap", "observe", "record", "finish"}

-----------------------------------------------------------------------------
(* The web server. *)

PlanRecording(rec, end) ==
    /\ lastId < MaxId
    /\ MayPlan(webPlan, now, rec, end)
    /\ rec + Slack < end
    /\ Conflicts(webPlan, rec - AimTime - Slack, end + Slack) = {}
    /\ lastId' = lastId + 1
    /\ webPlan' = webPlan \cup {Row(lastId + 1, rec, end)}
    /\ UNCHANGED <<now, loopVars, sessionVars, historyVars>>

CancelRecording(r) ==
    /\ "cancel" \in Troubles
    /\ Begun(r, now) => lastId < MaxId
    /\ webPlan' = RemovePlan(webPlan, r, lastId + 1, now)
    /\ lastId' = IF Begun(r, now) THEN lastId + 1 ELSE lastId
    /\ calm' = FALSE
    /\ UNCHANGED <<now, loopVars, sessionVars, upSince>>

-----------------------------------------------------------------------------
(* The main loop. *)

\* The top of the loop, reached at the moment at.
StartFetch(at) ==
    /\ pc' = "fetch"
    /\ wake' = at + MaxDelay

Sleep(doing, until) ==
    /\ pc' = doing
    /\ wake' = until

\* checkAndUpdateDb
Fetch ==
    /\ pc = "fetch"
    /\ \/ plan' = webPlan /\ UNCHANGED calm
       \/ "fetch" \in Troubles /\ calm' = FALSE /\ UNCHANGED plan
    /\ pc' = "choose"
    /\ UNCHANGED <<now, webVars, currentRecording, nextRecording, wake,
                   sessionVars, upSince>>

\* Mutant: what is over is near, too.
NearOrPast(t) == t < now + Horizon

\* Mutant: the far future is near, too.
NearOrFar(t) == now + Lead < t

\* The WHERE of getNextDbItem: one of the three times is near.
Near(t) == now + Lead < t /\ t < now + Horizon

Due == {r \in plan : Near(r.obs) \/ Near(r.rec) \/ Near(r.end)}

\* Mutant: ORDER BY obs_start_time DESC.
NextItemsLast == {r \in Due : \A s \in Due : s.obs <= r.obs}

\* ORDER BY obs_start_time ASC LIMIT 1
NextItems == {r \in Due : \A s \in Due : r.obs <= s.obs}

\* The row of the current recording is gone.
Cancelled == currentRecording.id # 0 /\ currentRecording.id \notin Ids(plan)

\* getNextDbItem and getDbItemById return the id -1 also when the table
\* cannot be read.
LookupFails == "lookup" \in Troubles /\ calm' = FALSE

\* Mutant: the sessions get the item getDbItemById returned.
EndCancelledUnknown ==
    /\ pc = "choose"
    /\ Due = {} /\ Cancelled /\ UNCHANGED calm
    /\ currentRecording' = emptyItem
    /\ recordingInfo' = [id |-> -1, obs |-> now, rec |-> now, end |-> now]
    /\ recordingActive' = FALSE
    /\ StartFetch(now)
    /\ UNCHANGED <<now, webVars, plan, nextRecording, upSince>>

\* Nothing is due: end a recording that was cancelled (or whose row could not
\* be read), and go on at once ...
EndCancelled ==
    /\ pc = "choose"
    /\ \/ Due = {} /\ Cancelled /\ UNCHANGED calm
       \/ currentRecording.id # 0 /\ LookupFails
    /\ currentRecording' = emptyItem
    /\ recordingInfo' = emptyItem
    /\ recordingActive' = FALSE
    /\ StartFetch(now)
    /\ UNCHANGED <<now, webVars, plan, nextRecording, upSince>>

\* ... or sleep, also when a recording is due whose start was missed.
TakeNap ==
    /\ pc = "choose"
    /\ \/ Due = {} /\ ~Cancelled /\ UNCHANGED <<nextRecording, calm>>
       \/ LookupFails /\ UNCHANGED nextRecording
       \/ /\ nextRecording' \in NextItems
          /\ nextRecording'.obs <= now /\ now < nextRecording'.rec
          /\ currentRecording.id = 0
          /\ UNCHANGED calm
    /\ Sleep("nap", now + Nap)
    /\ UNCHANGED <<now, webVars, plan, currentRecording, sessionVars, upSince>>

\* Mutant: recording starts also if observing did not.
ChooseUnobserved ==
    /\ pc = "choose"
    /\ nextRecording' \in NextItems
    /\ LET r == nextRecording'
       IN \/ now < r.obs /\ Sleep("observe", r.obs)
          \/ r.obs <= now /\ now < r.rec /\ Sleep("record", r.rec)
          \/ r.obs <= now /\ r.rec <= now /\ Sleep("finish", r.end)
    /\ UNCHANGED <<now, webVars, plan, currentRecording, sessionVars,
                   historyVars>>

\* The next thing to do is to observe, to record or to finish.
Choose ==
    /\ pc = "choose"
    /\ nextRecording' \in NextItems
    /\ LET r == nextRecording'
       IN \/ now < r.obs /\ Sleep("observe", r.obs)
          \/ /\ r.obs <= now /\ now < r.rec
             /\ currentRecording.id # 0
             /\ Sleep("record", r.rec)
          \/ /\ r.obs <= now /\ r.rec <= now
             /\ Sleep("finish", r.end)
    /\ UNCHANGED <<now, webVars, plan, currentRecording, sessionVars,
                   historyVars>>

\* The sleep is over.
WakeUp(from) == pc = from /\ now = wake /\ StartFetch(now)

EndNap ==
    /\ WakeUp("nap")
    /\ UNCHANGED <<now, webVars, plan, currentRecording, nextRecording,
                   sessionVars, historyVars>>

Observe ==
    /\ WakeUp("observe")
    /\ currentRecording' = nextRecording
    /\ UNCHANGED <<now, webVars, plan, nextRecording, sessionVars, historyVars>>

Record ==
    /\ WakeUp("record")
    /\ recordingInfo' = currentRecording
    /\ recordingActive' = TRUE
    /\ UNCHANGED <<now, webVars, plan, currentRecording, nextRecording,
                   historyVars>>

Finish ==
    /\ WakeUp("finish")
    /\ currentRecording' = emptyItem
    /\ recordingInfo' = emptyItem
    /\ recordingActive' = FALSE
    /\ UNCHANGED <<now, webVars, plan, nextRecording, historyVars>>

-----------------------------------------------------------------------------
(* The process ends (exit() in any thread, a crash, a reboot) and is started *)
(* again.  Only the telescope's table outlives it.                           *)

\* What main() and circularBufferInit set up.  (recordingInfo is what malloc
\* left there; nothing reads it before the first flip.)
FreshState ==
    /\ currentRecording' = emptyItem /\ nextRecording' = emptyItem
    /\ recordingInfo' = emptyItem /\ recordingActive' = FALSE

\* Mutant: what was being observed is remembered.
CrashRemembers ==
    /\ "crash" \in Troubles
    /\ upSince = 0
    /\ pc # "down"
    /\ pc' = "down" /\ wake' = MaxTime
    /\ UNCHANGED <<now, webVars, plan, currentRecording, nextRecording,
                   sessionVars, historyVars>>

\* BOUND: once.
Crash ==
    /\ "crash" \in Troubles
    /\ upSince = 0
    /\ pc # "down"
    /\ pc' = "down" /\ wake' = MaxTime
    /\ FreshState
    /\ UNCHANGED <<now, webVars, plan, historyVars>>

Restart ==
    /\ pc = "down"
    /\ StartFetch(now)
    /\ upSince' = now
    /\ UNCHANGED <<now, webVars, plan, currentRecording, nextRecording,
                   sessionVars, calm>>

-----------------------------------------------------------------------------
(* The specification. *)

Init ==
    /\ now = 0
    /\ webPlan = {} /\ lastId = 0 /\ plan = {}
    /\ currentRecording = emptyItem /\ nextRecording = emptyItem
    /\ recordingInfo = emptyItem /\ recordingActive = FALSE
    /\ pc = "fetch" /\ wake = MaxDelay
    /\ upSince = 0 /\ calm = TRUE

\* The loop is never late: time waits for it.
Tick ==
    /\ now < MaxTime
    /\ now < wake
    /\ now' = now + 1
    /\ UNCHANGED <<webVars, loopVars, sessionVars, historyVars>>

Loop ==
    \/ Fetch \/ EndCancelled \/ TakeNap \/ Choose
    \/ EndNap \/ Observe \/ Record \/ Finish

Next ==
    \/ Tick
    \/ \E rec \in RecTimes, end \in EndTimes : PlanRecording(rec, end)
    \/ \E r \in webPlan : CancelRecording(r)
    \/ Loop
    \/ Crash \/ Restart

Spec == Init /\ [][Next]_vars

-----------------------------------------------------------------------------
(* Properties. *)

\* The types of the variables of main() and of what it tells the sessions.
TypeOK ==
    /\ now \in 0 .. MaxTime
    /\ webPlan \subseteq Items /\ plan \subseteq Items
    /\ lastId \in 0 .. MaxId
    /\ currentRecording \in Items /\ nextRecording \in Items
    /\ recordingInfo \in Items /\ recordingActive \in BOOLEAN
    /\ pc \in {"fetch", "choose", "down"} \cup Sleeps
    /\ wake \in Nat
    /\ upSince \in 0 .. MaxTime /\ calm \in BOOLEAN

\* No sleep is negative: sleep() takes an unsigned number of seconds and
\* would not come back.
SleepsForward == now <= wake

\* The sessions are never told to record nothing, nor that they record
\* something while they do not: the id of a START is that of a plan item,
\* even if the start of its observation was missed (server.c:166), also
\* because the server was down.
InfoMatchesFlag == recordingActive <=> recordingInfo.id # 0

\* Only what the plan asks for is recorded, and only when it asks for it
\* ("end recording - set flag", server.c:187), as long as nothing has been
\* cancelled and every answer has been read.
OnlyAsPlanned ==
    calm /\ recordingActive =>
        /\ recordingInfo \in webPlan
        /\ recordingInfo.rec <= now /\ now <= recordingInfo.end

\* Then what plan_to_db.php has accepted is also recorded, all the time from
\* rec to end, if the server runs since before the observation came near.
AllOfThePlan ==
    calm /\ pc # "down" =>
        \A r \in webPlan :
            upSince + MaxDelay + Lead < r.obs /\ r.rec < now /\ now < r.end =>
                recordingActive /\ recordingInfo = r

\* A server that comes back during an observation leaves it alone: what it
\* records it has begun to observe itself (server.c:166-170).
RestartSkips ==
    recordingActive => upSince <= recordingInfo.obs

=============================================================================
