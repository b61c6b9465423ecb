--------------------------- MODULE SchedulerProofs ---------------------------
(***************************************************************************)
(* What the scheduler keeps.                                               *)
(*                                                                         *)
(* Whatever the plan, the times and the failures of the network: its       *)
(* types, that no sleep is negative, and that the flag and the item given  *)
(* to the sessions agree.  The inductive invariant adds to these that      *)
(* every row has a proper id, which is what makes id 0 mean "none", and    *)
(* that the loop sleeps towards a recording only while it observes         *)
(* something.                                                              *)
(*                                                                         *)
(* If its times fit together (Timely), and as long as nothing is cancelled *)
(* and every answer is read: it records what is planned, all of it and     *)
(* nothing else.  The invariants say for each place of the loop how far    *)
(* the next thing to do is away, that of the current recording (PInv) and  *)
(* that of any row (NoneMissed).                                           *)
(***************************************************************************)
EXTENDS Scheduler, TLAPS

\* A table in which id 0 is not used.
Table(t) == t \subseteq {r \in Items : r.id # 0}

\* Nothing of a process that has ended is left.
Down == pc = "down" => currentRecording.id = 0 /\ ~recordingActive

IInv ==
    /\ TypeOK
    /\ SleepsForward
    /\ InfoMatchesFlag
    /\ Table(webPlan) /\ Table(plan)
    /\ pc = "observe" => nextRecording.id # 0
    /\ pc = "record" => currentRecording.id # 0
    /\ Down

\* SchedulerAssumption, one constant at a time.
LEMMA ConstantsTyped ==
    /\ Lead \in Nat /\ Horizon \in Nat /\ Nap \in Nat /\ MaxDelay \in Nat
    /\ MaxId \in Nat /\ MaxTime \in Nat
  BY SchedulerAssumption

\* emptyItem is an item, and is none of the plan.
LEMMA EmptyItemTyped == emptyItem \in Items /\ emptyItem.id = 0
  BY ConstantsTyped DEF emptyItem, Items

\* The invariant holds in the initial state.
LEMMA InitIInv == Init => IInv
  <1> SUFFICES ASSUME Init PROVE IInv
    OBVIOUS
  <1> USE DEF Init
  <1>1. TypeOK
    <2>1. /\ now \in 0 .. MaxTime /\ lastId \in 0 .. MaxId /\ wake \in Nat
          /\ upSince \in 0 .. MaxTime
      BY ConstantsTyped
    <2>2. /\ webPlan \subseteq Items /\ plan \subseteq Items
          /\ recordingActive \in BOOLEAN
          /\ pc \in {"fetch", "choose", "down"} \cup Sleeps
          /\ calm \in BOOLEAN
      OBVIOUS
    <2>3. /\ currentRecording \in Items /\ nextRecording \in Items
          /\ recordingInfo \in Items
      BY EmptyItemTyped
    <2> QED
      BY <2>1, <2>2, <2>3 DEF TypeOK
  <1>2. Table(webPlan) /\ Table(plan)
    BY DEF Table
  <1>3. SleepsForward
    BY ConstantsTyped DEF SleepsForward
  <1>4. InfoMatchesFlag
    BY EmptyItemTyped DEF InfoMatchesFlag
  <1> QED
    BY <1>1, <1>2, <1>3, <1>4 DEF IInv, Down

\* A row that plan_to_db.php inserts is a proper row.
LEMMA PlannedRow ==
    ASSUME NEW rec \in RecTimes, NEW end \in EndTimes,
           NEW n \in 0 .. MaxId, n < MaxId
    PROVE  Row(n + 1, rec, end) \in {r \in Items : r.id # 0}
  BY SchedulerAssumption, ConstantsTyped, PlanTimesAssumption DEF Row, Items

\* Deleting a row leaves proper rows, for the copy ends now.
LEMMA RemovedRows ==
    ASSUME NEW table, Table(table), NEW r \in table, NEW t \in Nat,
           NEW n \in 0 .. MaxId, Begun(r, t) => n < MaxId
    PROVE  Table(RemovePlan(table, r, n + 1, t))
  <1>1. ASSUME Begun(r, t)
        PROVE  [r EXCEPT !.id = n + 1, !.end = t] \in {s \in Items : s.id # 0}
    <2>1. r \in Items /\ n + 1 \in 0 .. MaxId /\ n + 1 # 0
      BY <1>1, ConstantsTyped DEF Table
    <2> QED
      BY <2>1 DEF Items
  <1> QED
    BY <1>1 DEF RemovePlan, Table

\* Each step keeps the invariant.
LEMMA NextIInv == IInv /\ [Next]_vars => IInv'
  <1> SUFFICES ASSUME IInv, [Next]_vars PROVE IInv'
    OBVIOUS
  <1> USE DEF IInv, Down
  <1>a. now \in Nat /\ wake \in Nat /\ now <= wake
    BY ConstantsTyped DEF TypeOK, SleepsForward
  <1>1. CASE Tick
    BY <1>1, <1>a, ConstantsTyped
      DEF Tick, TypeOK, SleepsForward, InfoMatchesFlag, Table, webVars,
          loopVars, sessionVars, historyVars
  <1>2. CASE \E rec \in RecTimes, end \in EndTimes : PlanRecording(rec, end)
    <2>1. PICK rec \in RecTimes, end \in EndTimes : PlanRecording(rec, end)
      BY <1>2
    <2>2. Table(webPlan)' /\ lastId' \in 0 .. MaxId
      BY <2>1, PlannedRow, ConstantsTyped
        DEF PlanRecording, Table, TypeOK
    <2> QED
      BY <2>1, <2>2
        DEF PlanRecording, TypeOK, SleepsForward, InfoMatchesFlag, Table,
            loopVars, sessionVars, historyVars
  <1>3. CASE \E r \in webPlan : CancelRecording(r)
    <2>1. PICK r \in webPlan : CancelRecording(r)
      BY <1>3
    <2>2. Table(webPlan)'
      BY <2>1, <1>a, RemovedRows DEF CancelRecording, TypeOK
    <2>3. lastId' \in 0 .. MaxId
      BY <2>1, ConstantsTyped DEF CancelRecording, TypeOK
    <2> QED
      BY <2>1, <2>2, <2>3
        DEF CancelRecording, TypeOK, SleepsForward, InfoMatchesFlag, Table,
            loopVars, sessionVars, historyVars
  <1>4. CASE Fetch
    BY <1>4
      DEF Fetch, TypeOK, SleepsForward, InfoMatchesFlag, Table, webVars,
          sessionVars, historyVars
  <1>5. CASE EndCancelled
    <2>1. pc' = "fetch" /\ wake' \in Nat /\ now' <= wake'
      BY <1>5, <1>a, ConstantsTyped DEF EndCancelled, StartFetch
    <2>2. UNCHANGED <<now, webPlan, lastId, plan, nextRecording>>
      BY <1>5 DEF EndCancelled, webVars
    <2>3. /\ currentRecording' \in Items /\ recordingInfo' \in Items
          /\ recordingInfo'.id = 0
      BY <1>5, EmptyItemTyped DEF EndCancelled
    <2>4. recordingActive' = FALSE
      BY <1>5 DEF EndCancelled
    <2>5. upSince' = upSince /\ calm' \in BOOLEAN
      BY <1>5 DEF EndCancelled, LookupFails, TypeOK
    <2> QED
      BY <2>1, <2>2, <2>3, <2>4, <2>5
        DEF TypeOK, SleepsForward, InfoMatchesFlag, Table
  <1>6. CASE TakeNap
    <2>1. nextRecording' \in Items
      BY <1>6 DEF TakeNap, LookupFails, NextItems, Due, TypeOK
    <2>2. pc' = "nap" /\ wake' \in Nat /\ now' <= wake'
      BY <1>6, <1>a, ConstantsTyped DEF TakeNap, Sleep
    <2>3. calm' \in BOOLEAN
      BY <1>6 DEF TakeNap, LookupFails, TypeOK
    <2>4. UNCHANGED <<now, webVars, plan, currentRecording, sessionVars, upSince>>
      BY <1>6 DEF TakeNap
    <2> QED
      BY <2>1, <2>2, <2>3, <2>4
        DEF TypeOK, SleepsForward, InfoMatchesFlag, Table, Sleeps, webVars,
            sessionVars
  <1>7. CASE Choose
    <2> DEFINE r == nextRecording'
    <2>1. r \in Items /\ r.id # 0
      BY <1>7 DEF Choose, NextItems, Due, Table
    <2>2. Near(r.obs) \/ Near(r.rec) \/ Near(r.end)
      BY <1>7 DEF Choose, NextItems, Due
    <2>3. r.obs \in Int /\ r.rec \in Nat /\ r.end \in Nat
      BY <2>1 DEF Items
    <2>4. /\ pc' \in {"observe", "record", "finish"}
          /\ pc' = "record" => currentRecording.id # 0
          /\ wake' \in Nat /\ now <= wake'
      <3>1. CASE now < r.obs /\ Sleep("observe", r.obs)
        BY <3>1, <2>3, <1>a DEF Sleep
      <3>2. CASE /\ r.obs <= now /\ now < r.rec /\ currentRecording.id # 0
                 /\ Sleep("record", r.rec)
        BY <3>2, <2>3, <1>a DEF Sleep
      <3>3. CASE r.obs <= now /\ r.rec <= now /\ Sleep("finish", r.end)
        <4>1. Near(r.end)
          BY <3>3, <2>2, <2>3, <1>a, ConstantsTyped DEF Near
        <4> QED
          BY <3>3, <4>1, <2>3, <1>a, ConstantsTyped DEF Near, Sleep
      <3> QED
        BY <1>7, <3>1, <3>2, <3>3 DEF Choose
    <2> QED
      BY <1>7, <2>1, <2>4
        DEF Choose, TypeOK, SleepsForward, InfoMatchesFlag, Table, Sleeps,
            webVars, sessionVars, historyVars
  <1>8. CASE EndNap \/ Observe \/ Record \/ Finish
    <2>1. pc' = "fetch" /\ wake' = now + MaxDelay /\ now' = now
      BY <1>8 DEF EndNap, Observe, Record, Finish, WakeUp, StartFetch
    <2>2. wake' \in Nat /\ now' <= wake'
      BY <2>1, <1>a, ConstantsTyped
    <2>3. UNCHANGED <<webPlan, lastId, plan, nextRecording>>
      BY <1>8 DEF EndNap, Observe, Record, Finish, webVars
    <2>4. currentRecording' \in Items /\ recordingInfo' \in Items
      BY <1>8, EmptyItemTyped
        DEF EndNap, Observe, Record, Finish, sessionVars, TypeOK
    <2>5. recordingActive' \in BOOLEAN /\ InfoMatchesFlag'
      <3>1. CASE EndNap \/ Observe
        BY <3>1 DEF EndNap, Observe, sessionVars, TypeOK, InfoMatchesFlag
      <3>2. CASE Record
        BY <3>2 DEF Record, WakeUp, InfoMatchesFlag
      <3>3. CASE Finish
        <4>1. recordingInfo'.id = 0 /\ recordingActive' = FALSE
          BY <3>3, EmptyItemTyped DEF Finish
        <4> QED
          BY <4>1 DEF InfoMatchesFlag
      <3> QED
        BY <1>8, <3>1, <3>2, <3>3
    <2>6. UNCHANGED historyVars
      BY <1>8 DEF EndNap, Observe, Record, Finish
    <2> QED
      BY <2>1, <2>2, <2>3, <2>4, <2>5, <2>6
        DEF TypeOK, SleepsForward, Table, historyVars
  <1>9. CASE Crash
    <2>1. pc' = "down" /\ wake' \in Nat /\ now' <= wake'
      BY <1>9, ConstantsTyped DEF Crash, TypeOK
    <2>2. UNCHANGED <<now, webPlan, lastId, plan, upSince, calm>>
      BY <1>9 DEF Crash, webVars, historyVars
    <2>3. /\ currentRecording' \in Items /\ nextRecording' \in Items
          /\ recordingInfo' \in Items
          /\ recordingInfo'.id = 0 /\ currentRecording'.id = 0
      BY <1>9, EmptyItemTyped DEF Crash, FreshState
    <2>4. recordingActive' = FALSE
      BY <1>9 DEF Crash, FreshState
    <2> QED
      BY <2>1, <2>2, <2>3, <2>4
        DEF TypeOK, SleepsForward, InfoMatchesFlag, Table
  <1>10. CASE Restart
    <2>1. pc' = "fetch" /\ wake' \in Nat /\ now' <= wake'
      BY <1>10, <1>a, ConstantsTyped DEF Restart, StartFetch
    <2>2. /\ UNCHANGED <<now, webVars, plan, currentRecording, nextRecording,
                          sessionVars, calm>>
          /\ upSince' = now
      BY <1>10 DEF Restart
    <2> QED
      BY <2>1, <2>2
        DEF TypeOK, SleepsForward, InfoMatchesFlag, Table, webVars,
            sessionVars
  <1>11. CASE UNCHANGED vars
    BY <1>11
      DEF vars, TypeOK, SleepsForward, InfoMatchesFlag, Table, webVars,
          loopVars, sessionVars, historyVars
  <1> QED
    BY <1>1, <1>2, <1>3, <1>4, <1>5, <1>6, <1>7, <1>8, <1>9,
       <1>10, <1>11 DEF Next, Loop

\* The invariant holds throughout.
LEMMA AlwaysIInv == Spec => []IInv
  BY InitIInv, NextIInv, PTL DEF Spec

\* The variables of server.c's main loop keep their types.
THEOREM SchedulerTyped == Spec => []TypeOK
  <1>1. IInv => TypeOK
    BY DEF IInv
  <1> QED
    BY <1>1, AlwaysIInv, PTL

\* Whatever the plan, no argument of sleep() is negative (server.c:155, 173,
\* 190).
THEOREM NoNegativeSleep == Spec => []SleepsForward
  <1>1. IInv => SleepsForward
    BY DEF IInv
  <1> QED
    BY <1>1, AlwaysIInv, PTL

\* Whatever is planned, cancelled or missed, the sessions get the flag and
\* the id of a plan item together (server.c:136-137, 180-181, 199-200).
THEOREM FlagHasItem == Spec => []InfoMatchesFlag
  <1>1. IInv => InfoMatchesFlag
    BY DEF IInv
  <1> QED
    BY <1>1, AlwaysIInv, PTL

\* What RestartSkips rests on: everything the loop has in hand it has chosen
\* since it was started.
RInv ==
    /\ upSince <= now
    /\ pc = "observe" => upSince <= nextRecording.obs
    /\ currentRecording.id # 0 => upSince <= currentRecording.obs
    /\ RestartSkips

\* Each step keeps it.
LEMMA NextRInv == IInv /\ RInv /\ [Next]_vars => RInv'
  <1> SUFFICES ASSUME IInv, RInv, [Next]_vars PROVE RInv'
    OBVIOUS
  <1> USE DEF RInv, RestartSkips
  <1>a. /\ now \in Nat /\ upSince \in Nat
        /\ currentRecording.obs \in Int /\ nextRecording.obs \in Int
        /\ emptyItem.id = 0
    BY ConstantsTyped, EmptyItemTyped DEF IInv, TypeOK, Items
  <1>1. CASE Tick
    BY <1>1, <1>a DEF Tick, loopVars, sessionVars, historyVars
  <1>2. CASE \/ \E rec \in RecTimes, end \in EndTimes : PlanRecording(rec, end)
             \/ \E r \in webPlan : CancelRecording(r)
    BY <1>2
      DEF PlanRecording, CancelRecording, loopVars, sessionVars, historyVars
  <1>3. CASE Fetch
    BY <1>3 DEF Fetch, sessionVars
  <1>4. CASE EndCancelled \/ Finish
    BY <1>4, <1>a DEF EndCancelled, Finish, WakeUp, StartFetch, historyVars
  <1>5. CASE TakeNap
    BY <1>5 DEF TakeNap, Sleep, sessionVars
  <1>6. CASE Choose
    <2>1. nextRecording' \in Items
      BY <1>6 DEF Choose, NextItems, Due, IInv, TypeOK
    <2>2. pc' = "observe" => now < nextRecording'.obs
      BY <1>6 DEF Choose, Sleep
    <2>3. nextRecording'.obs \in Int
      BY <2>1 DEF Items
    <2>4. UNCHANGED <<now, upSince, currentRecording, recordingInfo,
                      recordingActive>>
      BY <1>6 DEF Choose, sessionVars, historyVars
    <2> QED
      BY <2>2, <2>3, <2>4, <1>a
  <1>7. CASE EndNap
    BY <1>7 DEF EndNap, WakeUp, StartFetch, sessionVars, historyVars
  <1>8. CASE Observe
    BY <1>8 DEF Observe, WakeUp, StartFetch, sessionVars, historyVars
  <1>9. CASE Record
    BY <1>9 DEF Record, WakeUp, StartFetch, historyVars, IInv
  <1>10. CASE Crash
    BY <1>10, <1>a DEF Crash, FreshState, historyVars
  <1>11. CASE Restart
    <2>1. currentRecording.id = 0 /\ ~recordingActive
      BY <1>11 DEF Restart, IInv, Down
    <2> QED
      BY <1>11, <2>1, <1>a DEF Restart, StartFetch, sessionVars
  <1>12. CASE UNCHANGED vars
    BY <1>12 DEF vars, loopVars, sessionVars, historyVars
  <1> QED
    BY <1>1, <1>2, <1>3, <1>4, <1>5, <1>6, <1>7, <1>8, <1>9, <1>10, <1>11,
       <1>12
    DEF Next, Loop

\* A server that comes back during an observation leaves it alone
\* (server.c:106-108, 166-170): whatever it records, it has begun to observe.
THEOREM RestartLeavesAlone == Spec => []RestartSkips
  <1>1. Init => RInv
    BY EmptyItemTyped DEF Init, RInv, RestartSkips
  <1>2. RInv => RestartSkips
    BY DEF RInv
  <1> QED
    BY <1>1, <1>2, AlwaysIInv, NextRInv, PTL DEF Spec

-----------------------------------------------------------------------------
(* What is recorded is what is planned. *)

\* How the times that are fixed in the code, the time a fetch may take and
\* the room that planners leave must fit together.  In the code AimTime is
\* 600, PlanAhead 300, Horizon 300, Nap 60 and Lead 10: MaxDelay and Slack
\* may then be, say, 30 and 50.
Timely ==
    /\ MaxDelay + Lead =< Slack /\ MaxDelay + Lead < AimTime
    /\ Nap + MaxDelay + Lead =< 2 * Slack
    /\ Nap + MaxDelay + Lead < Horizon
    /\ Nap + 2 * MaxDelay + Lead < PlanAhead
    /\ Horizon + MaxDelay =< PlanAhead + AimTime

\* Recording s is planned after recording r.
After(s, r) == r.end + Slack < s.obs

\* What plan_to_db.php and the planners see to.
Roomy(table) ==
    /\ \A r \in table : r.rec = r.obs + AimTime /\ r.rec + Slack < r.end
    /\ \A r, s \in table : r # s => After(s, r) \/ After(r, s)

\* How long the loop is away, and what it comes back for.
LoopTimes ==
    /\ pc \in {"fetch", "choose"} => wake =< now + MaxDelay
    /\ pc = "nap" => wake =< now + Nap
    /\ pc \in {"observe", "record", "finish"} => nextRecording \in plan
    /\ pc = "observe" => wake = nextRecording.obs /\ wake < now + Horizon
    /\ pc = "record" => wake = nextRecording.rec
    /\ pc = "finish" => wake = nextRecording.end
    /\ pc \in {"record", "finish"} => nextRecording.obs =< now

\* What is to be done next with the current recording.
Deadline == IF recordingActive THEN currentRecording.end
                               ELSE currentRecording.rec

\* The loop does not sleep past it.
CurrentInTime ==
    currentRecording.id # 0 =>
        /\ currentRecording \in plan
        /\ currentRecording.obs =< now
        /\ pc \in {"fetch", "choose"} => wake + Lead < Deadline
        /\ pc = "nap" => wake + MaxDelay + Lead < Deadline
        /\ pc # "observe"
        /\ pc \in {"record", "finish"} => nextRecording = currentRecording
        /\ pc = "record" => ~recordingActive
        /\ pc = "finish" => recordingActive

ActiveIsCurrent ==
    recordingActive =>
        /\ recordingInfo = currentRecording
        /\ currentRecording.id # 0
        /\ currentRecording.rec =< now

PInv ==
    /\ Roomy(webPlan)
    /\ plan \subseteq webPlan
    /\ LoopTimes
    /\ CurrentInTime
    /\ ActiveIsCurrent

\* The times of what is planned.
LEMMA RowTimes ==
    ASSUME IInv, PInv, NEW r \in webPlan
    PROVE  /\ r.obs \in Int /\ r.rec \in Int /\ r.end \in Int
           /\ r.obs =< r.rec /\ r.rec = r.obs + AimTime
           /\ r.rec + Slack < r.end /\ r.rec < r.end
  <1>1. r.obs \in Int /\ r.rec \in Int /\ r.end \in Int
    BY DEF IInv, TypeOK, Items
  <1>2. AimTime \in Nat /\ Slack \in Nat
    BY PlanTimesAssumption, SchedulerAssumption
  <1>3. r.rec = r.obs + AimTime /\ r.rec + Slack < r.end
    BY DEF PInv, Roomy
  <1> QED
    BY <1>1, <1>2, <1>3

\* The types and the bounds that the steps below reason with.
LEMMA LoopTyped ==
    ASSUME IInv
    PROVE  /\ now \in Nat /\ wake \in Nat /\ now =< wake /\ upSince \in Nat
           /\ Lead \in Nat /\ Horizon \in Nat /\ Nap \in Nat
           /\ MaxDelay \in Nat /\ Slack \in Nat
           /\ AimTime \in Nat /\ PlanAhead \in Nat
  BY ConstantsTyped, SchedulerAssumption, PlanTimesAssumption
    DEF IInv, TypeOK, SleepsForward

\* Rows are proper items, and id 0 is none of them.
LEMMA PlanIds ==
    ASSUME IInv, NEW r \in plan
    PROVE  r.id # 0
  BY DEF IInv, Table

\* While something is current, it is the next thing to do, unless its time is
\* not near and neither is that of anything else.
LEMMA CurrentIsNext ==
    ASSUME IInv, PInv, pc = "choose", currentRecording.id # 0
    PROVE  \/ Deadline < now + Horizon /\ NextItems = {currentRecording}
           \/ now + Horizon =< Deadline /\ Due = {}
  <1> DEFINE c == currentRecording
  <1>1. c \in plan /\ c \in webPlan
    BY DEF PInv, CurrentInTime
  <1>2. /\ now \in Nat /\ wake \in Nat /\ now =< wake
        /\ Lead \in Nat /\ Horizon \in Nat /\ Slack \in Nat
    BY LoopTyped
  <1>3. /\ c.obs \in Int /\ c.rec \in Int /\ c.end \in Int
        /\ c.obs =< c.rec /\ c.rec < c.end
    BY <1>1, RowTimes
  <1>4. /\ c.obs =< now /\ wake + Lead < Deadline
        /\ recordingActive => c.rec =< now
    BY DEF PInv, CurrentInTime, ActiveIsCurrent
  <1>5. /\ recordingActive => Deadline = c.end
        /\ ~recordingActive => Deadline = c.rec
    BY DEF Deadline
  <1>6. recordingActive \in BOOLEAN
    BY DEF IInv, TypeOK
  <1> HIDE DEF c
  <1>7. Deadline \in Int /\ now + Lead < Deadline /\ Deadline =< c.end
    BY <1>2, <1>3, <1>4, <1>5, <1>6
  <1>8. ASSUME NEW s \in Due, s # c
        PROVE  /\ s.obs \in Int /\ s.rec \in Int /\ s.end \in Int
               /\ s.obs =< s.rec /\ s.rec < s.end
               /\ c.end < s.obs
    <2>1. /\ s.obs \in Int /\ s.rec \in Int /\ s.end \in Int
          /\ s.obs =< s.rec /\ s.rec < s.end
      BY RowTimes DEF Due, PInv
    <2>2. After(s, c) \/ After(c, s)
      BY <1>1, <1>8 DEF Due, PInv, Roomy
    <2>3. Near(s.obs) \/ Near(s.rec) \/ Near(s.end)
      BY DEF Due
    <2> QED
      BY <1>2, <1>3, <1>4, <2>1, <2>2, <2>3 DEF After, Near
  <1>9. CASE Deadline < now + Horizon
    <2>1. c \in Due
      BY <1>1, <1>5, <1>6, <1>7, <1>9 DEF Due, Near
    <2>2. \A s \in Due : c.obs =< s.obs /\ (s.obs =< c.obs => s = c)
      BY <1>3, <1>8
    <2>3. NextItems = {c}
      BY <2>1, <2>2 DEF NextItems
    <2> QED
      BY <1>9, <2>3 DEF c
  <1>10. CASE now + Horizon =< Deadline
    <2>1. c \notin Due
      BY <1>2, <1>3, <1>4, <1>5, <1>6, <1>7, <1>10 DEF Due, Near
    <2>2. ASSUME NEW s \in Due PROVE FALSE
      <3>1. Near(s.obs) \/ Near(s.rec) \/ Near(s.end)
        BY DEF Due
      <3>2. s # c
        BY <2>1
      <3> QED
        BY <1>2, <1>3, <1>7, <1>8, <1>10, <3>1, <3>2 DEF Near
    <2> QED
      BY <1>10, <2>2
  <1> QED
    BY <1>2, <1>7, <1>9, <1>10

\* A row that plan_to_db.php accepts from a planner who leaves room is after
\* everything that is planned, or before it.
LEMMA PlannedWithRoom ==
    ASSUME IInv, PInv, NEW rec \in RecTimes, NEW end \in EndTimes,
           PlanRecording(rec, end)
    PROVE  /\ Roomy(webPlan')
           /\ \E new \in webPlan' :
                  /\ webPlan' = webPlan \cup {new}
                  /\ now + PlanAhead =< new.obs
  <1> DEFINE new == Row(lastId + 1, rec, end)
  <1>1. /\ new.obs = rec - AimTime /\ new.rec = rec /\ new.end = end
        /\ rec \in Nat /\ end \in Nat
    BY SchedulerAssumption DEF Row
  <1>2. /\ webPlan' = webPlan \cup {new}
        /\ rec + Slack < end
        /\ rec - AimTime >= now + PlanAhead
        /\ Conflicts(webPlan, rec - AimTime - Slack, end + Slack) = {}
    BY DEF PlanRecording, MayPlan
  <1> HIDE DEF new
  <1>3. new.rec = new.obs + AimTime /\ new.rec + Slack < new.end
    BY <1>1, <1>2, LoopTyped
  <1>4. ASSUME NEW r \in webPlan PROVE After(r, new) \/ After(new, r)
    <2>1. ~(r.obs =< end + Slack /\ r.end >= rec - AimTime - Slack)
      BY <1>2 DEF Conflicts
    <2> QED
      BY <1>1, <2>1, LoopTyped, RowTimes DEF After
  <1>5. Roomy(webPlan')
    <2>1. \A r \in webPlan' : r.rec = r.obs + AimTime /\ r.rec + Slack < r.end
      BY <1>2, <1>3 DEF PInv, Roomy
    <2>2. \A r, s \in webPlan' : r # s => After(s, r) \/ After(r, s)
      BY <1>2, <1>4 DEF PInv, Roomy
    <2> QED
      BY <2>1, <2>2 DEF Roomy
  <1> QED
    BY <1>1, <1>2, <1>5, LoopTyped

\* Each step keeps PInv, as long as nothing is cancelled and every answer is
\* read.
LEMMA NextPInv ==
    ASSUME Timely, IInv, PInv, [Next]_vars, calm'
    PROVE  PInv'
  <1>a. /\ now \in Nat /\ wake \in Nat /\ now =< wake
        /\ Lead \in Nat /\ Horizon \in Nat /\ Nap \in Nat
        /\ MaxDelay \in Nat /\ Slack \in Nat /\ AimTime \in Nat
    BY LoopTyped
  <1>b. \A r \in plan :
            /\ r.id # 0
            /\ r.obs \in Int /\ r.rec \in Int /\ r.end \in Int
            /\ r.rec = r.obs + AimTime /\ r.rec + Slack < r.end
    BY PlanIds, RowTimes DEF PInv
  <1>c. recordingActive \in BOOLEAN
    BY DEF IInv, TypeOK
  <1>d. currentRecording.id # 0 =>
            currentRecording \in plan /\ Deadline \in Int
    BY <1>b, <1>c DEF PInv, CurrentInTime, Deadline
  <1> USE DEF PInv
  <1>1. CASE Tick
    <2>1. /\ now' = now + 1 /\ now' =< wake
          /\ UNCHANGED <<webVars, loopVars, sessionVars>>
      BY <1>1, <1>a DEF Tick
    <2>2. Deadline' = Deadline
      BY <2>1 DEF Deadline, loopVars, sessionVars
    <2>3. LoopTimes'
      BY <2>1, <1>a, <1>b DEF LoopTimes, loopVars
    <2>4. CurrentInTime' /\ ActiveIsCurrent'
      BY <2>1, <2>2, <1>a, <1>b
        DEF CurrentInTime, ActiveIsCurrent, loopVars, sessionVars
    <2> QED
      BY <2>1, <2>3, <2>4 DEF webVars, loopVars
  <1>2. CASE \E rec \in RecTimes, end \in EndTimes : PlanRecording(rec, end)
    <2>1. PICK rec \in RecTimes, end \in EndTimes : PlanRecording(rec, end)
      BY <1>2
    <2>2. UNCHANGED <<now, loopVars, sessionVars>>
      BY <2>1 DEF PlanRecording
    <2>3. LoopTimes' /\ CurrentInTime' /\ ActiveIsCurrent'
      BY <2>2
        DEF LoopTimes, CurrentInTime, ActiveIsCurrent, Deadline, loopVars,
            sessionVars
    <2> QED
      BY <2>1, <2>2, <2>3, PlannedWithRoom DEF loopVars
  <1>3. CASE \E r \in webPlan : CancelRecording(r)
    BY <1>3 DEF CancelRecording
  <1>4. CASE Fetch
    <2>1. plan' = webPlan /\ pc = "fetch" /\ pc' = "choose"
      BY <1>4 DEF Fetch
    <2>2. UNCHANGED <<now, webVars, currentRecording, nextRecording, wake,
                      sessionVars>>
      BY <1>4 DEF Fetch
    <2>3. LoopTimes'
      BY <2>1, <2>2 DEF LoopTimes
    <2>4. CurrentInTime' /\ ActiveIsCurrent'
      BY <2>1, <2>2 DEF CurrentInTime, ActiveIsCurrent, Deadline, sessionVars
    <2> QED
      BY <2>1, <2>2, <2>3, <2>4 DEF webVars
  <1>5. CASE EndCancelled
    BY <1>5, <1>d DEF EndCancelled, Cancelled, LookupFails, Ids
  <1>6. CASE TakeNap
    <2>1. pc = "choose" /\ pc' = "nap" /\ wake' = now + Nap
      BY <1>6 DEF TakeNap, Sleep
    <2>2. UNCHANGED <<now, webVars, plan, currentRecording, sessionVars>>
      BY <1>6 DEF TakeNap
    <2>3. LoopTimes'
      BY <2>1, <2>2, <1>a DEF LoopTimes
    <2>4. currentRecording.id # 0 => wake' + MaxDelay + Lead < Deadline
      <3>1. SUFFICES ASSUME currentRecording.id # 0
                     PROVE  now + Horizon =< Deadline
        BY <2>1, <1>a, <1>d DEF Timely
      <3>2. Due = {}
        BY <1>6, <3>1 DEF TakeNap, LookupFails
      <3>3. NextItems = {}
        BY <3>2 DEF NextItems
      <3> QED
        BY <2>1, <3>1, <3>3, CurrentIsNext
    <2>5. CurrentInTime' /\ ActiveIsCurrent'
      BY <2>1, <2>2, <2>4
        DEF CurrentInTime, ActiveIsCurrent, Deadline, sessionVars
    <2> QED
      BY <2>2, <2>3, <2>5 DEF webVars
  <1>7. CASE Choose
    <2> DEFINE r == nextRecording'
    <2>1. /\ pc = "choose" /\ r \in NextItems /\ r \in plan
          /\ UNCHANGED <<now, webVars, plan, currentRecording, sessionVars>>
      BY <1>7 DEF Choose, NextItems, Due
    <2>2. \/ now < r.obs /\ pc' = "observe" /\ wake' = r.obs
          \/ /\ r.obs =< now /\ now < r.rec /\ currentRecording.id # 0
             /\ pc' = "record" /\ wake' = r.rec
          \/ /\ r.obs =< now /\ r.rec =< now
             /\ pc' = "finish" /\ wake' = r.end
      BY <1>7 DEF Choose, Sleep
    <2>3. /\ r.obs \in Int /\ r.rec \in Int /\ r.end \in Int
          /\ r.obs =< r.rec /\ r.rec =< r.end
      BY <2>1, <1>a, <1>b
    <2>4. r.obs < now + Horizon \/ r.obs =< now
      <3>1. Near(r.obs) \/ Near(r.rec) \/ Near(r.end)
        BY <2>1 DEF NextItems, Due
      <3> QED
        BY <3>1, <2>3, <1>a DEF Near
    <2>5. LoopTimes'
      BY <2>1, <2>2, <2>3, <2>4, <1>a DEF LoopTimes
    <2>6. CurrentInTime'
      <3>1. SUFFICES ASSUME currentRecording.id # 0 PROVE CurrentInTime'
        BY <2>1 DEF CurrentInTime
      <3>2. r = currentRecording
        BY <2>1, <3>1, CurrentIsNext DEF NextItems
      <3>3. /\ r.obs =< now /\ now < Deadline
            /\ recordingActive => r.rec =< now
        BY <2>1, <3>1, <3>2, <1>a, <1>d
          DEF CurrentInTime, ActiveIsCurrent
      <3>4. ~recordingActive => now < r.rec
        BY <3>2, <3>3 DEF Deadline
      <3>5. \/ pc' = "record" /\ ~recordingActive
            \/ pc' = "finish" /\ recordingActive
        <4>1. recordingActive => pc' = "finish"
          BY <2>2, <2>3, <3>3, <1>a
        <4>2. ~recordingActive => pc' = "record"
          BY <2>2, <2>3, <3>3, <3>4, <1>a
        <4> QED
          BY <4>1, <4>2
      <3>6. /\ recordingActive' = recordingActive
            /\ currentRecording' = currentRecording
            /\ plan' = plan /\ now' = now
        BY <2>1 DEF sessionVars
      <3> HIDE DEF r
      <3>7. nextRecording' = currentRecording'
        BY <3>2, <3>6 DEF r
      <3>8. currentRecording' \in plan' /\ currentRecording'.obs =< now'
        BY <3>1, <3>2, <3>3, <3>6, <1>d
      <3> QED
        BY <3>5, <3>6, <3>7, <3>8 DEF CurrentInTime
    <2>7. ActiveIsCurrent'
      BY <2>1 DEF ActiveIsCurrent, sessionVars
    <2> QED
      BY <2>1, <2>5, <2>6, <2>7 DEF webVars
  <1>8. CASE EndNap
    <2>1. /\ pc = "nap" /\ pc' = "fetch" /\ now = wake
          /\ wake' = now + MaxDelay
          /\ UNCHANGED <<now, webVars, plan, currentRecording, sessionVars>>
      BY <1>8 DEF EndNap, WakeUp, StartFetch
    <2>2. LoopTimes'
      BY <2>1, <1>a DEF LoopTimes
    <2>3. CurrentInTime' /\ ActiveIsCurrent'
      BY <2>1, <1>a
        DEF CurrentInTime, ActiveIsCurrent, Deadline, sessionVars
    <2> QED
      BY <2>1, <2>2, <2>3 DEF webVars
  <1>9. CASE Observe
    <2>1. /\ pc = "observe" /\ pc' = "fetch" /\ now = wake
          /\ wake' = now + MaxDelay /\ currentRecording' = nextRecording
          /\ UNCHANGED <<now, webVars, plan, sessionVars>>
      BY <1>9 DEF Observe, WakeUp, StartFetch
    <2>2. nextRecording \in plan /\ nextRecording.obs = now
      BY <2>1 DEF LoopTimes
    <2>3. ~recordingActive
      BY <2>1 DEF CurrentInTime, ActiveIsCurrent
    <2>4. LoopTimes'
      BY <2>1, <1>a DEF LoopTimes
    <2>5. Deadline' = nextRecording.rec
      BY <2>1, <2>3 DEF Deadline, sessionVars
    <2>6. wake' + Lead < Deadline'
      BY <2>1, <2>2, <2>5, <1>a, <1>b DEF Timely
    <2>7. CurrentInTime' /\ ActiveIsCurrent'
      BY <2>1, <2>2, <2>3, <2>6, <1>a, <1>b
        DEF CurrentInTime, ActiveIsCurrent, sessionVars
    <2> QED
      BY <2>1, <2>4, <2>7 DEF webVars
  <1>10. CASE Record
    <2>1. /\ pc = "record" /\ pc' = "fetch" /\ now = wake
          /\ wake' = now + MaxDelay
          /\ recordingInfo' = currentRecording /\ recordingActive' = TRUE
          /\ UNCHANGED <<now, webVars, plan, currentRecording>>
      BY <1>10 DEF Record, WakeUp, StartFetch
    <2>2. currentRecording.id # 0
      BY <2>1 DEF IInv
    <2>3. nextRecording = currentRecording /\ now = currentRecording.rec
      BY <2>1, <2>2 DEF CurrentInTime, LoopTimes
    <2>4. LoopTimes'
      BY <2>1, <1>a DEF LoopTimes
    <2>5. Deadline' = currentRecording.end
      BY <2>1 DEF Deadline
    <2>6. wake' + Lead < Deadline'
      BY <2>1, <2>2, <2>3, <2>5, <1>a, <1>b, <1>d DEF Timely
    <2>7. CurrentInTime'
      BY <2>1, <2>2, <2>6 DEF CurrentInTime
    <2>8. ActiveIsCurrent'
      BY <2>1, <2>2, <2>3, <1>a, <1>b, <1>d DEF ActiveIsCurrent
    <2> QED
      BY <2>1, <2>4, <2>7, <2>8 DEF webVars
  <1>11. CASE Finish
    <2>1. /\ pc' = "fetch" /\ wake' = now + MaxDelay
          /\ currentRecording'.id = 0 /\ recordingActive' = FALSE
          /\ UNCHANGED <<now, webVars, plan>>
      BY <1>11, EmptyItemTyped DEF Finish, WakeUp, StartFetch
    <2> QED
      BY <2>1, <1>a
        DEF LoopTimes, CurrentInTime, ActiveIsCurrent, webVars
  <1>12. CASE Crash
    <2>1. /\ pc' = "down" /\ currentRecording'.id = 0
          /\ recordingActive' = FALSE /\ UNCHANGED <<now, webVars, plan>>
      BY <1>12, EmptyItemTyped DEF Crash, FreshState
    <2> QED
      BY <2>1 DEF LoopTimes, CurrentInTime, ActiveIsCurrent, webVars
  <1>13. CASE Restart
    <2>1. currentRecording.id = 0 /\ ~recordingActive
      BY <1>13 DEF Restart, IInv, Down
    <2>2. /\ pc' = "fetch" /\ wake' = now + MaxDelay
          /\ UNCHANGED <<now, webVars, plan, currentRecording, sessionVars>>
      BY <1>13 DEF Restart, StartFetch
    <2> QED
      BY <2>1, <2>2, <1>a
        DEF LoopTimes, CurrentInTime, ActiveIsCurrent, webVars, sessionVars
  <1>14. CASE UNCHANGED vars
    BY <1>14
      DEF vars, LoopTimes, CurrentInTime, ActiveIsCurrent, Deadline, webVars,
          loopVars, sessionVars
  <1> QED
    BY <1>1, <1>2, <1>3, <1>4, <1>5, <1>6, <1>7, <1>8, <1>9, <1>10, <1>11,
       <1>12, <1>13, <1>14
    DEF Next, Loop

\* Trouble is not forgotten.
LEMMA CalmBefore ==
    ASSUME [Next]_vars, calm', IInv
    PROVE  calm
  <1> USE DEF IInv, TypeOK
  <1>1. calm' = calm \/ calm' = FALSE
    BY DEF Next, Loop, vars, historyVars, Tick, PlanRecording,
           CancelRecording, Fetch, EndCancelled, LookupFails, TakeNap, Choose,
           EndNap, Observe, Record, Finish, Crash, Restart
  <1> QED
    BY <1>1

\* What is active is planned for now.
LEMMA OnlyThePlan ==
    ASSUME IInv, PInv, recordingActive
    PROVE  /\ recordingInfo \in webPlan
           /\ recordingInfo.rec =< now /\ now =< recordingInfo.end
  <1> DEFINE c == currentRecording
  <1>1. /\ c.id # 0 /\ c \in plan /\ c \in webPlan /\ recordingInfo = c
        /\ c.rec =< now
    BY DEF PInv, ActiveIsCurrent, CurrentInTime
  <1>2. pc \in {"fetch", "choose", "nap", "finish"}
    BY <1>1 DEF IInv, TypeOK, Down, Sleeps, PInv, CurrentInTime
  <1>3. c.end \in Int
    BY <1>1, RowTimes
  <1>4. Deadline = c.end
    BY DEF Deadline
  <1>5. pc = "finish" => wake = c.end
    BY <1>1 DEF PInv, CurrentInTime, LoopTimes
  <1>6. /\ pc \in {"fetch", "choose"} => wake + Lead < c.end
        /\ pc = "nap" => wake + MaxDelay + Lead < c.end
    BY <1>1, <1>4 DEF PInv, CurrentInTime
  <1> HIDE DEF c
  <1>7. now =< c.end
    BY <1>2, <1>3, <1>5, <1>6, LoopTyped
  <1> QED
    BY <1>1, <1>7

\* The server records what is planned, and only when it is planned
\* (server.c:97-205), as long as nothing has been cancelled and every answer
\* has been read.
THEOREM RecordsOnlyThePlan ==
    ASSUME Timely
    PROVE  Spec => []OnlyAsPlanned
  <1> DEFINE PlanInv == calm => PInv
  <1>1. Init => PlanInv
    BY EmptyItemTyped, ConstantsTyped
      DEF Init, PInv, Roomy, LoopTimes, CurrentInTime, ActiveIsCurrent
  <1>2. IInv /\ PlanInv /\ [Next]_vars => PlanInv'
    <2>1. calm' /\ [Next]_vars /\ IInv => calm
      BY CalmBefore
    <2> QED
      BY <2>1, NextPInv
  <1>3. IInv /\ PlanInv => OnlyAsPlanned
    BY OnlyThePlan DEF OnlyAsPlanned
  <1> HIDE DEF PlanInv
  <1> QED
    BY <1>1, <1>2, <1>3, AlwaysIInv, PTL DEF Spec

-----------------------------------------------------------------------------
(* What is planned is recorded. *)

\* The loop will look at the plan before the observation r comes near.
Ahead(r) ==
    /\ pc \in {"fetch", "choose"} => wake + Lead < r.obs
    /\ pc = "choose" /\ r \notin plan => wake + PlanAhead =< r.obs + MaxDelay
    /\ pc = "nap" => wake + MaxDelay + Lead < r.obs
    /\ pc = "observe" => r = nextRecording \/ After(r, nextRecording)
    /\ pc \in {"record", "finish"} => After(r, nextRecording)

\* Each recording that the server is up for in time is ahead, or current, or
\* over.
NoneMissed ==
    pc # "down" =>
        \A r \in webPlan :
            upSince + MaxDelay + Lead < r.obs =>
                Ahead(r) \/ r = currentRecording \/ r.end =< now

\* What is planned now is ahead of the loop.
LEMMA PlannedAhead ==
    ASSUME Timely, IInv, PInv, pc # "down",
           NEW rec \in RecTimes, NEW end \in EndTimes,
           PlanRecording(rec, end), PInv',
           NEW new \in webPlan', now + PlanAhead =< new.obs,
           new.obs \in Int, new.end \in Int,
           new.obs + AimTime + Slack < new.end
    PROVE  Ahead(new)
  <1>1. /\ now \in Nat /\ wake \in Nat
        /\ Lead \in Nat /\ Horizon \in Nat /\ Nap \in Nat
        /\ MaxDelay \in Nat /\ Slack \in Nat /\ AimTime \in Nat
        /\ PlanAhead \in Nat
    BY LoopTyped
  <1>2. /\ pc \in {"fetch", "choose"} => wake =< now + MaxDelay
        /\ pc = "nap" => wake =< now + Nap
    BY DEF PInv, LoopTimes
  <1>3. ASSUME pc \in {"observe", "record", "finish"}
        PROVE  /\ nextRecording.obs \in Int /\ nextRecording.end \in Int
               /\ \/ new = nextRecording
                  \/ After(new, nextRecording) \/ After(nextRecording, new)
    <2>1. nextRecording \in webPlan /\ nextRecording \in webPlan'
      BY <1>3 DEF PInv, LoopTimes, PlanRecording
    <2> QED
      BY <2>1, RowTimes DEF PInv, Roomy
  <1>4. pc = "observe" => new = nextRecording \/ After(new, nextRecording)
    <2>1. SUFFICES ASSUME pc = "observe", After(nextRecording, new)
                   PROVE  FALSE
      BY <1>3
    <2>2. nextRecording.obs < now + Horizon
      BY <2>1 DEF PInv, LoopTimes
    <2> QED
      BY <1>1, <1>3, <2>1, <2>2 DEF After, Timely
  <1>5. pc \in {"record", "finish"} => After(new, nextRecording)
    <2>1. SUFFICES ASSUME pc \in {"record", "finish"}
                   PROVE  new # nextRecording /\ ~After(nextRecording, new)
      BY <1>3
    <2>2. nextRecording.obs =< now
      BY <2>1 DEF PInv, LoopTimes
    <2>3. now < new.obs
      BY <1>1 DEF Timely
    <2> QED
      BY <1>1, <1>3, <2>1, <2>2, <2>3 DEF After
  <1> QED
    BY <1>1, <1>2, <1>4, <1>5 DEF Ahead, Timely

\* Each step keeps NoneMissed.
LEMMA NextNoneMissed ==
    ASSUME Timely, IInv, PInv, PInv', NoneMissed, [Next]_vars, calm'
    PROVE  NoneMissed'
  <1> SUFFICES ASSUME pc' # "down", NEW r \in webPlan',
                      upSince' + MaxDelay + Lead < r.obs
               PROVE  Ahead(r)' \/ r = currentRecording' \/ r.end =< now'
    BY DEF NoneMissed
  <1>a. /\ now \in Nat /\ wake \in Nat /\ now =< wake
        /\ Lead \in Nat /\ Horizon \in Nat /\ Nap \in Nat
        /\ MaxDelay \in Nat /\ Slack \in Nat /\ AimTime \in Nat
        /\ PlanAhead \in Nat
    BY LoopTyped
  <1>b. \A s \in webPlan :
            /\ s.id # 0
            /\ s.obs \in Int /\ s.rec \in Int /\ s.end \in Int
            /\ s.obs =< s.rec /\ s.rec < s.end
            /\ s.rec = s.obs + AimTime /\ s.rec + Slack < s.end
    BY RowTimes DEF IInv, Table
  <1>c. plan \subseteq webPlan
    BY DEF PInv
  <1>1. CASE Tick
    <2>1. /\ now' = now + 1
          /\ UNCHANGED <<webVars, loopVars, historyVars>>
      BY <1>1 DEF Tick
    <2>2. Ahead(r) \/ r = currentRecording \/ r.end =< now
      BY <2>1 DEF NoneMissed, webVars, loopVars, historyVars
    <2>3. r.end \in Int
      BY <1>b, <2>1 DEF webVars
    <2> QED
      BY <1>a, <2>1, <2>2, <2>3 DEF Ahead, loopVars
  <1>2. CASE \E rec \in RecTimes, end \in EndTimes : PlanRecording(rec, end)
    <2>1. PICK rec \in RecTimes, end \in EndTimes : PlanRecording(rec, end)
      BY <1>2
    <2>2. UNCHANGED <<now, loopVars, historyVars>> /\ pc # "down"
      BY <2>1 DEF PlanRecording, loopVars
    <2>3. Ahead(r)' <=> Ahead(r)
      BY <2>2 DEF Ahead, loopVars
    <2>4. CASE r \in webPlan
      BY <2>2, <2>3, <2>4 DEF NoneMissed, historyVars, loopVars
    <2>5. CASE r \notin webPlan
      <3>1. now + PlanAhead =< r.obs
        BY <2>1, <2>5, PlannedWithRoom
      <3>2. /\ r.obs \in Int /\ r.end \in Int
            /\ r.rec = r.obs + AimTime /\ r.rec + Slack < r.end
        BY NextIInv DEF IInv, TypeOK, Items, PInv, Roomy
      <3>3. r.obs + AimTime + Slack < r.end
        BY <3>2
      <3>4. Ahead(r)
        BY <2>1, <2>2, <3>1, <3>2, <3>3, PlannedAhead
      <3> QED
        BY <2>3, <3>4
    <2> QED
      BY <2>4, <2>5
  <1>3. CASE \E s \in webPlan : CancelRecording(s)
    BY <1>3 DEF CancelRecording
  <1>4. CASE Fetch
    <2>1. /\ plan' = webPlan /\ pc = "fetch" /\ pc' = "choose"
          /\ UNCHANGED <<now, webVars, currentRecording, wake, upSince>>
      BY <1>4 DEF Fetch
    <2>2. Ahead(r) \/ r = currentRecording \/ r.end =< now
      BY <2>1 DEF NoneMissed, webVars
    <2> QED
      BY <2>1, <2>2 DEF Ahead, webVars
  <1>5. CASE EndCancelled
    BY <1>5
      DEF EndCancelled, Cancelled, LookupFails, Ids, PInv, CurrentInTime
  <1>6. CASE TakeNap
    <2>1. /\ pc = "choose" /\ pc' = "nap" /\ wake' = now + Nap
          /\ UNCHANGED <<now, webVars, plan, currentRecording, upSince>>
      BY <1>6 DEF TakeNap, Sleep
    <2>2. r \in webPlan
      BY <2>1 DEF webVars
    <2>3. Ahead(r) \/ r = currentRecording \/ r.end =< now
      BY <2>1, <2>2 DEF NoneMissed
    <2>4. ASSUME Ahead(r) PROVE wake' + MaxDelay + Lead < r.obs
      <3>1. /\ now + Lead < r.obs
            /\ r \notin plan => wake + PlanAhead =< r.obs + MaxDelay
        BY <1>a, <1>b, <2>1, <2>2, <2>4 DEF Ahead
      <3>2. CASE r \notin plan
        BY <1>a, <1>b, <2>1, <2>2, <3>1, <3>2 DEF Timely
      <3>3. CASE r \in plan /\ Due = {}
        <4>1. ~Near(r.obs)
          BY <3>3 DEF Due
        <4> QED
          BY <1>a, <1>b, <2>1, <2>2, <3>1, <4>1 DEF Near, Timely
      <3>4. CASE \E n \in NextItems : n.obs =< now /\ now < n.rec
        <4>1. PICK n \in NextItems : n.obs =< now /\ now < n.rec
          BY <3>4
        <4>2. n \in webPlan
          BY <1>c DEF NextItems, Due
        <4>3. r # n
          BY <1>a, <1>b, <2>2, <3>1, <4>1
        <4>4. After(r, n) \/ After(n, r)
          BY <2>2, <4>2, <4>3 DEF PInv, Roomy
        <4> QED
          BY <1>a, <1>b, <2>1, <2>2, <3>1, <4>1, <4>2, <4>4 DEF After, Timely
      <3> QED
        BY <1>6, <3>2, <3>3, <3>4 DEF TakeNap, LookupFails
    <2> QED
      BY <2>1, <2>3, <2>4 DEF Ahead
  <1>7. CASE Choose
    <2> DEFINE n == nextRecording'
    <2>1. /\ pc = "choose" /\ n \in NextItems /\ n \in plan /\ n \in webPlan
          /\ UNCHANGED <<now, webVars, plan, currentRecording, upSince>>
      BY <1>7, <1>c DEF Choose, NextItems, Due, historyVars
    <2>2. \/ now < n.obs /\ pc' = "observe"
          \/ n.obs =< now /\ pc' \in {"record", "finish"}
      BY <1>7 DEF Choose, Sleep
    <2>3. r \in webPlan
      BY <2>1 DEF webVars
    <2>4. Ahead(r) \/ r = currentRecording \/ r.end =< now
      BY <2>1, <2>3 DEF NoneMissed
    <2>5. n \in Due /\ \A s \in Due : n.obs =< s.obs
      BY <2>1 DEF NextItems
    <2>6. r # n => After(r, n) \/ After(n, r)
      BY <2>1, <2>3 DEF PInv, Roomy
    <2> HIDE DEF n
    <2>7. n.obs < now + Horizon \/ n.obs =< now
      <3>1. Near(n.obs) \/ Near(n.rec) \/ Near(n.end)
        BY <2>5 DEF Due
      <3> QED
        BY <1>a, <1>b, <2>1, <3>1 DEF Near
    <2>8. ASSUME Ahead(r)
          PROVE  /\ now < n.obs => r = n \/ After(r, n)
                 /\ n.obs =< now => After(r, n)
      <3>1. /\ now + Lead < r.obs
            /\ r \notin plan => wake + PlanAhead =< r.obs + MaxDelay
        BY <1>a, <1>b, <2>1, <2>3, <2>8 DEF Ahead
      <3>2. n.obs =< now => After(r, n)
        BY <1>a, <1>b, <2>1, <2>3, <2>6, <3>1 DEF After
      <3>3. ASSUME now < n.obs, After(n, r) PROVE FALSE
        <4>1. r.obs < n.obs /\ r.end < n.obs
          BY <1>a, <1>b, <2>1, <2>3, <3>3 DEF After
        <4>2. CASE r \notin plan
          BY <1>a, <1>b, <2>1, <2>3, <2>7, <3>1, <3>3, <4>1, <4>2
            DEF Timely
        <4>3. CASE r \in plan
          <5>1. Near(r.obs)
            BY <1>a, <1>b, <2>1, <2>3, <2>7, <3>1, <3>3, <4>1 DEF Near
          <5>2. n.obs =< r.obs
            BY <2>5, <4>3, <5>1 DEF Due
          <5> QED
            BY <1>b, <2>1, <2>3, <4>1, <5>2
        <4> QED
          BY <4>2, <4>3
      <3> QED
        BY <2>6, <3>2, <3>3
    <2>9. CASE Ahead(r)
      BY <1>a, <1>b, <2>1, <2>2, <2>8, <2>9 DEF Ahead, n
    <2> QED
      BY <2>1, <2>4, <2>9
  <1>8. CASE EndNap
    <2>1. /\ pc = "nap" /\ pc' = "fetch" /\ now = wake
          /\ wake' = now + MaxDelay
          /\ UNCHANGED <<now, webVars, currentRecording, upSince>>
      BY <1>8 DEF EndNap, WakeUp, StartFetch, historyVars
    <2>2. Ahead(r) \/ r = currentRecording \/ r.end =< now
      BY <2>1 DEF NoneMissed, webVars
    <2> QED
      BY <1>a, <2>1, <2>2 DEF Ahead
  <1>9. CASE Observe \/ Record \/ Finish
    <2>1. /\ pc \in {"observe", "record", "finish"} /\ pc' = "fetch"
          /\ now = wake /\ wake' = now + MaxDelay
          /\ UNCHANGED <<now, webVars, upSince>>
      BY <1>9 DEF Observe, Record, Finish, WakeUp, StartFetch, historyVars
    <2>2. r \in webPlan
      BY <2>1 DEF webVars
    <2>3. Ahead(r) \/ r = currentRecording \/ r.end =< now
      BY <2>1, <2>2 DEF NoneMissed
    <2>4. /\ nextRecording \in webPlan /\ now =< nextRecording.end
          /\ pc = "observe" => nextRecording.obs = now
      BY <1>a, <1>b, <1>c, <2>1 DEF PInv, LoopTimes
    <2>5. CASE After(r, nextRecording)
      <3>1. wake' + Lead < r.obs
        <4>1. CASE pc = "observe" \/ pc = "record"
          BY <1>a, <1>b, <2>1, <2>2, <2>4, <2>5 DEF After, Timely
        <4>2. CASE pc = "finish"
          BY <1>a, <1>b, <2>1, <2>2, <2>4, <2>5 DEF After, Timely
        <4> QED
          BY <2>1, <4>1, <4>2
      <3> QED
        BY <2>1, <3>1 DEF Ahead
    <2>6. CASE r = nextRecording /\ pc = "observe"
      BY <1>9, <2>6 DEF Observe, Record, Finish, WakeUp
    <2>7. CASE r = currentRecording
      <3>1. currentRecording.id # 0
        BY <1>b, <2>2, <2>7
      <3>2. pc = "record" \/ (pc = "finish" /\ wake = r.end)
        BY <2>1, <2>7, <3>1 DEF PInv, CurrentInTime, LoopTimes
      <3>3. pc = "record" => currentRecording' = currentRecording
        BY <1>9 DEF Observe, Record, Finish, WakeUp
      <3> QED
        BY <1>a, <2>1, <2>7, <3>2, <3>3
    <2> QED
      BY <2>1, <2>3, <2>5, <2>6, <2>7 DEF Ahead
  <1>10. CASE Crash
    BY <1>10 DEF Crash
  <1>11. CASE Restart
    BY <1>11, <1>a DEF Restart, StartFetch, Ahead
  <1>12. CASE UNCHANGED vars
    BY <1>12 DEF vars, NoneMissed, Ahead, webVars, loopVars, historyVars
  <1> QED
    BY <1>1, <1>2, <1>3, <1>4, <1>5, <1>6, <1>7, <1>8, <1>9, <1>10, <1>11,
       <1>12
    DEF Next, Loop

\* What should be recorded now is recorded.
LEMMA CurrentIsActive ==
    ASSUME Timely, IInv, PInv, NoneMissed, pc # "down", NEW r \in webPlan,
           upSince + MaxDelay + Lead < r.obs, r.rec < now, now < r.end
    PROVE  recordingActive /\ recordingInfo = r
  <1>a. /\ now \in Nat /\ wake \in Nat /\ now =< wake
        /\ Lead \in Nat /\ MaxDelay \in Nat /\ Slack \in Nat
    BY LoopTyped
  <1>b. \A s \in webPlan :
            /\ s.id # 0
            /\ s.obs \in Int /\ s.rec \in Int /\ s.end \in Int
            /\ s.obs =< s.rec /\ s.rec < s.end
    BY RowTimes DEF IInv, Table
  <1>1. pc \in {"fetch", "choose"} \cup Sleeps
    BY DEF IInv, TypeOK
  <1>2. pc \in {"observe", "record", "finish"} =>
            /\ nextRecording \in webPlan /\ wake =< nextRecording.end
            /\ pc = "observe" => wake = nextRecording.obs
    BY <1>a, <1>b DEF PInv, LoopTimes
  <1>3. ~Ahead(r)
    <2>1. CASE pc \in {"fetch", "choose", "nap"}
      BY <1>a, <1>b, <2>1 DEF Ahead
    <2>2. CASE pc \in {"observe", "record", "finish"}
      BY <1>a, <1>b, <1>2, <2>2 DEF Ahead, After
    <2> QED
      BY <1>1, <2>1, <2>2 DEF Sleeps
  <1>4. r = currentRecording /\ currentRecording.id # 0
    BY <1>a, <1>b, <1>3 DEF NoneMissed
  <1>5. ASSUME ~recordingActive PROVE FALSE
    <2>1. Deadline = r.rec
      BY <1>4, <1>5 DEF Deadline
    <2>2. pc = "record" => wake = r.rec
      BY <1>4 DEF PInv, CurrentInTime, LoopTimes
    <2>3. pc # "observe" /\ pc # "finish"
      BY <1>4, <1>5 DEF PInv, CurrentInTime
    <2>4. /\ pc \in {"fetch", "choose"} => wake + Lead < r.rec
          /\ pc = "nap" => wake + MaxDelay + Lead < r.rec
      BY <1>4, <2>1 DEF PInv, CurrentInTime
    <2> QED
      BY <1>1, <1>a, <1>b, <2>2, <2>3, <2>4 DEF Sleeps
  <1> QED
    BY <1>4, <1>5 DEF PInv, ActiveIsCurrent

\* The server records all of what plan_to_db.php has accepted, from rec to end
\* (server.c:97-205), if it runs since before the observation came near, and
\* as long as nothing has been cancelled and every answer has been read.
THEOREM RecordsAllOfThePlan ==
    ASSUME Timely
    PROVE  Spec => []AllOfThePlan
  <1> DEFINE PlanInv == calm => PInv /\ NoneMissed
  <1>1. Init => PlanInv
    BY EmptyItemTyped, ConstantsTyped
      DEF Init, PInv, Roomy, LoopTimes, CurrentInTime, ActiveIsCurrent,
          NoneMissed
  <1>2. IInv /\ PlanInv /\ [Next]_vars => PlanInv'
    <2>1. calm' /\ [Next]_vars /\ IInv => calm
      BY CalmBefore
    <2> QED
      BY <2>1, NextPInv, NextNoneMissed
  <1>3. IInv /\ PlanInv => AllOfThePlan
    BY CurrentIsActive DEF AllOfThePlan
  <1> HIDE DEF PlanInv
  <1> QED
    BY <1>1, <1>2, <1>3, AlwaysIInv, PTL DEF Spec

=============================================================================
