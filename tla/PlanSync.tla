------------------------------ MODULE PlanSync ------------------------------
(***************************************************************************)
(* The plan on its way from the web server to the telescope.               *)
(*                                                                         *)
(*   Web server   plan_to_db.php and delete_plan.php change the table      *)
(*                `plan'; triggers of web_db_schema.sql count the changes  *)
(*                in db_metadata.version; get_database.php hands both out  *)
(*   Telescope    checkAndUpdateDb of data_transfer/db_transfer.c asks     *)
(*                with the version of its own copy and replaces the copy   *)
(*                when the answer has another version                      *)
(*                                                                         *)
(* Each PHP request is a process of its own, and each statement outside an *)
(* explicit transaction a transaction of its own.  An SQLite write inside  *)
(* a transaction that has read fails if another connection has written in  *)
(* between, so delete_plan.php is one step or has no effect.               *)
(***************************************************************************)
EXTENDS PlanDatabase

CONSTANTS Planners,   \* requests to plan_to_db.php that may run side by side
          KeepTime,   \* 24 h: rows that ended longer ago are not handed out
          RecTimes, EndTimes,   \* what planners may ask for
          MaxId, MaxTime,       \* BOUNDS on rows ever inserted, and on time
          Unreliable  \* TRUE: a request to the web server may fail

ASSUME PlanSyncAssumption ==
    /\ KeepTime \in Nat /\ MaxId \in Nat /\ MaxTime \in Nat
    /\ RecTimes \subseteq Nat /\ EndTimes \subseteq Nat
    /\ Unreliable \in BOOLEAN

VARIABLES
    now,                        \* time() of both machines
    webPlan, webVersion, lastId,
    request,                    \* what a planner has checked: a row or NoRow
    plan, version,              \* the telescope's copy
    fetch                       \* the request of checkAndUpdateDb

webVars == <<webPlan, webVersion, lastId, request>>
telescopeVars == <<plan, version, fetch>>
vars == <<now, webVars, telescopeVars>>

NoRow == Row(0, 0, 0)
Idle == [at |-> "idle", version |-> 0, rows |-> {}]

-----------------------------------------------------------------------------
(* The web server. *)

\* plan_to_db.php up to the check.  The id is not known yet.
CheckSlot(p, rec, end) ==
    /\ request[p] = NoRow
    /\ MayPlan(webPlan, now, rec, end)
    /\ request' = [request EXCEPT ![p] = Row(0, rec, end)]
    /\ UNCHANGED <<now, webPlan, webVersion, lastId, telescopeVars>>

\* The INSERT of plan_to_db.php, with update_version_on_insert.
InsertRow(p) ==
    /\ request[p] # NoRow
    /\ lastId < MaxId
    /\ lastId' = lastId + 1
    /\ webPlan' = webPlan \cup {[request[p] EXCEPT !.id = lastId + 1]}
    /\ webVersion' = webVersion + 1
    /\ request' = [request EXCEPT ![p] = NoRow]
    /\ UNCHANGED <<now, telescopeVars>>

\* Mutant: there is no trigger on DELETE.
DeletePlanUncounted(r) ==
    /\ Begun(r, now) => lastId < MaxId
    /\ webPlan' = RemovePlan(webPlan, r, lastId + 1, now)
    /\ lastId' = IF Begun(r, now) THEN lastId + 1 ELSE lastId
    /\ webVersion' = IF Begun(r, now) THEN webVersion + 1 ELSE webVersion
    /\ UNCHANGED <<now, request, telescopeVars>>

\* delete_plan.php, with update_version_on_insert and _on_delete.
DeletePlan(r) ==
    /\ Begun(r, now) => lastId < MaxId
    /\ webPlan' = RemovePlan(webPlan, r, lastId + 1, now)
    /\ lastId' = IF Begun(r, now) THEN lastId + 1 ELSE lastId
    /\ webVersion' = IF Begun(r, now) THEN webVersion + 2 ELSE webVersion + 1
    /\ UNCHANGED <<now, request, telescopeVars>>

\* get_database.php reads the version and compares ...
CompareVersions ==
    /\ fetch.at = "asked"
    /\ fetch' = IF fetch.version = webVersion
                THEN Idle                       \* 204, "Skipping update!"
                ELSE [fetch EXCEPT !.at = "compared", !.version = webVersion]
    /\ UNCHANGED <<now, webVars, plan, version>>

\* ... and then, in a transaction of its own, the rows.
SelectRows ==
    /\ fetch.at = "compared"
    /\ fetch' = [fetch EXCEPT !.at = "answered",
                     !.rows = {r \in webPlan : r.end > now - KeepTime}]
    /\ UNCHANGED <<now, webVars, plan, version>>

-----------------------------------------------------------------------------
(* The telescope. *)

\* get_local_version, and the request; 0 if the file cannot be opened.
AskServer ==
    /\ fetch.at = "idle"
    /\ \E v \in {version} \cup {u \in {0} : Unreliable} :
           fetch' = [at |-> "asked", version |-> v, rows |-> {}]
    /\ UNCHANGED <<now, webVars, plan, version>>

\* Mutant: the version is left as it was.
UpdateDatabaseOnly ==
    /\ fetch.at = "answered"
    /\ plan' = fetch.rows
    /\ fetch' = Idle
    /\ UNCHANGED <<now, webVars, version>>

\* update_database: everything is replaced, in one transaction.
UpdateDatabase ==
    /\ fetch.at = "answered"
    /\ plan' = fetch.rows
    /\ version' = fetch.version
    /\ fetch' = Idle
    /\ UNCHANGED <<now, webVars>>

\* curl fails, or the answer is not a 200: the next iteration asks again.
LoseAnswer ==
    /\ Unreliable
    /\ fetch.at # "idle"
    /\ fetch' = Idle
    /\ UNCHANGED <<now, webVars, plan, version>>

-----------------------------------------------------------------------------
(* The specification. *)

\* Both schemas start with version 1 and no row.
Init ==
    /\ now = 0
    /\ webPlan = {} /\ webVersion = 1 /\ lastId = 0
    /\ request = [p \in Planners |-> NoRow]
    /\ plan = {} /\ version = 1
    /\ fetch = Idle

Tick ==
    /\ now < MaxTime
    /\ now' = now + 1
    /\ UNCHANGED <<webVars, telescopeVars>>

Next ==
    \/ Tick
    \/ \E p \in Planners, rec \in RecTimes, end \in EndTimes :
           CheckSlot(p, rec, end)
    \/ \E p \in Planners : InsertRow(p)
    \/ \E r \in webPlan : DeletePlan(r)
    \/ CompareVersions \/ SelectRows
    \/ AskServer \/ UpdateDatabase \/ LoseAnswer

Spec == Init /\ [][Next]_vars

\* The telescope asks in every iteration of server.c's main loop.  A request
\* may fail, but not every time.
Fairness ==
    /\ WF_vars(AskServer)
    /\ SF_vars(CompareVersions) /\ SF_vars(SelectRows) /\ SF_vars(UpdateDatabase)

FairSpec == Spec /\ Fairness

-----------------------------------------------------------------------------
(* Properties. *)

Recent(table) == {r \in table : r.end > now - KeepTime}

\* An equal version stands for an equal plan, which is why a 204 is enough of
\* an answer (get_database.php:9).  It takes the version being read before
\* the rows, and every change being counted.
VersionTells == version = webVersion => Recent(plan) = Recent(webPlan)

\* No two recordings claim the antenna at the same time ("Time slot overlaps
\* with: ...", plan_to_db.php:70).
NoOverlap == Disjoint(webPlan)

\* Every change of the plan reaches the telescope, or a later one does.
PlanArrives == \A v \in 1 .. 1 + 2 * MaxId : webVersion = v ~> version >= v

=============================================================================
