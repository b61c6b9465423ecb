--------------------------- MODULE PlanSyncProofs ---------------------------
(***************************************************************************)
(* What the table and its copy keep, whatever is planned and deleted and   *)
(* whatever request fails.                                                 *)
(*                                                                         *)
(* The version stands for the rows: the invariant says of an answer on its *)
(* way what VersionTells says of the copy.  No two recordings overlap if   *)
(* planners come one at a time: the invariant says of a slot that was      *)
(* found free that it stays so until it is taken.                          *)
(***************************************************************************)
EXTENDS PlanSync, TLAPS

\* Rows with times.
Rows == [id : Nat, obs : Int, rec : Nat, end : Nat]

TypeInv ==
    /\ now \in Nat
    /\ webPlan \subseteq Rows /\ plan \subseteq Rows
    /\ fetch.rows \subseteq Rows
    /\ lastId \in Nat
    /\ request \in [Planners -> Rows]
    /\ webVersion \in Nat /\ version \in Nat /\ fetch.version \in Nat
    /\ fetch.at \in {"idle", "asked", "compared", "answered"}
    /\ fetch = [at |-> fetch.at, version |-> fetch.version,
                rows |-> fetch.rows]

\* No version is ahead of the table, and an answer with its version has its
\* rows.
VersionInv ==
    /\ version =< webVersion
    /\ fetch.at \in {"compared", "answered"} => fetch.version =< webVersion
    /\ fetch.at = "answered" /\ fetch.version = webVersion =>
           Recent(fetch.rows) = Recent(webPlan)
    /\ VersionTells

\* PlanSyncAssumption, one constant at a time, with PlanTimesAssumption.
LEMMA ConstantsTyped ==
    /\ KeepTime \in Nat /\ MaxId \in Nat /\ AimTime \in Nat
    /\ PlanAhead \in Nat
    /\ RecTimes \subseteq Nat /\ EndTimes \subseteq Nat
  BY PlanSyncAssumption, PlanTimesAssumption

\* A row keeps its type when it gets another id or end.
LEMMA RowTyped ==
    ASSUME NEW n \in Nat, NEW rec \in Nat, NEW end \in Nat
    PROVE  Row(n, rec, end) \in Rows
  BY ConstantsTyped DEF Row, Rows

LEMMA RemovedTyped ==
    ASSUME NEW table, table \subseteq Rows, NEW r \in table, NEW n \in Nat,
           NEW t \in Nat
    PROVE  RemovePlan(table, r, n, t) \subseteq Rows
  <1>1. r \in Rows
    OBVIOUS
  <1>2. [r EXCEPT !.id = n, !.end = t] \in Rows
    BY <1>1 DEF Rows
  <1> QED
    BY <1>2 DEF RemovePlan

\* The types hold in every state.
LEMMA NextTypeInv == TypeInv /\ [Next]_vars => TypeInv'
  <1> SUFFICES ASSUME TypeInv, [Next]_vars PROVE TypeInv'
    OBVIOUS
  <1>1. CASE Tick
    BY <1>1 DEF Tick, TypeInv, webVars, telescopeVars
  <1>2. CASE \E p \in Planners, rec \in RecTimes, end \in EndTimes :
                 CheckSlot(p, rec, end)
    <2>1. PICK p \in Planners, rec \in RecTimes, end \in EndTimes :
              CheckSlot(p, rec, end)
      BY <1>2
    <2>2. Row(0, rec, end) \in Rows
      BY RowTyped, ConstantsTyped
    <2>3. request' \in [Planners -> Rows]
      BY <2>1, <2>2 DEF CheckSlot, TypeInv
    <2> QED
      BY <2>1, <2>3 DEF CheckSlot, TypeInv, telescopeVars
  <1>3. CASE \E p \in Planners : InsertRow(p)
    <2>1. PICK p \in Planners : InsertRow(p)
      BY <1>3
    <2>2. [request[p] EXCEPT !.id = lastId + 1] \in Rows
      BY DEF TypeInv, Rows
    <2>3. request' \in [Planners -> Rows]
      BY <2>1, RowTyped DEF InsertRow, TypeInv, NoRow
    <2> QED
      BY <2>1, <2>2, <2>3 DEF InsertRow, TypeInv, telescopeVars
  <1>4. CASE \E r \in webPlan : DeletePlan(r)
    <2>1. PICK r \in webPlan : DeletePlan(r)
      BY <1>4
    <2>2. webPlan' \subseteq Rows
      BY <2>1, RemovedTyped DEF DeletePlan, TypeInv
    <2> QED
      BY <2>1, <2>2 DEF DeletePlan, TypeInv, telescopeVars
  <1>5. CASE CompareVersions \/ SelectRows \/ AskServer \/ LoseAnswer
    <2>1. UNCHANGED <<now, webVars, plan, version>>
      BY <1>5 DEF CompareVersions, SelectRows, AskServer, LoseAnswer
    <2>2. /\ fetch'.rows \subseteq Rows /\ fetch'.version \in Nat
          /\ fetch'.at \in {"idle", "asked", "compared", "answered"}
          /\ fetch' = [at |-> fetch'.at, version |-> fetch'.version,
                       rows |-> fetch'.rows]
      <3>1. CASE CompareVersions
        BY <3>1 DEF CompareVersions, Idle, TypeInv
      <3>2. CASE SelectRows
        BY <3>2 DEF SelectRows, TypeInv
      <3>3. CASE AskServer
        BY <3>3 DEF AskServer, TypeInv
      <3>4. CASE LoseAnswer
        BY <3>4 DEF LoseAnswer, Idle
      <3> QED
        BY <1>5, <3>1, <3>2, <3>3, <3>4
    <2> QED
      BY <2>1, <2>2 DEF TypeInv, webVars
  <1>6. CASE UpdateDatabase
    BY <1>6 DEF UpdateDatabase, Idle, TypeInv, webVars
  <1>7. CASE UNCHANGED vars
    BY <1>7 DEF vars, TypeInv, webVars, telescopeVars
  <1> QED
    BY <1>1, <1>2, <1>3, <1>4, <1>5, <1>6, <1>7 DEF Next

LEMMA AlwaysTypeInv == Spec => []TypeInv
  <1>1. Init => TypeInv
    BY RowTyped DEF Init, TypeInv, Idle, NoRow
  <1> QED
    BY <1>1, NextTypeInv, PTL DEF Spec

-----------------------------------------------------------------------------
(* The version stands for the rows. *)

\* What is too old to be handed out stays so.
LEMMA RecentLater ==
    ASSUME TypeInv, NEW a \in SUBSET Rows, NEW b \in SUBSET Rows,
           Recent(a) = Recent(b), now' = now + 1
    PROVE  {r \in a : r.end > now' - KeepTime}
               = {r \in b : r.end > now' - KeepTime}
  <1>1. \A r \in Rows : r.end > now' - KeepTime => r.end > now - KeepTime
    BY ConstantsTyped DEF TypeInv, Rows
  <1>2. \A r \in Rows :
            r.end > now - KeepTime => (r \in a <=> r \in b)
    BY DEF Recent
  <1> QED
    BY <1>1, <1>2

\* Recent, of a table that has not changed at a time that has not changed.
LEMMA RecentSame ==
    ASSUME NEW a, now' = now
    PROVE  Recent(a) = {r \in a : r.end > now' - KeepTime}
  BY DEF Recent

\* Each step keeps VersionInv.
LEMMA NextVersionInv ==
    ASSUME TypeInv, VersionInv, [Next]_vars
    PROVE  VersionInv'
  <1>a. /\ webVersion \in Nat /\ version \in Nat /\ fetch.version \in Nat
    BY DEF TypeInv
  <1> USE DEF VersionInv, VersionTells
  <1>1. CASE Tick
    <2>1. /\ now' = now + 1
          /\ UNCHANGED <<webVersion, webPlan, version, plan, fetch>>
      BY <1>1 DEF Tick, webVars, telescopeVars
    <2>2. /\ version = webVersion =>
                 {r \in plan : r.end > now' - KeepTime}
                     = {r \in webPlan : r.end > now' - KeepTime}
          /\ fetch.at = "answered" /\ fetch.version = webVersion =>
                 {r \in fetch.rows : r.end > now' - KeepTime}
                     = {r \in webPlan : r.end > now' - KeepTime}
      BY <2>1, RecentLater DEF TypeInv
    <2> QED
      BY <2>1, <2>2 DEF Recent
  <1>2. CASE \E p \in Planners, rec \in RecTimes, end \in EndTimes :
                 CheckSlot(p, rec, end)
    BY <1>2 DEF CheckSlot, Recent, telescopeVars
  <1>3. CASE \/ \E p \in Planners : InsertRow(p)
             \/ \E r \in webPlan : DeletePlan(r)
    <2>1. webVersion' \in Nat /\ webVersion < webVersion'
      BY <1>3, <1>a DEF InsertRow, DeletePlan
    <2>2. UNCHANGED <<version, fetch>>
      BY <1>3 DEF InsertRow, DeletePlan, telescopeVars
    <2>3. version < webVersion'
      BY <1>a, <2>1
    <2>4. /\ fetch.at \in {"compared", "answered"} =>
                 fetch.version =< webVersion' /\ fetch.version # webVersion'
      BY <1>a, <2>1
    <2> QED
      BY <1>a, <2>1, <2>2, <2>3, <2>4
  <1>4. CASE CompareVersions
    <2>1. UNCHANGED <<now, webVars, plan, version>> /\ fetch'.at # "answered"
      BY <1>4 DEF CompareVersions, Idle, TypeInv
    <2>2. fetch'.at \in {"compared", "answered"} =>
              fetch'.version = webVersion
      BY <1>4 DEF CompareVersions, Idle, TypeInv
    <2> QED
      BY <1>a, <2>1, <2>2 DEF webVars, Recent
  <1>5. CASE SelectRows
    <2>1. /\ UNCHANGED <<now, webVars, plan, version>>
          /\ fetch.at = "compared" /\ fetch'.at = "answered"
          /\ fetch'.version = fetch.version
          /\ fetch'.rows = Recent(webPlan)
      BY <1>5 DEF SelectRows, TypeInv, Recent
    <2> QED
      BY <2>1 DEF webVars, Recent
  <1>6. CASE AskServer \/ LoseAnswer
    <2>1. /\ UNCHANGED <<now, webVars, plan, version>>
          /\ fetch'.at \in {"idle", "asked"}
      BY <1>6 DEF AskServer, LoseAnswer, Idle
    <2> QED
      BY <2>1 DEF webVars, Recent
  <1>7. CASE UpdateDatabase
    <2>1. /\ UNCHANGED <<now, webVars>>
          /\ fetch.at = "answered" /\ fetch'.at = "idle"
          /\ plan' = fetch.rows /\ version' = fetch.version
      BY <1>7 DEF UpdateDatabase, Idle
    <2> QED
      BY <2>1 DEF webVars, Recent
  <1>8. CASE UNCHANGED vars
    BY <1>8 DEF vars, webVars, telescopeVars, Recent
  <1> QED
    BY <1>1, <1>2, <1>3, <1>4, <1>5, <1>6, <1>7, <1>8 DEF Next

\* An answer 204 is enough (get_database.php:9-14, db_transfer.c:134-144): as
\* long as the versions agree, so do the rows, whatever changes while the
\* answer is on its way, and whatever gets lost.
THEOREM VersionStandsForRows == Spec => []VersionTells
  <1>1. Init => VersionInv
    BY DEF Init, VersionInv, VersionTells, Recent, Idle
  <1>2. VersionInv => VersionTells
    BY DEF VersionInv
  <1> QED
    BY <1>1, <1>2, AlwaysTypeInv, NextVersionInv, PTL DEF Spec

-----------------------------------------------------------------------------
(* The slots of the antenna. *)

\* A slot that was found free is free.
SlotInv ==
    /\ NoOverlap
    /\ \A p \in Planners :
           request[p] # NoRow =>
               Conflicts(webPlan, request[p].obs, request[p].end) = {}

\* What is left of a row when r is deleted.
Left(old, r, n, t) ==
    IF old = r THEN [r EXCEPT !.id = n, !.end = t] ELSE old

\* Deleting a row makes room: its copy, if there is one, ends earlier.
LEMMA RemovingMakesRoom ==
    ASSUME NEW table \in SUBSET Rows, NEW r \in table, NEW n, NEW t \in Nat,
           NEW s \in RemovePlan(table, r, n, t)
    PROVE  \E old \in table : /\ s.obs = old.obs /\ s.end =< old.end
                              /\ s.end \in Int
                              /\ s = Left(old, r, n, t)
  <1>1. CASE s \in table \ {r}
    <2>1. s.end \in Int /\ s.end =< s.end
      BY <1>1 DEF Rows
    <2> QED
      BY <1>1, <2>1 DEF Left
  <1>2. CASE Begun(r, t) /\ s = [r EXCEPT !.id = n, !.end = t]
    <2>1. r \in Rows
      OBVIOUS
    <2>2. s.obs = r.obs /\ s.end = t
      BY <1>2, <2>1 DEF Rows
    <2>3. t =< r.end
      BY <1>2, <2>1 DEF Begun, Rows
    <2> WITNESS r \in table
    <2> QED
      BY <1>2, <2>2, <2>3 DEF Left
  <1> QED
    BY <1>1, <1>2 DEF RemovePlan

\* Each step keeps SlotInv, if there is one planner at a time.
LEMMA NextSlotInv ==
    ASSUME \A p, q \in Planners : p = q,
           TypeInv, SlotInv, [Next]_vars
    PROVE  SlotInv'
  <1>a. \A r \in webPlan : r.obs \in Int /\ r.end \in Int
    BY DEF TypeInv, Rows
  <1>b. \A p \in Planners : /\ request[p] \in Rows
                            /\ request[p].obs \in Int /\ request[p].end \in Int
    BY DEF TypeInv, Rows
  <1>1. CASE \E p \in Planners, rec \in RecTimes, end \in EndTimes :
                 CheckSlot(p, rec, end)
    <2>1. PICK p \in Planners, rec \in RecTimes, end \in EndTimes :
              CheckSlot(p, rec, end)
      BY <1>1
    <2>2. /\ webPlan' = webPlan
          /\ request' = [request EXCEPT ![p] = Row(0, rec, end)]
          /\ Conflicts(webPlan, rec - AimTime, end) = {}
      BY <2>1 DEF CheckSlot, MayPlan
    <2>3. Row(0, rec, end).obs = rec - AimTime /\ Row(0, rec, end).end = end
      BY DEF Row
    <2>4. \A q \in Planners : request'[q] = Row(0, rec, end)
      BY <2>2 DEF TypeInv
    <2> QED
      BY <2>2, <2>3, <2>4 DEF SlotInv, NoOverlap
  <1>2. CASE \E p \in Planners : InsertRow(p)
    <2>1. PICK p \in Planners : InsertRow(p)
      BY <1>2
    <2> DEFINE new == [request[p] EXCEPT !.id = lastId + 1]
    <2>2. /\ request[p] # NoRow
          /\ webPlan' = webPlan \cup {new}
          /\ request' = [request EXCEPT ![p] = NoRow]
      BY <2>1 DEF InsertRow
    <2>3. new.obs = request[p].obs /\ new.end = request[p].end
      BY <1>b DEF Rows
    <2>4. \A q \in Planners : request'[q] = NoRow
      BY <2>2 DEF TypeInv
    <2> HIDE DEF new
    <2>5. ASSUME NEW r \in webPlan
          PROVE  r.end < new.obs \/ new.end < r.obs
      <3>1. ~(r.obs =< request[p].end /\ r.end >= request[p].obs)
        BY <2>2 DEF SlotInv, Conflicts
      <3> QED
        BY <1>a, <1>b, <2>3, <3>1
    <2>6. NoOverlap'
      BY <2>2, <2>5 DEF SlotInv, NoOverlap, Disjoint
    <2> QED
      BY <2>4, <2>6 DEF SlotInv
  <1>3. CASE \E r \in webPlan : DeletePlan(r)
    <2>1. PICK r \in webPlan : DeletePlan(r)
      BY <1>3
    <2>2. /\ webPlan' = RemovePlan(webPlan, r, lastId + 1, now)
          /\ request' = request
      BY <2>1 DEF DeletePlan
    <2>3. \A s \in webPlan' :
              \E old \in webPlan : /\ s.obs = old.obs /\ s.end =< old.end
                                   /\ s.end \in Int
                                   /\ s = Left(old, r, lastId + 1, now)
      <3>1. webPlan \in SUBSET Rows /\ now \in Nat
        BY DEF TypeInv
      <3> QED
        BY <2>2, <3>1, RemovingMakesRoom
    <2>4. NoOverlap'
      <3>1. SUFFICES ASSUME NEW s \in webPlan', NEW t \in webPlan', s # t
                     PROVE  s.end < t.obs \/ t.end < s.obs
        BY DEF NoOverlap, Disjoint
      <3>2. PICK s0 \in webPlan : /\ s.obs = s0.obs /\ s.end =< s0.end
                                  /\ s.end \in Int
                                  /\ s = Left(s0, r, lastId + 1, now)
        BY <2>3
      <3>3. PICK t0 \in webPlan : /\ t.obs = t0.obs /\ t.end =< t0.end
                                  /\ t.end \in Int
                                  /\ t = Left(t0, r, lastId + 1, now)
        BY <2>3
      <3>4. s0 # t0
        BY <3>1, <3>2, <3>3
      <3>5. s0.end < t0.obs \/ t0.end < s0.obs
        BY <3>4 DEF SlotInv, NoOverlap, Disjoint
      <3> QED
        BY <1>a, <3>2, <3>3, <3>5
    <2>5. ASSUME NEW p \in Planners, request'[p] # NoRow
          PROVE  Conflicts(webPlan', request'[p].obs, request'[p].end) = {}
      <3>1. SUFFICES ASSUME NEW s \in webPlan',
                            s.obs =< request[p].end,
                            s.end >= request[p].obs
                     PROVE  FALSE
        BY <2>2 DEF Conflicts
      <3>2. PICK s0 \in webPlan : /\ s.obs = s0.obs /\ s.end =< s0.end
                                  /\ s.end \in Int
        BY <2>3
      <3>3. s0 \in Conflicts(webPlan, request[p].obs, request[p].end)
        BY <1>a, <1>b, <3>1, <3>2 DEF Conflicts
      <3> QED
        BY <2>2, <2>5, <3>3 DEF SlotInv
    <2> QED
      BY <2>4, <2>5 DEF SlotInv
  <1>4. CASE \/ Tick \/ CompareVersions \/ SelectRows
             \/ AskServer \/ UpdateDatabase \/ LoseAnswer \/ UNCHANGED vars
    <2>1. webPlan' = webPlan /\ request' = request
      BY <1>4
        DEF Tick, CompareVersions, SelectRows, AskServer, UpdateDatabase,
            LoseAnswer, vars, webVars
    <2> QED
      BY <2>1 DEF SlotInv, NoOverlap
  <1> QED
    BY <1>1, <1>2, <1>3, <1>4 DEF Next

\* No two recordings claim the antenna at the same time ("Time slot overlaps
\* with: ...", plan_to_db.php:55-72), however often recordings are planned and
\* deleted in between, if the requests to plan come one at a time: the check
\* and the INSERT are not one transaction.
THEOREM SlotsDisjoint ==
    ASSUME \A p, q \in Planners : p = q
    PROVE  Spec => []NoOverlap
  <1>1. Init => SlotInv
    BY DEF Init, SlotInv, NoOverlap, Disjoint
  <1>2. SlotInv => NoOverlap
    BY DEF SlotInv
  <1> QED
    BY <1>1, <1>2, AlwaysTypeInv, NextSlotInv, PTL DEF Spec

=============================================================================
