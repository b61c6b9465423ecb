---------------------------- MODULE PlanDatabase ----------------------------
(***************************************************************************)
(* The table `plan' of web_server/web_db_schema.sql and what               *)
(* plan_to_db.php and delete_plan.php do to it, as operators from a table  *)
(* to a table.  A row has                                                  *)
(*   id   the key (AUTOINCREMENT: an id is never used twice)               *)
(*   obs  obs_start_time, when the antenna begins to aim                   *)
(*   rec  rec_start_time                                                   *)
(*   end  end_time                                                         *)
(* The name of the object and the flag `record' are left out: no decision  *)
(* about the plan looks at them.                                           *)
(***************************************************************************)
EXTENDS Integers, FiniteSets

CONSTANTS AimTime,    \* 600 s from the start of observation to the recording
          PlanAhead   \* 5*60 s, the least time to plan ahead

ASSUME PlanTimesAssumption == AimTime \in Nat /\ PlanAhead \in Nat

Row(id, rec, end) ==
    [id |-> id, obs |-> rec - AimTime, rec |-> rec, end |-> end]

Ids(table) == {r.id : r \in table}

\* Mutant: only the start of the new interval is compared.
ConflictsAtStart(table, obs, end) == {r \in table : r.obs <= obs /\ r.end >= obs}

\* The rows the check of plan_to_db.php finds in the way: intervals include
\* the aiming time and both their ends.
Conflicts(table, obs, end) == {r \in table : r.obs <= end /\ r.end >= obs}

\* plan_to_db.php: a recording may be planned.
MayPlan(table, now, rec, end) ==
    /\ rec - AimTime >= now + PlanAhead
    /\ Conflicts(table, rec - AimTime, end) = {}

\* The test of delete_plan.php: "if recording active".
Begun(r, now) == r.obs <= now /\ now < r.end

\* delete_plan.php: a recording that has begun leaves a copy under a new id
\* that ends now.
RemovePlan(table, r, newId, now) ==
    (table \ {r})
        \cup {s \in {[r EXCEPT !.id = newId, !.end = now]} : Begun(r, now)}

\* No two recordings need the antenna at the same time.
Disjoint(table) ==
    \A r, s \in table : r # s => r.end < s.obs \/ s.end < r.obs

=============================================================================
