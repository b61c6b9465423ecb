----------------------------- MODULE Visibility -----------------------------
(***************************************************************************)
(* From the sky to the plan: gen_obs_json.py computes in which windows of  *)
(* a day a target can be observed, process.php keeps them in the table     *)
(* `visibility' and answers requests out of it, and what has been answered *)
(* is planned with plan_to_db.php, by the daily script for the sun         *)
(* (daily_sun_plan.sh) or by a user with two sliders (script.js).          *)
(*                                                                         *)
(* A request is a process; its SELECTs and INSERTs are transactions of     *)
(* their own, and the Python program runs in between.  There is one date,  *)
(* of Day minutes, and the next day looks like it.  plan_to_db.php is one  *)
(* step here; PlanSync has its two.                                        *)
(***************************************************************************)
EXTENDS PlanDatabase, Sequences, FiniteSetsExt

CONSTANTS Requests,   \* processes of process.php
          Script,     \* the one that daily_sun_plan.sh asks
          Targets, Sun,
          Day,        \* 24 * 60
          Skies,      \* what may be visible
          Wanted,     \* what a user may ask for: sequences of targets
          Faults,     \* "compute": the program fails, or does not know a target
          Now,        \* when things are planned
          MaxId       \* BOUND on rows of the plan

ASSUME VisibilityAssumption ==
    /\ Script \in Requests /\ Sun \in Targets
    /\ Day \in Nat \ {0}
    /\ Skies \subseteq [Targets -> [0 .. Day -> BOOLEAN]]
    /\ Wanted \subseteq Seq(Targets)
    /\ Faults \subseteq {"compute", "insert"}
    /\ Now \in Int /\ MaxId \in Nat

\* The sun is not up around midnight.  No target comes into view at 24:00
\* sharp: its last window would begin at "00:00".
ASSUME SkyAssumption ==
    \A sky \in Skies :
        /\ ~sky[Sun][0] /\ ~sky[Sun][Day - 1] /\ ~sky[Sun][Day]
        /\ \A t \in Targets : sky[t][Day] => sky[t][Day - 1]

VARIABLES
    visible,          \* the sky: per target, in which minutes
    cache,            \* the table `visibility' of the date, in order of ids
    pc, wanted,       \* of each request
    left,             \* the targets still to be looked up
    cachedResults,    \* windows found, per target
    computedResults,
    toInsert,         \* rows still to be stored
    plan,             \* the table `plan'
    planned           \* history: the target of each row of the plan

requestVars == <<pc, wanted, left, cachedResults, computedResults, toInsert>>
planVars == <<plan, planned>>
vars == <<visible, cache, requestVars, planVars>>

-----------------------------------------------------------------------------
(* Order. *)

\* The elements of S in the order Before, a set of pairs: the k-th has k - 1
\* before it. 
InOrder(S, Before) ==
    [k \in 1 .. Cardinality(S) |->
        CHOOSE x \in S : Cardinality({y \in S : <<y, x>> \in Before}) = k - 1]

Smaller(S) == {p \in S \X S : p[1] < p[2]}

-----------------------------------------------------------------------------
(* gen_obs_json.py *)

\* The minute as "%H:%M".
Clock(m) == m % Day

Starts(sky) == {m \in 0 .. Day : sky[m] /\ (m = 0 \/ ~sky[m - 1])}

\* Mutant: a window that is open at the end of the day is not closed.
ClosedWindows(sky) ==
    LET ends(m) == {e \in m .. Day : ~sky[e]}
        closed == {m \in Starts(sky) : ends(m) # {}}
        order == InOrder(closed, Smaller(closed))
    IN  [k \in DOMAIN order |->
            [start |-> order[k], end |-> Min(ends(order[k]))]]

\* "Logical window extraction"
EndOf(sky, m) == Min({e \in m .. Day : ~sky[e]} \cup {Day})

Windows(sky) ==
    LET order == InOrder(Starts(sky), Smaller(Starts(sky)))
    IN  [k \in DOMAIN order |->
            [start |-> order[k], end |-> EndOf(sky, order[k])]]

Window(from, to) == [start |-> Clock(from), end |-> Clock(to)]
Clocked(w) == [k \in DOMAIN w |-> Window(w[k].start, w[k].end)]

\* Mutant: first and last are merged whenever there are two.
MergedWindows(sky) ==
    LET w == Windows(sky)
        n == Len(w)
    IN  IF n > 1
        THEN Append(Clocked(SubSeq(w, 2, n - 1)), Window(w[n].start, w[1].end))
        ELSE Clocked(w)

\* "Merge overnight windows (connect end-of-day to start-of-day)"; nothing
\* ("No visibility") is the empty sequence.
OutWindows(sky) ==
    LET w == Windows(sky)
        n == Len(w)
    IN  IF n > 1 /\ sky[0] /\ sky[Day]
        THEN Append(Clocked(SubSeq(w, 2, n - 1)), Window(w[n].start, w[1].end))
        ELSE Clocked(w)

-----------------------------------------------------------------------------
(* process.php *)

Nothing == [t \in Targets |-> <<>>]

Goto(r, label) == pc' = [pc EXCEPT ![r] = label]

Ask(r, targets) ==
    /\ pc[r] = "idle" \/ (pc[r] = "answered" /\ r # Script)
    /\ wanted' = [wanted EXCEPT ![r] = targets]
    /\ left' = [left EXCEPT ![r] = targets]
    /\ cachedResults' = [cachedResults EXCEPT ![r] = Nothing]
    /\ computedResults' = [computedResults EXCEPT ![r] = Nothing]
    /\ Goto(r, "select")
    /\ UNCHANGED <<visible, cache, toInsert, planVars>>

\* The rows of a target are the ids of its windows.
CachedRows(t) == {id \in DOMAIN cache : cache[id].target = t}
WindowsOf(ids) == [k \in DOMAIN ids |-> cache[ids[k]].window]

\* Mutant: there is no ORDER BY.
CachedUnordered(t) == WindowsOf(InOrder(CachedRows(t), Smaller(CachedRows(t))))

\* SELECT ... ORDER BY start_time
ByStart(ids) ==
    {p \in ids \X ids :
        LET a == cache[p[1]].window.start
            b == cache[p[2]].window.start
        IN  a < b \/ (a = b /\ p[1] < p[2])}

CachedWindows(t) == WindowsOf(InOrder(CachedRows(t), ByStart(CachedRows(t))))

\* One SELECT per target.
LookUp(r) ==
    /\ pc[r] = "select" /\ left[r] # <<>>
    /\ LET t == Head(left[r])
       IN  cachedResults' = [cachedResults EXCEPT ![r][t] = CachedWindows(t)]
    /\ left' = [left EXCEPT ![r] = Tail(@)]
    /\ UNCHANGED <<visible, cache, pc, wanted, computedResults, toInsert,
                   planVars>>

\* Those of the wanted targets for which there was no row.
ToCompute(r) == {k \in DOMAIN wanted[r] : cachedResults[r][wanted[r][k]] = <<>>}

\* Everything was in the table.
AllCached(r) ==
    /\ pc[r] = "select" /\ left[r] = <<>> /\ ToCompute(r) = {}
    /\ Goto(r, "answered")
    /\ UNCHANGED <<visible, cache, wanted, left, cachedResults, computedResults,
                   toInsert, planVars>>

\* The order in which the answer of gen_obs_json.py is gone through: solar
\* targets, then the others; the windows of each from the first on.  A place is
\* the number of a target and that of a window.
SolarFirst(r, places) ==
    {p \in places \X places :
        LET later(k) == wanted[r][k] # Sun
            a == p[1]
            b == p[2]
        IN  \/ ~later(a[1]) /\ later(b[1])
            \/ /\ later(a[1]) <=> later(b[1])
               /\ a[1] < b[1] \/ (a[1] = b[1] /\ a[2] < b[2])}

\* The program, for all targets that are missing.
Compute(r) ==
    /\ pc[r] = "select" /\ left[r] = <<>> /\ ToCompute(r) # {}
    /\ LET missing == {wanted[r][k] : k \in ToCompute(r)}
       IN  \E found \in SUBSET missing :
             /\ "compute" \notin Faults => found = missing
             /\ computedResults' =
                    [computedResults EXCEPT ![r] =
                        [t \in Targets |->
                            IF t \in found THEN OutWindows(visible[t]) ELSE <<>>]]
    /\ LET windows(k) == computedResults'[r][wanted[r][k]]
           places == UNION {{k} \X DOMAIN windows(k) : k \in ToCompute(r)}
           order == InOrder(places, SolarFirst(r, places))
       IN  toInsert' = [toInsert EXCEPT ![r] =
               [i \in DOMAIN order |->
                   [target |-> wanted[r][order[i][1]],
                    window |-> windows(order[i][1])[order[i][2]]]]]
    /\ Goto(r, "store")
    /\ UNCHANGED <<visible, cache, wanted, left, cachedResults, planVars>>

\* One INSERT per window.  One that fails is logged, and the next one tried.
Store(r) ==
    /\ pc[r] = "store" /\ toInsert[r] # <<>>
    /\ \/ cache' = Append(cache, Head(toInsert[r]))
       \/ "insert" \in Faults /\ UNCHANGED cache
    /\ toInsert' = [toInsert EXCEPT ![r] = Tail(@)]
    /\ UNCHANGED <<visible, pc, wanted, left, cachedResults, computedResults,
                   planVars>>

Stored(r) ==
    /\ pc[r] = "store" /\ toInsert[r] = <<>>
    /\ Goto(r, "answered")
    /\ UNCHANGED <<visible, cache, wanted, left, cachedResults, computedResults,
                   toInsert, planVars>>

\* What the client gets: cached windows first.
Answer(r, t) ==
    IF cachedResults[r][t] # <<>> THEN cachedResults[r][t]
                                  ELSE computedResults[r][t]

-----------------------------------------------------------------------------
(* The plan. *)

Insert(t, rec, end) ==
    LET id == Cardinality(plan) + 1
    IN  /\ id <= MaxId
        /\ MayPlan(plan, Now, rec, end)
        /\ plan' = plan \cup {Row(id, rec, end)}
        /\ planned' = [planned EXCEPT ![id] = t]

\* daily_sun_plan.sh: "first window for Sun", both ends on the same date.
PlanSun ==
    /\ pc[Script] = "answered"
    /\ Answer(Script, Sun) # <<>>
    /\ LET first == Head(Answer(Script, Sun))
       IN  Insert(Sun, first.start, first.end)
    /\ Goto(Script, "done")
    /\ UNCHANGED <<visible, cache, wanted, left, cachedResults, computedResults,
                   toInsert>>

\* script.js: any part of a window; one that ends before it starts goes on
\* until the next day.
PlanWindow(r, t, w) ==
    /\ pc[r] = "answered" /\ r # Script
    /\ LET last == IF w.end < w.start THEN w.end + Day ELSE w.end
       IN  \E from \in w.start .. last : \E to \in from .. last :
               Insert(t, from, to)
    /\ UNCHANGED <<visible, cache, requestVars>>

\* script.js: an answer that is no list of windows ("No visibility", "Target not
\* found") becomes one without times, a slider from 0:00 to 0:00 that may be
\* planned as well: a recording of no length.
PlanNothing(r, t) ==
    /\ pc[r] = "answered" /\ r # Script
    /\ t \in Range(wanted[r]) /\ Answer(r, t) = <<>>
    /\ Insert(t, 0, 0)
    /\ UNCHANGED <<visible, cache, requestVars>>

-----------------------------------------------------------------------------
(* The specification. *)

Init ==
    /\ visible \in Skies
    /\ cache = <<>>
    /\ pc = [r \in Requests |-> "idle"]
    /\ wanted = [r \in Requests |-> <<>>] /\ left = [r \in Requests |-> <<>>]
    /\ cachedResults = [r \in Requests |-> Nothing]
    /\ computedResults = [r \in Requests |-> Nothing]
    /\ toInsert = [r \in Requests |-> <<>>]
    /\ plan = {} /\ planned = [id \in 1 .. MaxId |-> Sun]

User(r) ==
    /\ r # Script
    /\ \/ \E targets \in Wanted : Ask(r, targets)
       \/ \E t \in Targets : \E w \in Range(Answer(r, t)) : PlanWindow(r, t, w)
       \/ \E t \in Targets : PlanNothing(r, t)

Next ==
    \/ Ask(Script, <<Sun>>) \/ PlanSun
    \/ \E r \in Requests :
          User(r) \/ LookUp(r) \/ AllCached(r) \/ Compute(r) \/ Store(r) \/ Stored(r)

Spec == Init /\ [][Next]_vars

-----------------------------------------------------------------------------
(* Properties. *)

\* A window that does not end after its start goes over midnight.
Inside(m, w) ==
    IF w.start < w.end THEN w.start <= m /\ m < w.end
                       ELSE w.start <= m \/ m < w.end

\* A request gets only windows in which its target can be observed, in the
\* order of their starts and from the first one on: the script takes the first
\* for the day's (daily_sun_plan.sh:20).  That holds also while another request
\* is storing the same windows, one by one or a second time.
AnswersTrue ==
    \A r \in Requests : pc[r] = "answered" =>
        \A t \in Range(wanted[r]) :
            LET answer == Answer(r, t)
            IN  /\ \A k \in DOMAIN answer, m \in 0 .. Day - 1 :
                       Inside(m, answer[k]) => visible[t][m]
                /\ \A k \in 2 .. Len(answer) :
                       answer[k - 1].start <= answer[k].start
                /\ answer # <<>> =>
                       answer[1] = OutWindows(visible[t])[1]

\* When no request is storing windows, a target is not in the table or its
\* windows there are the minutes in which it is visible, all of them: what is
\* cached is never computed again.
CacheWhole ==
    (\A r \in Requests : toInsert[r] = <<>>) =>
        \A t \in Targets : CachedRows(t) # {} =>
            \A m \in 0 .. Day - 1 :
                visible[t][m] <=>
                    \E id \in CachedRows(t) : Inside(m, cache[id].window)

\* What has been planned, by the script or by a user, can be observed from its
\* first to its last minute.  A recording of no length has no minute: of a
\* target that is not visible nothing else can be planned.
PlannedIsVisible ==
    \A row \in plan :
        /\ row.rec <= row.end
        /\ \A m \in row.rec .. row.end - 1 :
               visible[planned[row.id]][m % Day]

=============================================================================
