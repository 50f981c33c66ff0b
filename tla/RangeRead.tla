------------------------------ MODULE RangeRead ------------------------------
(* Routed exact-version reads.  A client keeps one range-map snapshot shared *)
(* by its tasks, splits a scan into single-range requests and sends each to  *)
(* the process the map names.  A process answers only for the range and the  *)
(* routing epoch it was assigned, and only at versions its view has applied. *)
(* Ranges split and move, processes die and come back empty, map sources     *)
(* answer with any version they have: a task restarts its whole scan at the  *)
(* same read version after a bounded number of refreshes.                    *)
EXTENDS Integers, Sequences, SequencesExt, FiniteSets

CONSTANTS Maps,        \* Maps[i]: the routes of map version i, in key order
          Endpoints,   \* serving processes
          Tasks,       \* concurrent reads of one client
          Operation,   \* Operation[t]: kind, start, end, limit of a task's read
          LiveKeys,    \* keys with a value at the read version
          ReadVersion, \* the version every task reads at
          MaxRefreshes,\* max_route_refreshes
          MaxDeaths    \* process deaths explored

VARIABLES published,   \* the newest map version
          assigned,    \* assigned[e]: the routes process e serves
          applied,     \* applied[e]: frontier of the views of process e
          deaths,      \* processes killed so far
          cached,      \* map version the client's tasks share
          task         \* the client's reads

readVars == <<published, assigned, applied, deaths, cached, task>>

Fresh == [at |-> "start", map |-> 0, cursor |-> 0, rows |-> << >>, refreshes |-> 0, outcome |-> "none"]

ReadInit ==
  /\ published = 1
  /\ assigned = [e \in Endpoints |-> {r \in ToSet(Maps[1]) : r.endpoint = e}]
  /\ applied = [e \in Endpoints |-> ReadVersion - 1]
  /\ deaths = 0
  /\ cached = 1
  /\ task = [t \in Tasks |-> Fresh]

-----------------------------------------------------------------------------
(* The serving processes.                                                    *)

Overlapping(a, b) == a.start < b.end /\ b.start < a.end

\* KvReadRouter assign: a local assignment never overlaps another.
assign(e, r) ==
  /\ r \in ToSet(Maps[published]) \ assigned[e]
  /\ r.endpoint = e
  /\ \A a \in assigned[e] : ~Overlapping(a, r)
  /\ assigned' = [assigned EXCEPT ![e] = @ \cup {r}]
  /\ UNCHANGED <<published, applied, deaths, cached, task>>

\* The process publishes a view that has applied the read version.
Apply(e) ==
  /\ applied[e] < ReadVersion
  /\ applied' = [applied EXCEPT ![e] = @ + 1]
  /\ UNCHANGED <<published, assigned, deaths, cached, task>>

\* A killed process comes back with no assignment.
Kill(e) ==
  /\ deaths < MaxDeaths
  /\ deaths' = deaths + 1
  /\ assigned' = [assigned EXCEPT ![e] = {}]
  /\ UNCHANGED <<published, applied, cached, task>>

PublishMap ==
  /\ published < Len(Maps)
  /\ published' = published + 1
  /\ UNCHANGED <<assigned, applied, deaths, cached, task>>

\* lookup: the assignment with the greatest start at or below the key, if it
\* reaches the key.
lookup(e, key) == {a \in assigned[e] : a.start <= key /\ key < a.end}

\* The named range and routing epoch must be the assigned ones.
serves_route(a, route) == a.range = route.range /\ a.epoch = route.epoch

\* validate_operation: one local range holds the whole interval.
validate_operation(a, end) == end <= a.end

\* execute: a typed refusal, or the rows of the interval the range holds.
execute(e, route, start, end) ==
  LET found == lookup(e, start) IN
  IF found = {} THEN "not_assigned"
  ELSE LET a == CHOOSE x \in found : TRUE IN
       CASE ~serves_route(a, route)      -> "stale_route"
         [] ~validate_operation(a, end)  -> "crosses"
         [] applied[e] < ReadVersion     -> "unavailable"
         [] OTHER                        -> "rows"

Held(e, start, end) ==
  {k \in LiveKeys : start <= k /\ k < end /\ \E a \in lookup(e, start) : k < a.end}

\* scan_at of the view: the first rows of the interval in key order.
First(S, limit) ==
  LET all == SetToSortSeq(S, <) IN SubSeq(all, 1, IF Len(all) < limit THEN Len(all) ELSE limit)

-----------------------------------------------------------------------------
(* The client.                                                               *)

route_retryable(error) == error \in {"stale_route", "not_assigned", "crosses"}

set_task(t, record) == task' = [task EXCEPT ![t] = record]
finish(t, outcome) == set_task(t, [task[t] EXCEPT !.at = "done", !.outcome = outcome])

\* An attempt that resumes with the rows of the abandoned one.
restart_keeping_rows(t) == task[t].rows
restart(t) == << >>

\* An attempt works on one map snapshot, from the start of its interval.
BeginAttempt(t) ==
  /\ task[t].at = "start"
  /\ set_task(t, [task[t] EXCEPT !.at = "request", !.map = cached,
                  !.cursor = Operation[t].start, !.rows = restart(t)])
  /\ UNCHANGED <<published, assigned, applied, deaths, cached>>

route(map, key) == {r \in ToSet(Maps[map]) : r.start <= key /\ key < r.end}

\* The cursor entered a gap of the map.
RouteNotFound(t) ==
  /\ task[t].at = "request"
  /\ route(task[t].map, task[t].cursor) = {}
  /\ finish(t, "route_not_found")
  /\ UNCHANGED <<published, assigned, applied, deaths, cached>>

Request(t) ==
  LET op == Operation[t]
      here == task[t]
      r == CHOOSE x \in route(here.map, here.cursor) : TRUE
      sub_end == IF r.end < op.end THEN r.end ELSE op.end
      remaining == op.limit - Len(here.rows)
      reply == execute(r.endpoint, r, here.cursor, sub_end)
      rows == here.rows \o First(Held(r.endpoint, here.cursor, sub_end), remaining)
  IN
  /\ here.at = "request"
  /\ route(here.map, here.cursor) # {}
  /\ CASE reply = "rows" /\ (sub_end >= op.end \/ Len(rows) >= op.limit) ->
            set_task(t, [here EXCEPT !.at = "done", !.outcome = "rows", !.rows = rows])
       [] reply = "rows"        -> set_task(t, [here EXCEPT !.cursor = sub_end, !.rows = rows])
       [] route_retryable(reply) -> set_task(t, [here EXCEPT !.at = "refresh"])
       [] OTHER                 -> finish(t, "server")
  /\ UNCHANGED <<published, assigned, applied, deaths, cached>>

\* The endpoint is unreachable, the deadline passes or the reply is lost.
Transport(t) ==
  /\ task[t].at = "request"
  /\ route(task[t].map, task[t].cursor) # {}
  /\ set_task(t, [task[t] EXCEPT !.at = "refresh"])
  /\ UNCHANGED <<published, assigned, applied, deaths, cached>>

\* The process is at its in-flight limit: a refusal that is not retried.
Overloaded(t) ==
  /\ task[t].at = "request"
  /\ route(task[t].map, task[t].cursor) # {}
  /\ finish(t, "server")
  /\ UNCHANGED <<published, assigned, applied, deaths, cached>>

\* A refresh that installs whatever newer map its own attempt did not have.
newer_than_attempt(t, refreshed) == refreshed
newer_than_cached(t, refreshed) == IF refreshed > cached THEN refreshed ELSE cached

\* refresh_or_limit: the source answers with some version it has.
refresh_or_limit(t, refreshed) ==
  /\ task[t].at = "refresh"
  /\ refreshed \in 1 .. published
  /\ IF task[t].refreshes = MaxRefreshes
     THEN finish(t, "refresh_limit") /\ UNCHANGED cached
     ELSE IF refreshed <= task[t].map
          THEN finish(t, "did_not_advance") /\ UNCHANGED cached
          ELSE /\ cached' = newer_than_cached(t, refreshed)
               /\ set_task(t, [task[t] EXCEPT !.at = "start", !.refreshes = @ + 1])
  /\ UNCHANGED <<published, assigned, applied, deaths>>

RefreshFailed(t) ==
  /\ task[t].at = "refresh"
  /\ finish(t, "refresh_failed")
  /\ UNCHANGED <<published, assigned, applied, deaths, cached>>

TaskNext(t) ==
  \/ BeginAttempt(t) \/ RouteNotFound(t) \/ Request(t) \/ Transport(t) \/ Overloaded(t)
  \/ RefreshFailed(t) \/ \E v \in 1 .. Len(Maps) : refresh_or_limit(t, v)

ProcessNext(e) ==
  \/ Apply(e) \/ Kill(e) \/ \E i \in 1 .. Len(Maps) : \E r \in ToSet(Maps[i]) : assign(e, r)

ReadNext == PublishMap \/ (\E e \in Endpoints : ProcessNext(e)) \/ (\E t \in Tasks : TaskNext(t))

ReadSpec == ReadInit /\ [][ReadNext]_readVars

-----------------------------------------------------------------------------
(* Properties.                                                               *)

(* A scan that succeeds returned the first rows of its whole interval at the *)
(* requested version, each once and in order, whatever splits, moves, deaths *)
(* and refreshes happened while it ran: KvReadClient scan_at and point_at.   *)
ScanExact ==
  \A t \in Tasks : task[t].outcome = "rows" =>
    task[t].rows = First({k \in LiveKeys : Operation[t].start <= k /\ k < Operation[t].end}, Operation[t].limit)

(* The shared map snapshot never goes back to an older version, although     *)
(* tasks refresh concurrently and a source may answer late: refresh_or_limit *)
MapAdvances == cached' >= cached

\* The same of every step.
MapNeverRetreats == [][MapAdvances]_readVars

=============================================================================
