--------------------------- MODULE PostgresBridge ---------------------------
(* The mutable PostgreSQL storage-manager bridge                             *)
(* (okv-postgres/src/smgr_write_service.rs) over one durable range           *)
(* (smgr_durable.rs) and its stable-root publisher (smgr_stable.rs).         *)
(*                                                                           *)
(* A page write commits in the Cell, is appended to every tagged-log set and *)
(* only then answered.  A background objectifier turns the certified suffix  *)
(* into immutable delta segments; a stable request activates the newest      *)
(* segment, selects a stable root at the publication authority and pops the  *)
(* logs through the root's object frontier.  The process can be killed       *)
(* between any two of those effects, and requests to log nodes can be lost.  *)
(*                                                                           *)
(* Versions: the range is bootstrapped at version 0; commit i of the Cell is *)
(* version i.  Every page command reads and writes the extent key, so two    *)
(* commits prepared at one version conflict.  A certificate is the pair of a *)
(* log set and the position it certifies.                                    *)
EXTENDS Integers, Sequences, FiniteSets, SequencesExt, FiniteSetsExt

CONSTANTS
  Sets,        \* tagged-log sets, in the order of required_log_sets
  Nodes,       \* processes of one set (LOG_NODES)
  Requests,    \* caller-stable identities of page writes
  Lsns,        \* page LSNs and WAL flush positions
  Syncs,       \* concurrent stable requests
  MaxCrashes,  \* kills of the bridge
  MaxFaults,   \* lost log requests and failed reader builds
  NULL

VARIABLES
  cell,        \* committed page writes: [req, rv, lsn]
  refused,     \* identities whose retained outcome is a conflict
  logs,        \* [Sets -> [Nodes -> retained entries and watermarks]]
  root,        \* postgres-root.json: the active delta lineage, or NULL
  segments,    \* delta objects in the object root
  stable,      \* stable root selected by the publication authority, or NULL
  bridge,      \* the process: MutableBridgeState and DurablePostgresRange
  queue,       \* ObjectificationQueue and what the runner holds
  writing,     \* the write that holds the bridge mutex, or NULL
  syncing,     \* [Syncs -> progress of a stable request]
  acked,       \* versions answered with RESPONSE_OK
  crashes, faults

disk == <<cell, refused, logs, root, segments, stable>>
vars == <<cell, refused, logs, root, segments, stable, bridge, queue,
          writing, syncing, acked, crashes, faults>>

Quorum == (Cardinality(Nodes) \div 2) + 1
SetOrder == SetToSortSeq(Sets, <)
Holds(n, s, entry) == entry \in logs[s][n].recs

EmptyQueue == [active |-> FALSE, running |-> NULL, pending |-> NULL,
               ready |-> NULL]
Down == [up |-> FALSE]
Idle == [pc |-> "idle"]

\* The version through which a delta lineage covers the range.
object_frontier(deltas) == IF deltas = <<>> THEN 0 ELSE Last(deltas).through

\* Highest page LSN of the rows at version v (the bootstrap pages have LSN 0).
maximum_page_lsn(v) == Max({0} \cup {cell[i].lsn : i \in 1..v})

RecordsOf(deltas) == FlattenSeq([i \in DOMAIN deltas |-> deltas[i].recs])

(***************************************************************************)
(* Opening the durable range.                                              *)
(***************************************************************************)
\* Positions any node of the set still feeds above the object frontier.
Fed(s, after) ==
  {e \in UNION {logs[s][n].recs : n \in Nodes} : e.ver > after}

Agreed(s, e) == Cardinality({n \in Nodes : Holds(n, s, e)}) >= Quorum

\* certified_tail refuses a set in which some fed position has no quorum; two
\* positions of one version each contribute their certificate.
tail_agreed(after) == \A s \in Sets : \A e \in Fed(s, after) : Agreed(s, e)

certified_tail(after) ==
  LET versions == UNION {{e.ver : e \in Fed(s, after)} : s \in Sets}
      certs(v) == {<<s, e.pos>> : s \in Sets,
                   e \in UNION {{f \in Fed(t, after) : f.ver = v} : t \in Sets}}
      held(v)  == {c \in certs(v) : [pos |-> c[2], ver |-> v] \in Fed(c[1], after)}
      order    == SetToSortSeq(versions, <)
  IN [i \in DOMAIN order |-> [ver |-> order[i], certs |-> held(order[i])]]

\* A view opens only over a chain of records each certified exactly once by
\* every required set.
exactly_certified(rec) ==
  \A s \in Sets : Cardinality({c \in rec.certs : c[1] = s}) = 1

opens(recs) ==
  /\ \A i \in DOMAIN recs : recs[i].ver = i
  /\ \A i \in DOMAIN recs : exactly_certified(recs[i])

\* The unique value a quorum of the set reports, if there is one.
QuorumValue(s, f(_)) ==
  {x \in {f(logs[s][n]) : n \in Nodes} :
     Cardinality({n \in Nodes : f(logs[s][n]) = x}) >= Quorum}

last_position(m) == m.last
popped_through(m) == m.popped
quorum_last_position(s) == QuorumValue(s, last_position)
common_popped_through(s) == QuorumValue(s, popped_through)

\* The lineage of the descriptor is stored in full.
lineage_loads(deltas) == ToSet(deltas) \subseteq segments

tail_of(recs, after, through) ==
  SelectSeq(recs, LAMBDA r : r.ver > after /\ r.ver <= through)

\* A stable root selected earlier is authenticated against the open range.
archived_valid(st, recs) ==
  LET frontier == object_frontier(st.deltas)
      tail     == tail_of(recs, frontier, st.target)
  IN /\ lineage_loads(st.deltas)
     /\ tail = st.tail
     /\ (IF tail = <<>> THEN frontier ELSE Last(tail).ver) = st.target

can_open ==
  /\ root # NULL
  /\ lineage_loads(root)
  /\ LET after == object_frontier(root)
         tail  == certified_tail(after)
         recs  == RecordsOf(root) \o tail
     IN /\ \A s \in Sets : quorum_last_position(s) # {}
        /\ tail_agreed(after)
        /\ \A s \in Sets : /\ common_popped_through(s) # {}
                           /\ \A p \in common_popped_through(s) : p <= after
        /\ opens(recs)
        /\ stable # NULL => archived_valid(stable, recs)

Bootstrap ==
  /\ ~bridge.up /\ root = NULL
  /\ root' = <<>>
  /\ bridge' = [up |-> TRUE, ver |-> 0, base |-> 0, deltas |-> <<>>,
                recs |-> <<>>, target |-> 0, next |-> [s \in Sets |-> 1]]
  /\ UNCHANGED <<cell, refused, logs, segments, stable, queue, writing,
                 syncing, acked, crashes, faults>>

\* recovered_existing: the descriptor, its segments and the certified tail.
\* The Cell is an external authority that is never behind the logs.
Recover ==
  /\ ~bridge.up /\ can_open
  /\ LET tail   == certified_tail(object_frontier(root))
         target == IF tail = <<>> THEN object_frontier(root)
                                  ELSE Last(tail).ver
     IN bridge' = [up |-> TRUE, ver |-> target, base |-> object_frontier(root),
                   deltas |-> root, recs |-> tail, target |-> target,
                   next |-> [s \in Sets |->
                               1 + (CHOOSE p \in quorum_last_position(s) : TRUE)]]
  /\ UNCHANGED <<disk, queue, writing, syncing, acked, crashes, faults>>

\* Everything in memory is lost; in-flight requests get no answer.
Killed ==
  /\ bridge' = Down
  /\ queue' = EmptyQueue
  /\ writing' = NULL
  /\ syncing' = [t \in Syncs |-> Idle]
  /\ crashes' = crashes + 1

Crash ==
  /\ bridge.up /\ crashes < MaxCrashes
  /\ Killed
  /\ UNCHANGED <<disk, acked, faults>>

(***************************************************************************)
(* serve_write: the bridge mutex is held from validation to the reply.     *)
(***************************************************************************)
locked == writing # NULL \/ \E t \in Syncs : syncing[t].pc \in {"publish", "pop"}

committed_at(req) == {i \in DOMAIN cell : cell[i].req = req}

\* admit_postgres_page_write: the WAL is durable through every page LSN.
admitted(lsn, wal) == lsn <= wal

\* The Cell's answer to the command prepared at version rv: the retained
\* outcome for a known identity with the same bytes, a conflict when the extent
\* was written after rv, else a new commit.
outcome(req, lsn, rv) ==
  CASE \E i \in committed_at(req) : cell[i] = [req |-> req, rv |-> rv, lsn |-> lsn]
         -> "replayed"
    [] committed_at(req) # {} \/ req \in refused -> "refused"
    [] rv < Len(cell) -> "conflict"
    [] OTHER -> "committed"

BeginWrite(req, lsn, wal) ==
  /\ bridge.up /\ ~locked
  /\ admitted(lsn, wal)
  /\ LET answer == outcome(req, lsn, bridge.ver)
     IN \/ /\ answer = "committed"
           /\ cell' = Append(cell, [req |-> req, rv |-> bridge.ver, lsn |-> lsn])
           /\ writing' = [ver |-> Len(cell) + 1, sets |-> SetOrder, certs |-> {}]
           /\ UNCHANGED refused
        \/ /\ answer = "replayed"
           /\ writing' = [ver |-> CHOOSE i \in committed_at(req) : TRUE,
                          sets |-> SetOrder, certs |-> {}]
           /\ UNCHANGED <<cell, refused>>
        \/ /\ answer = "conflict"
           /\ refused' = refused \cup {req}
           /\ UNCHANGED <<cell, writing>>
  /\ UNCHANGED <<logs, root, segments, stable, bridge, queue, syncing, acked,
                 crashes, faults>>

\* One node of a set after the append request reached it.
node_append(m, e) ==
  IF e.pos = m.last + 1
  THEN [m EXCEPT !.recs = @ \cup {e}, !.last = e.pos]
  ELSE m

delivered(s, e, D) ==
  [logs EXCEPT ![s] = [n \in Nodes |-> IF n \in D THEN node_append(@[n], e) ELSE @[n]]]

\* Envelopes at or below the durable target are only compared; the chain is
\* checked before anything is appended.  It is never broken here: a write prepared
\* behind the Cell's last version is a conflict and has no envelope.
already_durable == writing.ver <= bridge.target
chained == writing.ver = bridge.target + 1

\* append_and_open for the next set: every node is asked; a node counts when it
\* appends now or already retains the exact record.
AppendSet(D) ==
  /\ writing # NULL /\ writing.sets # <<>> /\ ~already_durable /\ chained
  /\ LET s    == Head(writing.sets)
         e    == [pos |-> bridge.next[s], ver |-> writing.ver]
         acks == {n \in Nodes : e \in delivered(s, e, D)[s][n].recs}
     IN /\ logs' = delivered(s, e, D)
        /\ \/ /\ Cardinality(acks) >= Quorum
              /\ bridge' = [bridge EXCEPT !.next[s] = @ + 1]
              /\ writing' = [writing EXCEPT !.sets = Tail(@),
                                            !.certs = @ \cup {<<s, e.pos>>}]
           \/ /\ Cardinality(acks) < Quorum
              /\ writing' = NULL
              /\ UNCHANGED bridge
  /\ D # Nodes => faults < MaxFaults
  /\ faults' = IF D = Nodes THEN faults ELSE faults + 1
  /\ UNCHANGED <<cell, refused, root, segments, stable, queue, syncing, acked, crashes>>

\* The bridge is killed while some nodes of the set have the record.
AppendKilled(D) ==
  /\ writing # NULL /\ writing.sets # <<>> /\ ~already_durable /\ chained
  /\ crashes < MaxCrashes
  /\ LET s == Head(writing.sets)
     IN logs' = delivered(s, [pos |-> bridge.next[s], ver |-> writing.ver], D)
  /\ Killed
  /\ UNCHANGED <<cell, refused, root, segments, stable, acked, faults>>

with_record ==
  IF already_durable THEN bridge
  ELSE [bridge EXCEPT !.recs = Append(@, [ver |-> writing.ver, certs |-> writing.certs]),
                      !.target = writing.ver]

\* The fresh view is served and the write answered ...
FinishWrite ==
  /\ writing # NULL /\ (already_durable \/ writing.sets = <<>>)
  /\ bridge' = [with_record EXCEPT !.ver = writing.ver]
  /\ acked' = acked \cup {writing.ver}
  /\ writing' = NULL
  /\ UNCHANGED <<disk, queue, syncing, crashes, faults>>

\* ... or building its reader fails after the log holds the record.
FailReader ==
  /\ writing # NULL /\ (already_durable \/ writing.sets = <<>>)
  /\ faults < MaxFaults
  /\ bridge' = with_record
  /\ writing' = NULL
  /\ faults' = faults + 1
  /\ UNCHANGED <<disk, queue, syncing, acked, crashes>>

(***************************************************************************)
(* The objectifier: one runner, at most one pending capture, one ready     *)
(* delta.                                                                  *)
(***************************************************************************)
version_of(c) == IF c = NULL THEN {} ELSE {c.through}
newest_known == UNION {version_of(queue.running), version_of(queue.pending),
                       version_of(queue.ready)}

objectification_schedule(v) ==
  CASE \E k \in newest_known : k >= v -> "Ignore"
    [] ~queue.active                  -> "StartRunner"
    [] queue.pending # NULL           -> "ReplacePending"
    [] OTHER                          -> "Queue"

enqueued(capture) ==
  IF capture = NULL \/ objectification_schedule(capture.through) = "Ignore"
  THEN queue
  ELSE [queue EXCEPT !.active = TRUE, !.pending = capture]

\* Captured at the durable frontier, above the last delta.
object_delta_plan ==
  [after |-> object_frontier(bridge.deltas), through |-> bridge.ver,
   recs |-> bridge.recs, lineage |-> bridge.deltas]
plan_allowed ==
  /\ bridge.ver = bridge.target
  /\ bridge.ver > object_frontier(bridge.deltas)
  /\ bridge.recs # <<>>

NextCapture ==
  /\ bridge.up /\ queue.active /\ queue.running = NULL
  /\ queue' = IF queue.pending = NULL
              THEN [queue EXCEPT !.active = FALSE]
              ELSE [queue EXCEPT !.running = queue.pending, !.pending = NULL]
  /\ UNCHANGED <<disk, bridge, writing, syncing, acked, crashes, faults>>

is_superseded == queue.pending # NULL /\ queue.pending.through > queue.running.through

segment(c) == [after |-> c.after, through |-> c.through, recs |-> c.recs]

\* materialize writes the immutable segment, complete offers it.
Objectify ==
  /\ bridge.up /\ queue.running # NULL
  /\ IF is_superseded
     THEN /\ queue' = [queue EXCEPT !.running = NULL]
          /\ UNCHANGED segments
     ELSE /\ segments' = segments \cup {segment(queue.running)}
          /\ queue' = [queue EXCEPT !.running = NULL,
                         !.ready = IF @ = NULL \/ @.through < queue.running.through
                                   THEN queue.running ELSE @]
  /\ UNCHANGED <<cell, refused, logs, root, stable, bridge, writing, syncing,
                 acked, crashes, faults>>

\* take_latest drops a delta the active base already covers.
taken(base, target) ==
  IF queue.ready # NULL /\ queue.ready.through > base /\ queue.ready.through <= target
  THEN queue.ready ELSE NULL
left(base, target) ==
  IF queue.ready # NULL /\ (queue.ready.through <= base \/ queue.ready.through <= target)
  THEN [queue EXCEPT !.ready = NULL] ELSE queue

(***************************************************************************)
(* serve_stable.                                                           *)
(***************************************************************************)
\* First critical section: the target, the capture, then the mutex is dropped.
BeginStable(t, wal) ==
  /\ bridge.up /\ ~locked /\ syncing[t].pc = "idle"
  /\ wal >= maximum_page_lsn(bridge.ver)
  /\ bridge.ver > bridge.base => plan_allowed
  /\ syncing' = [syncing EXCEPT ![t] =
       [pc |-> "enqueue", target |-> bridge.ver, base |-> bridge.base, wal |-> wal,
        capture |-> IF bridge.ver > bridge.base THEN object_delta_plan ELSE NULL,
        ready |-> NULL, need |-> Max({0} \cup acked)]]
  /\ UNCHANGED <<disk, bridge, queue, writing, acked, crashes, faults>>

Enqueue(t) ==
  /\ bridge.up /\ syncing[t].pc = "enqueue"
  /\ queue' = enqueued(syncing[t].capture)
  /\ syncing' = [syncing EXCEPT ![t].pc = "take", ![t].capture = NULL]
  /\ UNCHANGED <<disk, bridge, writing, acked, crashes, faults>>

TakeLatest(t) ==
  /\ bridge.up /\ syncing[t].pc = "take"
  /\ queue' = left(syncing[t].base, syncing[t].target)
  /\ syncing' = [syncing EXCEPT ![t].pc = "activate",
                   ![t].ready = taken(syncing[t].base, syncing[t].target)]
  /\ UNCHANGED <<disk, bridge, writing, acked, crashes, faults>>

answered(t) == [syncing EXCEPT ![t] = Idle]

\* activate_object_delta: the prepared lineage still extends the active one and
\* its records are the current certified prefix.
still_current(ready) ==
  /\ ready.after = object_frontier(bridge.deltas)
  /\ ready.through <= bridge.target
  /\ ready.recs = tail_of(bridge.recs, ready.after, ready.through)
  /\ ready.lineage = bridge.deltas

activated(ready) ==
  [bridge EXCEPT !.deltas = Append(@, segment(ready)),
                 !.recs = tail_of(@, ready.through, bridge.target),
                 !.base = ready.through]

\* Second critical section, up to the durable descriptor.
Activate(t) ==
  /\ bridge.up /\ ~locked /\ syncing[t].pc = "activate"
  /\ LET ready == syncing[t].ready
     IN \/ /\ ready = NULL
           /\ bridge' = [bridge EXCEPT !.base = object_frontier(bridge.deltas)]
           /\ syncing' = [syncing EXCEPT ![t].pc = "publish"]
           /\ UNCHANGED root
        \/ /\ ready # NULL /\ still_current(ready)
           /\ lineage_loads(Append(bridge.deltas, segment(ready)))
           /\ bridge' = activated(ready)
           /\ root' = Append(bridge.deltas, segment(ready))
           /\ syncing' = [syncing EXCEPT ![t].pc = "publish", ![t].ready = NULL]
        \/ /\ ready # NULL /\ ~still_current(ready)
           /\ syncing' = answered(t)
           /\ UNCHANGED <<bridge, root>>
  /\ UNCHANGED <<cell, refused, logs, segments, stable, queue, writing, acked,
                 crashes, faults>>

\* recoverable_frontier: base and deltas plus the certified tail to the target.
frontier_exists(target) ==
  /\ target >= object_frontier(bridge.deltas)
  /\ target <= bridge.target
  /\ LET tail == tail_of(bridge.recs, object_frontier(bridge.deltas), target)
     IN (IF tail = <<>> THEN object_frontier(bridge.deltas) ELSE Last(tail).ver) = target

recoverable_frontier(t) ==
  [target |-> syncing[t].target, deltas |-> bridge.deltas, wal |-> syncing[t].wal,
   tail |-> tail_of(bridge.recs, object_frontier(bridge.deltas), syncing[t].target)]

\* Mutated form: a request that lost the race publishes its older target.
superseded_only_by_equal(target) ==
  /\ stable # NULL
  /\ stable.target = target
  /\ object_frontier(stable.deltas) >= object_frontier(bridge.deltas)

superseded_root(target) ==
  /\ stable # NULL
  /\ \/ stable.target > target
     \/ /\ stable.target = target
        /\ object_frontier(stable.deltas) >= object_frontier(bridge.deltas)

PublishStable(t) ==
  /\ bridge.up /\ syncing[t].pc = "publish"
  /\ LET target == syncing[t].target
     IN \/ /\ ~frontier_exists(target)
           /\ syncing' = answered(t)
           /\ UNCHANGED stable
        \/ /\ frontier_exists(target)
           /\ stable' = IF superseded_root(target) THEN stable ELSE recoverable_frontier(t)
           /\ syncing' = [syncing EXCEPT ![t].pc = "pop"]
  /\ UNCHANGED <<cell, refused, logs, root, segments, bridge, queue, writing,
                 acked, crashes, faults>>

\* validate_pop_statement at one node, and the pop it performs.
pop_frontier == object_frontier(stable.deltas)
node_pops(m) ==
  /\ pop_frontier >= m.popped
  /\ \E e \in m.recs : e.ver >= pop_frontier
node_popped(m) ==
  [m EXCEPT !.recs = {e \in @ : e.ver > pop_frontier}, !.popped = pop_frontier]

\* The nodes are asked one after another, set by set, until one does not attest:
\* every earlier set is popped, set s at the nodes of D, later sets not at all.
\* The stable answer does not depend on how far the pop got.
popped_logs(s, D) ==
  [x \in Sets |-> [n \in Nodes |->
     IF x < s \/ (x = s /\ n \in D) THEN node_popped(logs[x][n]) ELSE logs[x][n]]]

pop_reaches(s, D) ==
  /\ \A n \in D : node_pops(logs[s][n])
  /\ \A x \in Sets : x < s => \A n \in Nodes : node_pops(logs[x][n])

pop_complete(s, D) == D = Nodes /\ s = Last(SetOrder)
pop_refused(s, D) == \E n \in Nodes \ D : ~node_pops(logs[s][n])

validate_txlog_pop_boundary == pop_frontier = object_frontier(bridge.deltas)

PopPrefix(t, s, D) ==
  /\ bridge.up /\ syncing[t].pc = "pop"
  /\ validate_txlog_pop_boundary /\ pop_reaches(s, D)
  /\ logs' = popped_logs(s, D)
  /\ \/ (pop_complete(s, D) \/ pop_refused(s, D)) /\ UNCHANGED faults
     \/ /\ ~pop_complete(s, D) /\ faults < MaxFaults
        /\ faults' = faults + 1
  /\ syncing' = answered(t)
  /\ UNCHANGED <<cell, refused, root, segments, stable, bridge, queue, writing,
                 acked, crashes>>

SkipPop(t) ==
  /\ bridge.up /\ syncing[t].pc = "pop" /\ ~validate_txlog_pop_boundary
  /\ syncing' = answered(t)
  /\ UNCHANGED <<disk, bridge, queue, writing, acked, crashes, faults>>

BridgeInit ==
  /\ cell = <<>> /\ refused = {} /\ segments = {} /\ acked = {}
  /\ logs = [s \in Sets |-> [n \in Nodes |-> [recs |-> {}, last |-> 0, popped |-> 0]]]
  /\ root = NULL /\ stable = NULL
  /\ bridge = Down /\ queue = EmptyQueue /\ writing = NULL
  /\ syncing = [t \in Syncs |-> Idle]
  /\ crashes = 0 /\ faults = 0

BridgeNext ==
  \/ Bootstrap \/ Recover \/ Crash
  \/ \E req \in Requests, lsn \in Lsns, wal \in Lsns : BeginWrite(req, lsn, wal)
  \/ \E D \in SUBSET Nodes : AppendSet(D) \/ AppendKilled(D)
  \/ FinishWrite \/ FailReader
  \/ NextCapture \/ Objectify
  \/ \E t \in Syncs : \/ \E wal \in Lsns : BeginStable(t, wal)
                      \/ Enqueue(t) \/ TakeLatest(t) \/ Activate(t)
                      \/ PublishStable(t) \/ SkipPop(t)
                      \/ \E s \in Sets, D \in SUBSET Nodes : PopPrefix(t, s, D)

BridgeSpec == BridgeInit /\ [][BridgeNext]_vars

-----------------------------------------------------------------------------
\* A version is recoverable without the process: an active delta covers it, or a
\* quorum of every log set holds it.
Recoverable(v) ==
  \/ root # NULL /\ v <= object_frontier(root) /\ lineage_loads(root)
  \/ \A s \in Sets : \E e \in Fed(s, 0) : e.ver = v /\ Agreed(s, e)

\* Every write the bridge answered survives in objects or in a quorum of every
\* log set, whatever was popped, lost or killed since (append_and_open,
\* pop_published_prefix).
AckedRecoverable == \A v \in acked : Recoverable(v)

\* The stable root the authority selects is always readable: its deltas are
\* stored and every version of its tail is recoverable (publish).
StableReadable ==
  stable # NULL => /\ lineage_loads(stable.deltas)
                   /\ \A v \in 1..stable.target : Recoverable(v)
                   /\ stable.wal >= maximum_page_lsn(stable.target)

\* A stable request answered OK is covered by the selected root: every write
\* answered before the request began is at or below its target (serve_stable).
SyncCovered ==
  \A t \in Syncs : syncing[t].pc = "pop" /\ syncing'[t].pc = "idle" /\ bridge'.up =>
     stable.target >= syncing[t].need

\* The same of every step.
SyncCovers == [][SyncCovered]_vars

\* Interleaved stable requests never move the selected root back
\* (PostgresStablePublisher::publish).
StableForward ==
  stable # NULL =>
    \/ stable' = stable
    \/ /\ stable'.target >= stable.target
       /\ object_frontier(stable'.deltas) >= object_frontier(stable.deltas)

\* The same of every step.
StableAdvances == [][StableForward]_vars

\* Rows are served from one chain of commits that starts at the base.
ServedExact ==
  bridge.up => /\ opens(RecordsOf(bridge.deltas) \o bridge.recs)
               /\ bridge.ver <= bridge.target /\ bridge.target <= Len(cell)

\* "Kill/restart never exposes acknowledged data loss or impossible state."
\* (docs/POSTGRES-PATH.md): a killed bridge with acknowledged writes opens again.
RestartOpens == ~bridge.up /\ acked # {} => can_open
=============================================================================
