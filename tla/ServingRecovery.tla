--------------------------- MODULE ServingRecovery ---------------------------
(***************************************************************************)
(* The committed history becomes an immutable object base                   *)
(* (cell_objectification.rs), and a fresh serving worker rebuilds the       *)
(* database at a target version from that base plus a retained suffix it    *)
(* reads from the replicated log, the live authority or the tagged tLogs    *)
(* (cell_serving_recovery.rs).  Content addresses are the contents they     *)
(* name, and an envelope's chain digest is the envelope before it.          *)
(***************************************************************************)
EXTENDS Integers, Sequences, SequencesExt, FiniteSets

CONSTANTS
  Nodes,         \* tLog (or WAL replica) nodes, 1 .. n in endpoint order
  History,       \* the transactions in order: <<key, value>>; value 0 clears
  Stray,         \* a transaction that is logged and never commits
  StrayNodes,    \* the nodes its record may reach: no quorum
  Sources        \* where workers take the suffix: subset of {"wal", "authority", "tlog"}

VARIABLES
  committed,     \* the authority's committed envelopes
  log,           \* node -> its retained records, consecutive versions
  popped,        \* node -> versions removed from the front of its log
  up,            \* nodes that answer
  snapshot,      \* the authority's durable snapshot frontier
  store,         \* objects present: segments and manifests
  objectified,   \* the objectifier: its cut, the step it reached, O
  root,          \* the published root, 0 before publication
  worker         \* one serving worker

servingVars == <<committed, log, popped, up, snapshot, store, objectified, root, worker>>

Quorum == Cardinality(Nodes) \div 2 + 1

-----------------------------------------------------------------------------
(* Envelopes and replay.                                                   *)

MaxVersion == Len(History)

Rows == {m[1] : m \in Range(History) \cup {Stray}}

NoRows == [k \in Rows |-> 0]

Genesis == [version |-> 0, mutation |-> <<>>]

\* What an envelope says of its predecessor: the digest of its bytes.
Chain(e) == [version |-> e.version, mutation |-> e.mutation]

Latest == Len(committed)

Envelope(m) ==
  [version |-> Latest + 1, mutation |-> m,
   previous |-> IF Latest = 0 THEN Genesis ELSE Chain(committed[Latest])]

apply_envelope(rows, e) == [rows EXCEPT ![e.mutation[1]] = e.mutation[2]]

\* The database the authority holds at version v.
Database(v) == FoldSeq(LAMBDA e, rows : apply_envelope(rows, e), NoRows,
                       Reverse(SubSeq(committed, 1, v)))

\* A replay in progress: rows, chain, frontier and whether the chain held.
Replay(rows, chain, frontier, valid) ==
  [rows |-> rows, chain |-> chain, frontier |-> frontier, valid |-> valid]

\* Mutation: envelopes are applied without looking at their chain.
replay_step_unchained(r, e, target) ==
  IF ~ r.valid \/ e.version <= r.frontier \/ e.version > target THEN r
  ELSE Replay(apply_envelope(r.rows, e), Chain(e), e.version, TRUE)

\* The loop stops at the first envelope that does not continue the chain.
replay_step(r, e, target) ==
  IF ~ r.valid THEN r
  ELSE IF e.previous # r.chain \/ e.version <= r.frontier \/ e.version > target
  THEN [r EXCEPT !.valid = FALSE]
  ELSE Replay(apply_envelope(r.rows, e), Chain(e), e.version, TRUE)

replay(from, envelopes, target) ==
  FoldLeft(LAMBDA r, e : replay_step(r, e, target), from, envelopes)

-----------------------------------------------------------------------------
(* The transaction side: commits, the tLogs, the authority's snapshot.      *)

NextVersion(n) == popped[n] + Len(log[n]) + 1

\* A tLog takes the next committed envelope, or one whose commit is pending.
LogAppend(n) ==
  /\ n \in up /\ NextVersion(n) <= MaxVersion
  /\ \/ /\ NextVersion(n) <= Latest
        /\ log' = [log EXCEPT ![n] = @ \o <<committed[NextVersion(n)]>>]
     \/ /\ NextVersion(n) = Latest + 1
        /\ \E m \in {History[Latest + 1]} \cup (IF n \in StrayNodes THEN {Stray} ELSE {}) :
             log' = [log EXCEPT ![n] = @ \o <<Envelope(m)>>]
  /\ UNCHANGED <<committed, popped, up, snapshot, store, objectified, root, worker>>

Held(n, e) == \E i \in DOMAIN log[n] : log[n][i] = e

\* The authority makes an envelope visible once a quorum retains it.
Commit ==
  /\ Latest < MaxVersion
  /\ LET next == Envelope(History[Latest + 1])
     IN /\ Cardinality({n \in Nodes : Held(n, next)}) >= Quorum
        /\ committed' = committed \o <<next>>
  /\ UNCHANGED <<log, popped, up, snapshot, store, objectified, root, worker>>

\* The authority snapshots what it has applied so far.
AuthoritySnapshot ==
  /\ snapshot < Latest /\ snapshot' = Latest
  /\ UNCHANGED <<committed, log, popped, up, store, objectified, root, worker>>

KillLog(n) ==
  /\ up = Nodes /\ up' = up \ {n}
  /\ UNCHANGED <<committed, log, popped, snapshot, store, objectified, root, worker>>

-----------------------------------------------------------------------------
(* Objectification.                                                        *)

Segment(through) == [kind |-> "Data", envelopes |-> SubSeq(committed, 1, through),
                     through |-> through]

Manifest(through) == [kind |-> "Manifest", covered |-> through, child |-> Segment(through)]

\* The segment is put first, then the manifest that names it.
PutSegment ==
  /\ objectified.step = "start" /\ Latest > 0
  /\ store' = store \cup {Segment(Latest)}
  /\ objectified' = [objectified EXCEPT !.step = "segment", !.cut = Latest]
  /\ UNCHANGED <<committed, log, popped, up, snapshot, root, worker>>

PutManifest ==
  /\ objectified.step = "segment"
  /\ store' = store \cup {Manifest(objectified.cut)}
  /\ objectified' = [objectified EXCEPT !.step = "manifest"]
  /\ UNCHANGED <<committed, log, popped, up, snapshot, root, worker>>

\* Every object the manifest names is read back and verified.
verify_closure(manifest) == manifest \in store /\ manifest.child \in store

\* The object frontier is the cut only if the closure verified; then Prepare
\* and Publish with no prior root.
PublishRoot ==
  /\ objectified.step = "manifest" /\ root = 0
  /\ root' = objectified.cut
  /\ objectified' = [objectified EXCEPT
       !.step = "published",
       !.frontier = IF verify_closure(Manifest(objectified.cut)) THEN objectified.cut ELSE 0]
  /\ UNCHANGED <<committed, log, popped, up, snapshot, store, worker>>

Minimum(a, b) == IF a < b THEN a ELSE b

\* Mutation: what is in objects may leave the logs.
pop_by_object_frontier == objectified.frontier

\* Both consumers of the log must have let go of a version.
safe_log_pop_frontier == Minimum(objectified.frontier, snapshot)

PopLog(n) ==
  /\ n \in up /\ objectified.step = "published"
  /\ popped[n] < safe_log_pop_frontier /\ NextVersion(n) > safe_log_pop_frontier
  /\ log' = [log EXCEPT ![n] = SubSeq(@, safe_log_pop_frontier - popped[n] + 1, Len(@))]
  /\ popped' = [popped EXCEPT ![n] = safe_log_pop_frontier]
  /\ UNCHANGED <<committed, up, snapshot, store, objectified, root, worker>>

-----------------------------------------------------------------------------
(* The serving worker.                                                     *)

Idle == [step |-> "idle", source |-> "none", target |-> 0, base |-> 0, responses |-> <<>>,
         asked |-> {}, result |-> Replay(NoRows, Genesis, 0, TRUE)]

\* The controller starts a worker for the commit frontier of the moment.
StartWorker(source) ==
  /\ worker.step = "idle" /\ root # 0 /\ Latest > root
  /\ worker' = [worker EXCEPT !.step = "started", !.source = source, !.target = Latest]
  /\ UNCHANGED <<committed, log, popped, up, snapshot, store, objectified, root>>

\* The published manifest and its segment, verified, replayed from nothing.
replay_base(manifest) ==
  replay(Replay(NoRows, Genesis, 0, TRUE), manifest.child.envelopes, manifest.covered)

ReplayBase ==
  /\ worker.step = "started"
  /\ verify_closure(Manifest(root))
  /\ worker' = [worker EXCEPT !.step = "base", !.base = root,
                              !.result = replay_base(Manifest(root))]
  /\ UNCHANGED <<committed, log, popped, up, snapshot, store, objectified, root>>

\* One TaggedLogRequest::Read; a dead endpoint is passed over.
ReadEndpoint(n) ==
  /\ worker.step = "base" /\ worker.source \in {"tlog", "wal"} /\ n = Cardinality(worker.asked) + 1
  /\ LET feed == {log[n][i] : i \in DOMAIN log[n]}
     IN worker' = [worker EXCEPT !.asked = @ \cup {n},
          !.responses = IF n \in up \/ worker.source = "wal" THEN @ \o <<feed>> ELSE @]
  /\ UNCHANGED <<committed, log, popped, up, snapshot, store, objectified, root>>

Copies(e) == Cardinality({i \in DOMAIN worker.responses : e \in worker.responses[i]})

Offered(v) == {e \in UNION Range(worker.responses) : e.version = v}

\* Records a quorum of the responses agree on, byte for byte.
quorum_records(v) == {e \in Offered(v) : Copies(e) >= Quorum}

\* In position order, above the base; positions without a quorum are absent.
Suffix ==
  LET versions == {v \in worker.base + 1 .. worker.target : quorum_records(v) # {}}
  IN [i \in 1 .. Cardinality(versions) |->
        LET v == CHOOSE x \in versions : Cardinality({y \in versions : y <= x}) = i
        IN CHOOSE e \in quorum_records(v) : TRUE]

FinishFromLogs ==
  /\ worker.step = "base" /\ worker.source \in {"tlog", "wal"} /\ worker.asked = Nodes
  /\ worker' = [worker EXCEPT !.step = "done", !.result = replay(@, Suffix, worker.target)]
  /\ UNCHANGED <<committed, log, popped, up, snapshot, store, objectified, root>>

\* The live authority answers from its committed envelopes, after any leader change.
committed_envelope_feed(after, through) == SubSeq(committed, after + 1, through)

FinishFromAuthority ==
  /\ worker.step = "base" /\ worker.source = "authority"
  /\ worker' = [worker EXCEPT !.step = "done",
       !.result = replay(@, committed_envelope_feed(worker.base, worker.target), worker.target)]
  /\ UNCHANGED <<committed, log, popped, up, snapshot, store, objectified, root>>

-----------------------------------------------------------------------------
ServingInit ==
  /\ committed = <<>>
  /\ log = [n \in Nodes |-> <<>>] /\ popped = [n \in Nodes |-> 0]
  /\ up = Nodes /\ snapshot = 0 /\ store = {} /\ root = 0
  /\ objectified = [step |-> "start", cut |-> 0, frontier |-> 0]
  /\ worker = Idle

ServingNext ==
  \/ Commit \/ AuthoritySnapshot
  \/ \E n \in Nodes : LogAppend(n) \/ KillLog(n) \/ PopLog(n) \/ ReadEndpoint(n)
  \/ PutSegment \/ PutManifest \/ PublishRoot
  \/ \E s \in Sources : StartWorker(s)
  \/ ReplayBase \/ FinishFromLogs \/ FinishFromAuthority

ServingSpec == ServingInit /\ [][ServingNext]_servingVars

-----------------------------------------------------------------------------
(* Properties.                                                             *)

\* Whatever a worker reports is the committed database at the version it
\* reports, although commits, pops and the loss of a log run beside its reads
\* and a minority log may hold a record that never committed.
WorkerExact ==
  worker.step = "done" => worker.result.rows = Database(worker.result.frontier)

\* A committed version that the object base or the authority's snapshot does
\* not hold yet is still retained by a quorum of the logs.
LogServesBoth ==
  \A v \in 1 .. Latest :
    v > objectified.frontier \/ v > snapshot =>
      Cardinality({n \in Nodes : Held(n, committed[v])}) >= Quorum

\* A worker that finds its base and whose logs lost at most one process
\* reaches its target (RFC-0038).
WorkerReachesTarget ==
  worker.step = "done" => worker.result.frontier = worker.target
=============================================================================
