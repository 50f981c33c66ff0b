---------------------------- MODULE PostgresWorker ----------------------------
(* A replacement worker opens a prepared PostgreSQL object root and proves it  *)
(* ready, and the object-delta contract over the same root                     *)
(* (okv-postgres/src/smgr_durable.rs), on the persistent range primitives of   *)
(* okv-object/src/persistent_range_serving.rs.                                 *)
(*                                                                             *)
(* The root holds a full base (manifest and one SST), one delta segment that   *)
(* rewrites the changed block, and the descriptor that names them.  An object  *)
(* is intact, changed or missing; besides the poison controls, the store may   *)
(* damage one object at any moment.  Reading rows out of a damaged SST fails   *)
(* its block checksum.                                                         *)
EXTENDS Integers, FiniteSets

CONSTANTS
  Sizes,        \* relation sizes, in blocks
  ScanLimit,    \* row limit of the full-base control's scan
  MaxDamage,    \* objects the store may damage
  NULL

VARIABLES
  subject,   \* "worker" or "delta_contract"
  mode,      \* the control the subject runs under
  blocks,    \* relation blocks
  store,     \* [Objects -> state]
  ssts,      \* SST files in the object root
  segs,      \* delta segments in the object root
  pc, seen,  \* the subject's step and what it observed
  receipt, damage

vars == <<subject, mode, blocks, store, ssts, segs, pc, seen, receipt, damage>>

Objects == {"manifest", "sst", "delta"}
ChangedBlock == 1
Range == 2

WorkerModes == {"Correct", "ChangedManifest", "ChangedDelta", "SkipClosureAudit"}
DeltaModes == {"Correct", "MissingObject", "CorruptObject", "BrokenChain",
               "OmittedClosure", "PopAhead", "FullBaseRewrite"}

Intact(o) == store[o] = "intact"

\* The rows a full relation holds: the changed block from the delta.
expected_rows(n) == [b \in 0..(n - 1) |-> IF b = ChangedBlock THEN "delta" ELSE "base"]

(***************************************************************************)
(* Persistent range primitives.                                            *)
(***************************************************************************)
\* load_persistent_range_delta: length, digest, chain and frontier.
load_delta_lineage(chained) == Intact("delta") /\ chained

\* open_manifest_bound_persistent_range_view reads the manifest by digest; the
\* closure of SSTs is not read until rows or the audit need it.
open_manifest_bound == Intact("manifest")

\* Mutated form: the audit stops at the manifest.
audit_manifest_only == Intact("manifest")

audit_physical_closure == Intact("manifest") /\ Intact("sst")

\* A scan of the open view: blocks served by the delta need no SST.
scan(from, to) ==
  IF Intact("sst") \/ \A b \in from..(to - 1) : b = ChangedBlock
  THEN [b \in from..(to - 1) |-> expected_rows(blocks)[b]] ELSE NULL

(***************************************************************************)
(* run_postgres_worker_readiness_process.                                  *)
(***************************************************************************)
mutate_worker_object(o) == [store EXCEPT ![o] = "changed"]

LoadRoot ==
  /\ subject = "worker" /\ pc = "root"
  /\ store' = CASE mode = "ChangedManifest" -> mutate_worker_object("manifest")
                [] mode = "ChangedDelta"    -> mutate_worker_object("delta")
                [] OTHER                    -> store
  /\ pc' = "delta_auth"
  /\ UNCHANGED <<subject, mode, blocks, ssts, segs, seen, receipt, damage>>

\* A refusal the control asked for is a receipt with one anomaly; any other is
\* an error of the process.
refused_worker_receipt(control) ==
  IF mode = control THEN [anomalies |-> 1, detected |-> TRUE, phase |-> pc]
  ELSE [anomalies |-> -1, detected |-> FALSE, phase |-> pc]

Refuse(control) ==
  /\ receipt' = refused_worker_receipt(control)
  /\ pc' = "done"

LoadDeltas ==
  /\ subject = "worker" /\ pc = "delta_auth"
  /\ \/ /\ load_delta_lineage(TRUE)
        /\ pc' = "view_open"
        /\ UNCHANGED receipt
     \/ ~load_delta_lineage(TRUE) /\ Refuse("ChangedDelta")
  /\ UNCHANGED <<subject, mode, blocks, store, ssts, segs, seen, damage>>

OpenView ==
  /\ subject = "worker" /\ pc = "view_open"
  /\ \/ /\ open_manifest_bound
        /\ pc' = "points"
        /\ UNCHANGED receipt
     \/ ~open_manifest_bound /\ Refuse("ChangedManifest")
  /\ UNCHANGED <<subject, mode, blocks, store, ssts, segs, seen, damage>>

\* One delta point, one base point and one short range.
ReadPoints ==
  /\ subject = "worker" /\ pc = "points"
  /\ \/ /\ scan(0, Range) # NULL
        /\ seen' = [seen EXCEPT !.points = {scan(ChangedBlock, ChangedBlock + 1)[ChangedBlock],
                                            scan(0, 1)[0]},
                                !.range = scan(0, Range)]
        /\ pc' = "oracle"
        /\ UNCHANGED receipt
     \/ scan(0, Range) = NULL /\ Refuse("none") /\ UNCHANGED seen
  /\ UNCHANGED <<subject, mode, blocks, store, ssts, segs, damage>>

\* The full oracle reads the relation in chunks of one block.
ReadChunk ==
  /\ subject = "worker" /\ pc = "oracle"
  /\ LET next == Cardinality(DOMAIN seen.oracle)
     IN \/ /\ next = blocks
           /\ pc' = "audit"
           /\ UNCHANGED <<seen, receipt>>
        \/ /\ next < blocks /\ scan(next, next + 1) # NULL
           /\ seen' = [seen EXCEPT !.oracle = [b \in 0..next |->
                         IF b = next THEN scan(next, next + 1)[next] ELSE seen.oracle[b]]]
           /\ UNCHANGED <<pc, receipt>>
        \/ /\ next < blocks /\ scan(next, next + 1) = NULL
           /\ Refuse("none")
           /\ UNCHANGED seen
  /\ UNCHANGED <<subject, mode, blocks, store, ssts, segs, damage>>

\* The closure audit follows the reads; its outcome is two of the checks.
Audit ==
  /\ subject = "worker" /\ pc = "audit"
  /\ LET executed == mode # "SkipClosureAudit"
         required == [delta_point |-> "delta" \in seen.points,
                      base_point |-> "base" \in seen.points,
                      range |-> seen.range = [b \in 0..(Range - 1) |-> expected_rows(blocks)[b]],
                      oracle |-> seen.oracle = expected_rows(blocks),
                      executed |-> executed,
                      exact |-> executed /\ audit_physical_closure]
     IN receipt' = [anomalies |-> Cardinality({c \in DOMAIN required : ~required[c]}),
                    detected |-> mode \in {"Correct", "SkipClosureAudit"}, phase |-> "none"]
  /\ pc' = "done"
  /\ seen' = [seen EXCEPT !.audited = {o \in Objects : Intact(o)}]
  /\ UNCHANGED <<subject, mode, blocks, store, ssts, segs, damage>>

(***************************************************************************)
(* run_postgres_object_delta_contract_async.                               *)
(***************************************************************************)
\* The delta is planned, materialised and activated; one segment is added and
\* no SST.
Objectify ==
  /\ subject = "delta_contract" /\ pc = "root"
  /\ segs' = segs + 1
  /\ seen' = [seen EXCEPT !.before = [ssts |-> ssts, segs |-> segs],
                          !.range = scan(0, blocks)]
  /\ IF scan(0, blocks) = NULL THEN Refuse("none") ELSE pc' = "restart" /\ UNCHANGED receipt
  /\ UNCHANGED <<subject, mode, blocks, store, ssts, damage>>

\* The descriptor, base and lineage are reopened and all rows read again.
Reopen ==
  /\ subject = "delta_contract" /\ pc = "restart"
  /\ IF load_delta_lineage(TRUE) /\ audit_physical_closure
     THEN /\ seen' = [seen EXCEPT !.oracle = scan(0, blocks)]
          /\ pc' = "control"
          /\ UNCHANGED receipt
     ELSE Refuse("none") /\ UNCHANGED seen
  /\ UNCHANGED <<subject, mode, blocks, store, ssts, segs, damage>>

control_store ==
  CASE mode = "MissingObject" -> [store EXCEPT !["delta"] = "missing"]
    [] mode = "CorruptObject" -> [store EXCEPT !["delta"] = "changed"]
    [] OTHER                  -> store

\* validate_txlog_pop_boundary: pops stop at the object frontier.
pop_bounded(frontier, object_frontier) == frontier = object_frontier

\* Keys the stable publication would name.
closure == IF mode = "OmittedClosure" THEN {} ELSE {"delta"}

\* What the control shows on the store it damaged.
control_detected ==
  CASE mode = "Correct"         -> TRUE
    [] mode \in {"MissingObject", "CorruptObject"} -> control_store["delta"] # "intact"
    [] mode = "BrokenChain"     -> ~load_delta_lineage(FALSE)
    [] mode = "OmittedClosure"  -> ~({"delta"} \subseteq closure)
    [] mode = "PopAhead"        -> ~pop_bounded(3, 2)
    [] mode = "FullBaseRewrite" -> ssts' > seen.before.ssts

RunControl ==
  /\ subject = "delta_contract" /\ pc = "control"
  /\ store' = control_store
  /\ ssts' = IF mode = "FullBaseRewrite" THEN ssts + 1 ELSE ssts
  /\ LET flips(modes) == ~(mode \in modes /\ control_detected)
         checks == [object_identity |-> flips({"MissingObject", "CorruptObject"}),
                    commit_chain |-> flips({"BrokenChain"}),
                    closure |-> flips({"OmittedClosure"}),
                    pop_bounded |-> flips({"PopAhead"}),
                    no_new_sst |-> flips({"FullBaseRewrite"}),
                    restart_rows |-> seen.range = seen.oracle
                                     /\ Cardinality(DOMAIN seen.oracle) = blocks,
                    one_segment |-> segs = 1, none_before |-> seen.before.segs = 0,
                    reference_rows |-> mode = "FullBaseRewrite" => blocks <= ScanLimit,
                    detected |-> control_detected]
     IN receipt' = [anomalies |-> Cardinality({c \in DOMAIN checks : ~checks[c]}),
                    detected |-> control_detected, phase |-> "none"]
  /\ pc' = "done"
  /\ UNCHANGED <<subject, mode, blocks, segs, seen, damage>>

\* The store damages an object on its own.
Damage(o) ==
  /\ damage < MaxDamage /\ pc # "done" /\ Intact(o)
  /\ store' = [store EXCEPT ![o] = "changed"]
  /\ damage' = damage + 1
  /\ UNCHANGED <<subject, mode, blocks, ssts, segs, pc, seen, receipt>>

WorkerInit ==
  /\ \/ subject = "worker" /\ mode \in WorkerModes
     \/ subject = "delta_contract" /\ mode \in DeltaModes
  /\ blocks \in Sizes
  /\ store = [o \in Objects |-> "intact"]
  /\ ssts = 1 /\ segs = 0 /\ pc = "root" /\ receipt = NULL /\ damage = 0
  /\ seen = [points |-> {}, range |-> NULL, oracle |-> <<>>, audited |-> {}, before |-> NULL]

WorkerNext ==
  \/ LoadRoot \/ LoadDeltas \/ OpenView \/ ReadPoints \/ ReadChunk \/ Audit
  \/ Objectify \/ Reopen \/ RunControl
  \/ \E o \in Objects : Damage(o)

WorkerSpec == WorkerInit /\ [][WorkerNext]_vars

-----------------------------------------------------------------------------
\* A worker that reports no anomaly ran without a control, read every row exactly,
\* and its base was intact when the audit ran after the reads
\* (run_postgres_worker_readiness_process).
ReadyIsExact ==
  subject = "worker" /\ receipt # NULL /\ receipt.anomalies = 0 =>
    /\ mode = "Correct"
    /\ seen.oracle = expected_rows(blocks)
    /\ {"manifest", "sst"} \subseteq seen.audited

\* Without outside damage a contract is clean on the correct subject only, for
\* every relation size (PostgresObjectDeltaMode, PostgresWorkerReadinessMode).
ControlsDetected ==
  receipt # NULL /\ damage = 0 =>
    /\ receipt.detected
    /\ (receipt.anomalies = 0 <=> mode = "Correct")
=============================================================================
