----------------------------- MODULE MCContracts -----------------------------
(***************************************************************************)
(* The process and model contracts and the harness that judges them, of    *)
(* which a behaviour runs one.  The harness keeps its own variables, the   *)
(* others have theirs in x1 .. x13; what the one that runs does not use    *)
(* holds NULL.                                                             *)
(***************************************************************************)
EXTENDS EvalHarness, TLC

CONSTANTS NULL, n1, n2, n3, q1, q2, r1, r2, t1, t2, v1, v2

VARIABLES running, x1, x2, x3, x4, x5, x6, x7, x8, x9, x10, x11, x12, x13

\* The suite: the sweep of every workload the harness runs.
Workloads ==
    <<run_persisted_wal, run_raft_storage, run_raft_cluster, run_raft_process,
      run_staged_head_generation_takeover, run_incomplete_staged_head_abort,
      run_multi_record_staged_prefix_recovery, run_generation_process,
      run_routine_reconfiguration_process, run_publication_publisher_process,
      run_publication_publisher_put_recovery, run_publication_publisher_manifest_recovery,
      run_publication_publisher_publish_recovery, run_publication_process, run_snapshot_lease_process,
      run_mvcc_gc_authority_composition_workload, run_cell_read_version_proxy_history_workload,
      run_partitioned_resolver_agreement_workload, run_stateless_resolver_recovery_workload,
      run_stateless_resolver_authenticated_tlog_workload,
      run_commit_proxy_generation_recovery_workload, run_multi_commit_proxy_ordering_workload,
      run_online_resolver_split_workload, run_transaction_system_recovery_curve_workload,
      run_resolver_hotspot_curve_workload, run_kv_runtime_resource_envelope,
      run_kv_runtime_physical_density, run_snapshot_read_curve, run_mvcc_gc_curve,
      run_cell_range_phantom_history_workload, run_cell_concurrent_history_workload,
      run_cell_process_transaction, run_cell_objectification, run_cell_serving_recovery,
      run_cell_serving_authority_feed, run_cell_serving_tagged_tlog, run_range_cache_eviction_process,
      run_range_cache_fault_process, run_range_read_process, run_range_route_refresh_process,
      run_postgres_page_read_process, run_postgres_page_write_gate, run_postgres_page_commit_process,
      run_postgres_object_delta, run_postgres_worker_readiness, run_range_serving_concurrency_process,
      run_range_serving_handoff, run_range_serving_performance_curve, run_provider_bound_range_read,
      run_cell_commit_durability_workload, run_cell_tagged_log_chunked_repair,
      run_cell_tagged_log_policy_transition, run_cell_tagged_log_learner_repair,
      run_cell_tagged_log_lag_ratekeeper, run_htap_exactness_contract, run_htap_physical_contract,
      run_htap_streaming_contract, run_object_publication_adapter_contract,
      run_object_publication_root_graph_contract, run_routine_reconfiguration_contract_workload,
      run_object_publication_gc_contract, run_commit_envelope_contract, run_model_differential,
      run_object_store_conformance, run_generation_recovery, phase0_execution,
      phase0_compaction_execution, phase0_compaction_reclaim_execution,
      phase0_coordinator_recovery_execution, phase0_coordinator_fencing_execution,
      phase0_orphan_gc_execution>>

HistoryModes ==
  {"Correct", "IgnoreRangeClears", "MutationOrderAffectsReplay", "AcceptConflictingReplay",
   "FutureReadFallsBack", "RejectRetentionBoundary", "ServeExpiredRead", "AcceptStaleGeneration"}

B == INSTANCE PostgresBridge WITH
       Sets <- {10, 20}, Nodes <- {n1, n2, n3}, Requests <- {q1, q2}, Lsns <- {1},
       Syncs <- {t1}, MaxCrashes <- 1, MaxFaults <- 1,
       cell <- x1, refused <- x2, logs <- x3, root <- x4, segments <- x5, stable
       <- x6, bridge <- x7, queue <- x8, writing <- x9, syncing <- x10, acked <-
       x11, crashes <- x12, faults <- x13

S == INSTANCE PostgresBridge WITH
       Sets <- {10, 20}, Nodes <- {n1, n2, n3}, Requests <- {q1, q2}, Lsns <- {1},
       Syncs <- {t1, t2}, MaxCrashes <- 0, MaxFaults <- 0,
       cell <- x1, refused <- x2, logs <- x3, root <- x4, segments <- x5, stable
       <- x6, bridge <- x7, queue <- x8, writing <- x9, syncing <- x10, acked <-
       x11, crashes <- x12, faults <- x13

P == INSTANCE PostgresPages WITH
       MaxBlocks <- 2, MaxBatch <- 2, MaxLsn <- 2, MaxCommits <- 2, Ids <- {r1, r2},
       commits <- x1, served <- x2, reading <- x3, report <- x4

W == INSTANCE PostgresWorker WITH
       Sizes <- {2, 3, 4}, ScanLimit <- 3, MaxDamage <- 2,
       subject <- x1, mode <- x2, blocks <- x3, store <- x4, ssts <- x5, segs <-
       x6, pc <- x7, seen <- x8, receipt <- x9, damage <- x10

H == INSTANCE MvccModel WITH
       Keys <- {0, 1, 2}, Values <- {v1}, MaxSeq <- 3, MaxSteps <- 11, Modes <- HistoryModes,
       MaxPending <- 2,
       mode <- x1, subject <- x2, oracle <- x3, version <- x4, first <- x5, last
       <- x6, steps <- x7, mismatch <- x8, pending <- x9

C == INSTANCE CommitContract WITH
       Clients <- {r1, r2}, Bodies <- {v1, v2}, MaxRecords <- 2,
       mode <- x1, model <- x2, step <- x3, mismatch <- x4, answered <- x5,
       written <- x6

Q == INSTANCE WalQuorum WITH
       Payloads <- {v1, v2}, MaxFrames <- 3, MaxFaults <- 2,
       files <- x1, acked <- x2, cursor <- x3, faults <- x4, mode <- x5, report <-
       x6

A == INSTANCE PublicationAdapter WITH
       Names <- {"x", "y"}, MaxPins <- 1, MaxMarks <- 2,
       part <- x1, mode <- x2, s <- x3, failed <- x4, step <- x5, publisher <- x6,
       sweeper <- x7, pinned <- x8, marks <- x9

O == INSTANCE SnapshotOverlay WITH
       Ids <- {1, 2}, Partitions <- {1, 2}, MaxVersion <- 3, MaxGroup <- 3, OutputRows <- 1,
       part <- x1, mode <- x2, history <- x3, scan <- x4, merge <- x5, token <-
       x6, failed <- x7

R == INSTANCE RoutineModel WITH
       Nodes <- {1, 4, 5}, Positions <- {1, 2, 3}, MaxEpoch <- 7,
       part <- x1, mode <- x2, authority <- x3, step <- x4, failed <- x5, promoted
       <- x6

F == INSTANCE SimFencing WITH
       MaxGeneration <- 3, MaxRoot <- 3, MaxCrashes <- 2,
       part <- x1, bug <- x2, state <- x3, written <- x4, synced <- x5, request <-
       x6, reply <- x7, step <- x8, failed <- x9, accepted <- x10, crashes <- x11

K == INSTANCE PublicationGc WITH
       Publications <- {"x", "y"}, MaxEpoch <- 6,
       part <- x1, mode <- x2, authority <- x3, store <- x4, progress <- x5, plan
       <- x6, step <- x7, failed <- x8

D == INSTANCE DataGeneration WITH
       Recoveries <- {r1, r2}, Writes <- {v1}, MaxGeneration <- 2, MaxFlight <- 2,
       MaxIndex <- 8,
       part <- x1, mode <- x2, sys <- x3, flight <- x4, step <- x5, observed <- x6

slots == << x1, x2, x3, x4, x5, x6, x7, x8, x9, x10, x11, x12, x13 >>

\* The slots from the n-th on are empty.
EmptyFrom(n) ==
  /\ n <= 1 => x1 = NULL
  /\ n <= 2 => x2 = NULL
  /\ n <= 3 => x3 = NULL
  /\ n <= 4 => x4 = NULL
  /\ n <= 5 => x5 = NULL
  /\ n <= 6 => x6 = NULL
  /\ n <= 7 => x7 = NULL
  /\ n <= 8 => x8 = NULL
  /\ n <= 9 => x9 = NULL
  /\ n <= 10 => x10 = NULL
  /\ n <= 11 => x11 = NULL
  /\ n <= 12 => x12 = NULL
  /\ n <= 13 => x13 = NULL

NoHarness ==
  /\ workload = NULL /\ mode = NULL /\ seeds = NULL /\ primary = NULL /\ dirty = NULL
  /\ reports = NULL /\ replayed = NULL /\ verdict = NULL /\ gates = NULL

ContractsInit ==
  \/ running = "harness" /\ EvalInit /\ EmptyFrom(1)
  \/ /\ running = "page_bridge" /\ B!BridgeInit /\ NoHarness
  \/ /\ running = "page_syncs" /\ S!BridgeInit /\ NoHarness
  \/ /\ running = "pages" /\ P!PagesInit /\ NoHarness
     /\ EmptyFrom(5)
  \/ /\ running = "page_worker" /\ W!WorkerInit /\ NoHarness
     /\ EmptyFrom(11)
  \/ /\ running = "history" /\ H!RunnerInit /\ NoHarness
     /\ EmptyFrom(10)
  \/ /\ running = "envelopes" /\ C!ContractInit /\ NoHarness
     /\ EmptyFrom(7)
  \/ /\ running = "quorum_log" /\ Q!WalInit /\ NoHarness
     /\ EmptyFrom(7)
  \/ /\ running = "adapter" /\ A!AdapterInit /\ NoHarness
     /\ EmptyFrom(10)
  \/ /\ running = "overlay" /\ O!OverlayInit /\ NoHarness
     /\ EmptyFrom(8)
  \/ /\ running = "routine" /\ R!RoutineInit /\ NoHarness
     /\ EmptyFrom(7)
  \/ /\ running = "fencing" /\ F!FencingInit /\ NoHarness
     /\ EmptyFrom(12)
  \/ /\ running = "collector" /\ K!GcInit /\ NoHarness
     /\ EmptyFrom(9)
  \/ /\ running = "handoff" /\ D!HandoffInit /\ NoHarness
     /\ EmptyFrom(7)

ContractsNext ==
  \/ running = "harness" /\ EvalNext /\ UNCHANGED << running, slots >>
  \/ /\ running = "page_bridge" /\ B!BridgeNext
     /\ UNCHANGED << running, evalVars >>
  \/ /\ running = "page_syncs" /\ S!BridgeNext
     /\ UNCHANGED << running, evalVars >>
  \/ /\ running = "pages" /\ P!PagesNext
     /\ UNCHANGED << running, x5, x6, x7, x8, x9, x10, x11, x12, x13, evalVars >>
  \/ /\ running = "page_worker" /\ W!WorkerNext
     /\ UNCHANGED << running, x11, x12, x13, evalVars >>
  \/ /\ running = "history" /\ H!RunnerNext
     /\ UNCHANGED << running, x10, x11, x12, x13, evalVars >>
  \/ /\ running = "envelopes" /\ C!ContractNext
     /\ UNCHANGED << running, x7, x8, x9, x10, x11, x12, x13, evalVars >>
  \/ /\ running = "quorum_log" /\ Q!WalNext
     /\ UNCHANGED << running, x7, x8, x9, x10, x11, x12, x13, evalVars >>
  \/ /\ running = "adapter" /\ A!AdapterNext
     /\ UNCHANGED << running, x10, x11, x12, x13, evalVars >>
  \/ /\ running = "overlay" /\ O!OverlayNext
     /\ UNCHANGED << running, x8, x9, x10, x11, x12, x13, evalVars >>
  \/ /\ running = "routine" /\ R!RoutineNext
     /\ UNCHANGED << running, x7, x8, x9, x10, x11, x12, x13, evalVars >>
  \/ /\ running = "fencing" /\ F!FencingNext
     /\ UNCHANGED << running, x12, x13, evalVars >>
  \/ /\ running = "collector" /\ K!GcNext
     /\ UNCHANGED << running, x9, x10, x11, x12, x13, evalVars >>
  \/ /\ running = "handoff" /\ D!HandoffNext
     /\ UNCHANGED << running, x7, x8, x9, x10, x11, x12, x13, evalVars >>

ContractsSpec == ContractsInit /\ [][ContractsNext]_<< running, slots, evalVars >>

Symmetry == Permutations({n1, n2, n3}) \cup Permutations({q1, q2}) \cup Permutations({t1, t2})

-----------------------------------------------------------------------------
\* Every contract's report is clean exactly when no handler of its subject is
\* poisoned, in every interleaving the contract leaves open, and the harness keeps a
\* result only when every gate of every seed is green: no control passes for a
\* correct subject and no correct subject is reported for a control.
ControlsDetected ==
  /\ running = "harness" => KeepIsGreen
  /\ running = "pages" => P!ContractsDetect
  /\ running = "page_worker" => W!ControlsDetected
  /\ running = "history" => H!ControlsFailInPrelude
  /\ running = "envelopes" => C!ScriptDetects
  /\ running = "quorum_log" => Q!WalContractDetects
  /\ running = "adapter" => A!AdapterDetects
  /\ running = "overlay" => O!OverlayDetects
  /\ running = "routine" => R!RoutineDetects
  /\ running = "fencing" => F!FencingDetects
  /\ running = "collector" => K!GcDetects
  /\ running = "handoff" => D!HandoffDetects

\* What was acknowledged survives: page writes in objects or in a quorum of every log
\* set, envelopes in a recovery of the certified records, frames in a recovery from
\* an intact quorum of files, and roots in the fenced authority's synced state.
AcknowledgedSurvives ==
  /\ running = "page_bridge" => B!AckedRecoverable
  /\ running = "page_syncs" => S!AckedRecoverable
  /\ running = "envelopes" => C!AckedSurvives /\ C!VersionsDistinct
  /\ running = "quorum_log" => Q!IntactQuorumRecovers
  /\ running = "fencing" => F!AcknowledgedRootsFenced

\* Every read answers with the committed history at its version: through the model's
\* snapshots, through an overlay of bases and tails, through page rows and extents,
\* and in a worker that reports itself ready.
ReadsCommittedHistory ==
  /\ running = "history" => H!SubjectExact /\ H!AllSnapshotsAgree
  /\ running = "overlay" => O!OverlayExact /\ O!StreamExact
  /\ running = "pages" => P!ExtentExact /\ P!ReadExact
  /\ running = "page_bridge" => B!ServedExact
  /\ running = "page_syncs" => S!ServedExact
  /\ running = "page_worker" => W!ReadyIsExact

\* A selected root reads its whole closure, whatever publishers, sweepers and
\* collectors interleave.
RootsReadable ==
  /\ running = "adapter" => A!RootReadable
  /\ running = "collector" => K!RootsReadable
  /\ running = "page_bridge" => B!StableReadable
  /\ running = "page_syncs" => S!StableReadable

\* A generation ends where its successor's certificates say: no write of the old one
\* after the fence and no mirror ahead of the coordinator; a routine replacement
\* takes effect once and only with a learner that caught up.
GenerationsSeparated ==
  /\ running = "handoff" => D!FenceSeparatesGenerations /\ D!MirrorFollows
  /\ running = "routine" => R!ReplacedOnceCaughtUp

\* Neither the version a page bridge serves nor the stable root it selects ever goes
\* back, and a stable request is answered only under a root that covers it.
ServedNeverRetreats ==
  [][ /\ running = "pages" => P!ServedForward
      /\ running = "page_bridge" => B!StableForward /\ B!SyncCovered
      /\ running = "page_syncs" => S!StableForward /\ S!SyncCovered
    ]_<< running, slots, evalVars >>
=============================================================================
