---------------------------- MODULE EvalHarness ----------------------------
(***************************************************************************)
(* The evaluation runner (okv-eval/src/main.rs): run_suite picks a workload,*)
(* the workload runs its contract once or twice per dataset seed, folds the *)
(* reports into a handful of named facts, and run_suite turns them into     *)
(* hard gates and a verdict.                                               *)
(*                                                                         *)
(* A workload is a record:                                                 *)
(*   seeds     the fewest seeds it accepts (an early return otherwise)      *)
(*   single    one contract run, whatever the number of seeds               *)
(*   replay    which seeds run a second time: every one, the first, none    *)
(*   passed    the facts whose conjunction is the Rust variable `passed`    *)
(*   gates     the hard gates, each the set of facts it is computed from    *)
(*   checks    the facts whose failure raises the anomaly count             *)
(*   counted   facts that compare a sum over the seeds with seeds * n       *)
(*   somewhere facts that need a positive sum only                          *)
(*   latest    facts read from the last seed's report only                 *)
(*   lenient   facts written `mode != Correct || ...`                       *)
(*   detect    how `negative_control_detected` counts anomalies             *)
(*   rejects   a control that fails both runs counts as one anomaly         *)
(* Every other fact is the conjunction (.all, &=) of a field of each report.*)
(* A contract's report is the set of facts that failed on that seed, and    *)
(* how far its operation counters are from the expected count.             *)
(***************************************************************************)
EXTENDS Integers, Sequences, FiniteSets, SequencesExt

CONSTANTS
    Suite,      \* workload name -> workload record
    SeedCounts,     \* how many seeds a dataset may name
    MaxDeviations   \* bound on the reports of a run that deviate

VARIABLES
    workload,   \* name of the selected workload
    mode,       \* "correct" or "control": the configured subject
    seeds,      \* seeds of the selected dataset
    primary,    \* the lane's primary metric: "failures" or another one
    dirty,      \* git_is_dirty at the start of the run
    reports,    \* one report per finished seed
    replayed,   \* exact_replay, accumulated
    verdict,    \* "running", "error" (no result), or the result's verdict
    gates       \* status of every hard gate of the result

evalVars == <<workload, mode, seeds, primary, dirty, reports, replayed, verdict, gates>>

----------------------------------------------------------------------------
(* The shapes the workload functions share.                                *)

Workload ==
    [seeds |-> 1, single |-> FALSE, replay |-> "every", passed |-> {}, gates |-> {}, checks |-> {"oracle"},
     counted |-> {}, somewhere |-> {}, latest |-> {}, lenient |-> {}, detect |-> "none", rejects |-> FALSE]

\* Mutant of Sweep: `passed` forgets the anomaly count.
Sweep_unjudged(exercised, extra) ==
    [Workload EXCEPT !.passed = {"exact_replay", exercised} \cup extra,
                     !.gates = {{"exact_replay"}, {exercised}, {"anomalies"} \cup extra},
                     !.counted = {exercised} \cup extra,
                     !.lenient = extra]

\* anomalies == 0 && exact_replay && <exercised> && extra, with three gates.
Sweep(exercised, extra) ==
    [Workload EXCEPT !.passed = {"anomalies", "exact_replay", exercised} \cup extra,
                     !.gates = {{"exact_replay"}, {exercised}, {"anomalies"} \cup extra},
                     !.counted = {exercised} \cup extra,
                     !.lenient = extra]

\* The same, with a gate for every named check of the reports.
Checked(exercised, named) ==
    [Sweep(exercised, {}) EXCEPT !.gates = @ \cup {{c} : c \in named}, !.checks = @ \cup named]

\* mode == Correct && exact_replay && process_boundaries && correct_contract.
Agreement(lenient) ==
    [Workload EXCEPT !.passed = {"correct_mode", "exact_replay", "process_boundaries", "correct_contract"},
                     !.gates = {{"exact_replay"}, {"process_boundaries"}, {"correct_contract"}, {"negative_detected"}},
                     !.lenient = {"correct_contract"} \cup lenient,
                     !.detect = "each"]

\* anomalies counts the failed entries of one `checks` array, one gate each.
Curve(named, extra) ==
    [Workload EXCEPT !.replay = "first", !.passed = {"anomalies"} \cup extra,
                     !.gates = {{c} : c \in named} \cup {{"negative_detected"}},
                     !.checks = named, !.detect = "any"]

\* mode == Correct && contract_agreement && exact_replay && topology && extra.
Process(topology, extra) ==
    [Workload EXCEPT !.seeds = 3,
                     !.passed = {"correct_mode", "anomalies", "exact_replay", topology} \cup extra,
                     !.gates = {{"exact_replay"}, {topology}, {"anomalies"}, {"negative_detected"}},
                     !.counted = {topology} \cup extra, !.detect = "any"]

\* anomalies == 0 && replay && boundaries && correct_contract && negative_detected.
LogSet(boundaries) ==
    [Workload EXCEPT !.passed = {"anomalies", "exact_replay", boundaries, "correct_contract", "negative_detected"},
                     !.gates = {{"exact_replay"}, {boundaries}, {"anomalies", "correct_contract"}, {"negative_detected"}},
                     !.counted = {boundaries, "correct_contract"}, !.lenient = {"correct_contract"},
                     !.detect = "sum"]

\* A SlateDB baseline report arrives with its own gates.
Phase0 ==
    [Workload EXCEPT !.seeds = 0, !.single = TRUE, !.replay = "none", !.passed = {"report_gates", "artifact"},
                     !.gates = {{"anomalies"}, {"report_gates"}}, !.checks = {"report_gates"}]

----------------------------------------------------------------------------
(* One definition per workload function.                                   *)

run_persisted_wal == [Sweep("semantic_operations_exercised", {}) EXCEPT !.somewhere = {"semantic_operations_exercised"}]
run_raft_storage == [Sweep("semantic_operations_exercised", {}) EXCEPT !.somewhere = {"semantic_operations_exercised"}]
run_raft_cluster == Sweep("semantic_operations_exercised", {"expected_success_path"})
run_raft_process == Sweep("semantic_operations_exercised", {"expected_success_path"})
run_staged_head_generation_takeover == Sweep("process_boundaries_exercised", {})
run_incomplete_staged_head_abort == Sweep("process_boundaries_exercised", {})
run_multi_record_staged_prefix_recovery == Sweep("process_boundaries_exercised", {})
run_generation_process == Sweep("semantic_operations_exercised", {"expected_success_path"})
run_routine_reconfiguration_process ==
    [Sweep("semantic_operations_exercised", {"final_state_exact"}) EXCEPT
        !.lenient = {}, !.counted = {"semantic_operations_exercised"}]
run_publication_publisher_process == Checked("semantic_operations_exercised", {"check"})
run_publication_publisher_put_recovery == Checked("semantic_operations_exercised", {"check"})
run_publication_publisher_manifest_recovery == Checked("semantic_operations_exercised", {"check"})
run_publication_publisher_publish_recovery == Checked("semantic_operations_exercised", {"check"})
run_publication_process == Checked("semantic_operations_exercised", {"check"})
run_snapshot_lease_process ==
    [Checked("semantic_operations_exercised", {"check"}) EXCEPT
        !.passed = @ \cup {"correct_mode"},
        !.gates = (@ \ {{"anomalies"}, {"semantic_operations_exercised"}})
                    \cup {{"correct_mode", "semantic_operations_exercised"}}]
run_mvcc_gc_authority_composition_workload ==
    [Process("authority_topology_exact", {"check_count", "collector_boundary_truthful", "serving_root_binding_exact"}) EXCEPT
        !.gates = {{"minimum_seeds"}, {"exact_replay"}, {"authority_topology_exact"}, {"collector_boundary_truthful"},
                   {"serving_root_binding_exact"}, {"negative_detected"}, {"check"}},
        !.checks = @ \cup {"check"}, !.counted = {"authority_topology_exact", "check_count"}]
run_cell_read_version_proxy_history_workload ==
    LET exact == {"generations_exact", "minimum_versions_honored", "read_your_writes_exact",
                  "real_time_order_exact", "convergence_exact"}
    IN  [Sweep("semantic_operations_exercised", {}) EXCEPT
            !.passed = @ \cup exact,
            !.gates = {{"exact_replay"}, {"semantic_operations_exercised"}} \cup {{f} : f \in exact}]
run_partitioned_resolver_agreement_workload == Agreement({})
run_stateless_resolver_recovery_workload == Agreement({"process_boundaries"})
run_stateless_resolver_authenticated_tlog_workload == Agreement({"process_boundaries"})
run_commit_proxy_generation_recovery_workload == Agreement({})
run_multi_commit_proxy_ordering_workload == Agreement({})
run_online_resolver_split_workload == Agreement({})
run_transaction_system_recovery_curve_workload ==
    [Workload EXCEPT !.replay = "none", !.detect = "each", !.counted = {"duration_distribution_recorded"},
        !.passed = {"correct_mode", "anomalies", "exact_untimed_receipts", "phase_receipts_complete",
                    "duration_distribution_recorded", "semantic_contract"},
        !.gates = {{"exact_untimed_receipts"}, {"phase_receipts_complete", "duration_distribution_recorded"},
                   {"semantic_contract"}, {"negative_detected"}}]
run_resolver_hotspot_curve_workload ==
    [Workload EXCEPT !.replay = "none", !.detect = "each",
        !.passed = {"correct_mode", "anomalies", "semantic_contract", "benchmark_integrity", "sample_contract"},
        !.gates = {{"semantic_contract"}, {"benchmark_integrity"}, {"sample_contract"}, {"negative_detected"}}]
run_kv_runtime_resource_envelope ==
    [Curve({"minimum_seeds", "range_accounting", "pressure_actions", "deterministic_replay"}, {"correct_mode"}) EXCEPT !.single = TRUE, !.replay = "none"]
run_kv_runtime_physical_density ==
    Curve({"minimum_seeds", "topology_receipt_exact", "completed_range_reads_exact", "safety_bounds_checked", "exact_replay"}, {"correct_mode"})
run_snapshot_read_curve ==
    Curve({"minimum_seeds", "point_reads_exact", "ordered_scans_exact", "safety_bounds_held", "exact_replay"}, {"correct_mode"})
run_mvcc_gc_curve ==
    LET curve == Curve({"minimum_seeds", "exact_reads", "read_bounds_exact", "live_bytes_reduced", "exact_replay"}, {"correct_mode"})
    IN  [curve EXCEPT !.checks = @ \cup {"oracle"}]
run_cell_range_phantom_history_workload ==
    LET reads == {"range_reads_exact", "point_reads_exact"}
    IN  [Sweep("semantic_operations_exercised", {}) EXCEPT
            !.passed = @ \cup {"dependency_graph_acyclic", "convergence_exact"},
            !.gates = {{"exact_replay"}, {"semantic_operations_exercised"}, reads, {"phantom_conflicts_exact"},
                       {"dependency_graph_acyclic"}, {"convergence_exact"}},
            !.checks = @ \cup reads \cup {"phantom_conflicts_exact"}]
run_cell_concurrent_history_workload ==
    LET named == {"read_values_exact", "actual_read_dependencies_exact", "real_time_order_exact"}
    IN  [Checked("semantic_operations_exercised", named) EXCEPT !.passed = @ \cup {"serializability_witness_valid"}]
run_cell_process_transaction == Sweep("semantic_operations_exercised", {"expected_success_path"})
run_cell_objectification == Sweep("operations_exercised", {})
run_cell_serving_recovery == Sweep("process_boundaries_exercised", {})
run_cell_serving_authority_feed == Sweep("process_boundaries_exercised", {})
run_cell_serving_tagged_tlog == Sweep("process_boundaries_exercised", {})
run_range_cache_eviction_process ==
    LET curve == Curve({"exact_replay", "shared_topology", "reread_exercised", "physical_bound_held",
                        "eviction_refill_observed", "scratch_cleanup"}, {"correct_mode"})
        reads == {"first_pass_exact", "reread_exact"}
    IN  [curve EXCEPT !.seeds = 3, !.gates = @ \cup {reads}, !.checks = @ \cup reads \cup {"dimensions_exact"}]
run_range_cache_fault_process == Process("process_topology_exact", {})
run_range_read_process == Process("process_topology_exact", {})
run_range_route_refresh_process == Process("process_topology_exact", {"route_refreshes", "observed_rows"})
run_postgres_page_read_process == Process("process_topology_exact", {"route_refreshes", "observed_pages"})
run_postgres_page_write_gate ==
    [Process("checks_run", {"expected_admission_shape"}) EXCEPT !.gates = @ \ {{"checks_run"}}]
run_postgres_page_commit_process == Process("process_topology_exact", {"state_shape_exact"})
run_postgres_object_delta ==
    [Process("storage_shape_exact", {"no_replacement_sst"}) EXCEPT
        !.seeds = 1, !.gates = @ \cup {{"no_replacement_sst"}}, !.detect = "each"]
run_postgres_worker_readiness ==
    LET shape == {"source_free", "roots_exact", "deltas_exact", "reads_exact", "closure_audited", "rss_bound"}
        structural == {"process_boundary", "dimensions_exact", "exact_replay"}
    IN  [Curve(structural, shape \cup {"correct_mode"}) EXCEPT
            !.seeds = 5, !.gates = @ \cup {{f} : f \in shape}, !.checks = @ \cup {"oracle"}, !.detect = "each"]
run_range_serving_concurrency_process == Process("process_topology_exact", {})
run_range_serving_handoff == Process("process_topology_exact", {})
run_range_serving_performance_curve ==
    LET curve == Curve({"dimensions_exact", "reads_exact", "io_accounted", "safety_bounds_held", "cache_request_contract",
                        "scan_request_bound", "exact_replay"}, {})
    IN  [curve EXCEPT !.seeds = 3, !.gates = (@ \ {{"negative_detected"}}) \cup {{"minimum_seeds"}}]
run_provider_bound_range_read ==
    LET curve == Curve({"dimensions_exact", "reads_exact", "provider_identity_exact", "cache_state_exact",
                        "empty_cache_budget", "exact_replay", "scratch_cleanup_complete"}, {})
    IN  [curve EXCEPT !.seeds = 5, !.gates = (@ \ {{"negative_detected"}}) \cup {{"minimum_seeds"}}]
run_cell_commit_durability_workload == Sweep("process_boundaries_exercised", {})
run_cell_tagged_log_chunked_repair == [LogSet("process_boundaries") EXCEPT !.rejects = TRUE]
run_cell_tagged_log_policy_transition == [LogSet("process_boundaries") EXCEPT !.rejects = TRUE]
run_cell_tagged_log_learner_repair == LogSet("process_boundaries")
run_cell_tagged_log_lag_ratekeeper == LogSet("process_boundaries_exercised")
run_htap_exactness_contract == [Sweep("semantic_operations_exercised", {}) EXCEPT !.somewhere = {"semantic_operations_exercised"}]
run_htap_physical_contract ==
    LET flags == {"parquet_round_trip", "arrow_tail_complete", "invalidation_precedes_filter",
                  "partition_move_is_logical_identity", "hidden_primary_key_survives_projection"}
    IN  [run_htap_exactness_contract EXCEPT !.passed = @ \cup flags, !.gates = @ \cup {{f} : f \in flags}]
run_htap_streaming_contract ==
    LET flags == {"parquet_round_trip", "arrow_tail_complete", "incremental_emission", "input_order_validated",
                  "batch_boundary_groups_preserved", "independent_watermarks", "continuation_target_bound",
                  "buffer_bound_holds", "output_order_declared"}
    IN  [run_htap_exactness_contract EXCEPT !.passed = @ \cup flags, !.gates = @ \cup {{f} : f \in flags}]
run_object_publication_adapter_contract == [Sweep("physical_boundaries_exercised", {}) EXCEPT !.somewhere = {"physical_boundaries_exercised"}]
run_object_publication_root_graph_contract == Sweep("physical_boundaries_exercised", {})
run_routine_reconfiguration_contract_workload ==
    [Sweep("semantic_operations_exercised", {"expected_final_state"}) EXCEPT
        !.lenient = {}, !.counted = {"semantic_operations_exercised"}, !.latest = {"expected_final_state"}]
run_object_publication_gc_contract == [Sweep("semantic_operations_exercised", {}) EXCEPT !.somewhere = {"semantic_operations_exercised"}]
run_commit_envelope_contract == [Sweep("semantic_operations_exercised", {}) EXCEPT !.counted = {}, !.somewhere = {"semantic_operations_exercised"}]
run_model_differential ==
    [Sweep("semantic_operations_exercised", {}) EXCEPT
        !.passed = @ \cup {"range_clear_exercised"}, !.gates = @ \cup {{"range_clear_exercised"}},
        !.counted = {}, !.somewhere = {"semantic_operations_exercised", "range_clear_exercised"}]
run_object_store_conformance ==
    [Workload EXCEPT !.seeds = 0, !.single = TRUE, !.replay = "none", !.passed = {"check"}, !.gates = {{"check"}}, !.checks = {"check"}]
run_generation_recovery ==
    [Workload EXCEPT !.single = TRUE, !.passed = {"anomalies", "exact_replay"}, !.gates = {{"exact_replay"}, {"anomalies"}}]
phase0_execution == Phase0
phase0_compaction_execution == Phase0
phase0_compaction_reclaim_execution == Phase0
phase0_coordinator_recovery_execution == Phase0
phase0_coordinator_fencing_execution == Phase0
phase0_orphan_gc_execution == Phase0

----------------------------------------------------------------------------
(* Folding the reports of the seeds.                                       *)

w == Suite[workload]

\* Facts the harness derives itself; the others are fields of a report.
Derived == {"anomalies", "exact_replay", "correct_mode", "negative_detected", "minimum_seeds"}

Reported(wl) == (wl.passed \cup UNION wl.gates \cup wl.checks) \ Derived

\* At most one deviation per report: a failed fact, or a counter off by one.
Reports(wl) ==
    {[failed |-> {}, drift |-> d] : d \in (IF wl.counted = {} THEN {0} ELSE -1..1)}
        \cup {[failed |-> {f}, drift |-> 0] : f \in Reported(wl)}

Exact == [failed |-> {}, drift |-> 0]

\* Cap on the interesting reports of one run.
within(r) == r = Exact \/ Len(SelectSeq(reports, LAMBDA x : x # Exact)) < MaxDeviations

Total(per_report(_)) == FoldLeft(LAMBDA sum, r : sum + per_report(r), 0, reports)

rounds == IF w.single THEN 1 ELSE seeds

minimum_seeds == seeds >= 3

anomalies ==
    Total(LAMBDA r : Cardinality(r.failed \cap w.checks))
        + (IF "exact_replay" \in w.checks /\ ~replayed THEN 1 ELSE 0)
        + (IF "minimum_seeds" \in w.checks /\ ~minimum_seeds THEN 1 ELSE 0)

negative_detected ==
    \/ mode = "correct"
    \/ w.detect = "any" /\ anomalies > 0
    \/ w.detect = "sum" /\ anomalies >= Len(reports)
    \/ w.detect = "each" /\ \A i \in DOMAIN reports : reports[i].failed \cap w.checks # {}

\* One fact over all the reports: a sum compared with its expected value, a
\* positive sum, the last report's value, or the conjunction.
folded(f) ==
    LET kept == {i \in DOMAIN reports : f \notin reports[i].failed}
        drift_free == Total(LAMBDA r : r.drift) = 0
    IN  CASE f \in w.counted /\ f \in w.somewhere -> drift_free /\ kept # {}
          [] f \in w.counted -> drift_free /\ kept = DOMAIN reports
          [] f \in w.somewhere -> kept # {}
          [] f \in w.latest -> Len(reports) \in kept
          [] OTHER -> kept = DOMAIN reports

Holds(f) ==
    CASE f = "anomalies" -> anomalies = 0
      [] f = "exact_replay" -> replayed
      [] f = "correct_mode" -> mode = "correct"
      [] f = "negative_detected" -> negative_detected
      [] f = "minimum_seeds" -> minimum_seeds
      [] f \in w.lenient /\ mode # "correct" -> TRUE
      [] f = "correct_contract" -> anomalies = 0 /\ folded(f)
      [] OTHER -> folded(f)

gate_status(g) == IF \A f \in g : Holds(f) THEN "pass" ELSE "fail"

passed == \A f \in w.passed : Holds(f)

----------------------------------------------------------------------------
(* run_suite, one seed at a time.                                          *)

\* The parse_*_mode functions: the correct subject, or one of its controls.
Modes == {"correct", "control"}

EvalInit ==
    /\ workload \in DOMAIN Suite
    /\ mode \in Modes
    /\ seeds \in SeedCounts
    /\ primary \in {"failures", "other"}
    /\ dirty \in BOOLEAN
    /\ reports = <<>> /\ replayed = TRUE /\ verdict = "running" /\ gates = {}

\* A dirty tree without --allow-dirty, a profile for another backend, an
\* unknown workload, lane or metric: no result is written.
Refuse ==
    /\ verdict = "running" /\ reports = <<>>
    /\ verdict' = "error"
    /\ UNCHANGED <<workload, mode, seeds, primary, dirty, reports, replayed, gates>>

\* execution_from_result(Err): no measurements, so a lane whose primary metric
\* is not correctness.failures gets no result at all, otherwise a discard.
execution_from_result ==
    /\ verdict' = IF primary = "failures" THEN "discard" ELSE "error"
    /\ gates' = IF primary = "failures"
                THEN {<<{"correctness_failures"}, "fail">>, <<{"budget_must_hold"}, "pass">>} ELSE {}
    /\ UNCHANGED <<workload, mode, seeds, primary, dirty, reports, replayed>>

\* Too few seeds, another backend, an unknown mode, or a contract run that
\* returns an error.
FailExecution ==
    /\ verdict = "running" /\ (Len(reports) < rounds \/ seeds < w.seeds)
    /\ execution_from_result

replays(seed) == w.replay = "every" \/ (w.replay = "first" /\ seed = 1)

agrees(same, seed) == same \/ ~replays(seed)

\* The contract runs on the next seed, and again when the workload replays it;
\* the first report is the one that is folded in.
RunSeed ==
    /\ verdict = "running" /\ Len(reports) < rounds /\ seeds >= w.seeds
    /\ \E r \in Reports(w), same \in BOOLEAN :
         /\ within(r)
         /\ reports' = Append(reports, r)
         /\ replayed' = (replayed /\ agrees(same, Len(reports) + 1))
    /\ UNCHANGED <<workload, mode, seeds, primary, dirty, verdict, gates>>

\* Both runs of a control return errors: one anomaly for that seed.
RejectSeed ==
    /\ verdict = "running" /\ Len(reports) < rounds /\ seeds >= w.seeds /\ w.rejects /\ mode = "control"
    /\ \E same \in BOOLEAN :
         /\ reports' = Append(reports, [failed |-> {"oracle"}, drift |-> 0])
         /\ replayed' = (replayed /\ same)
    /\ UNCHANGED <<workload, mode, seeds, primary, dirty, verdict, gates>>

judged(correct, budget) ==
    IF ~correct \/ ~budget THEN "discard" ELSE IF dirty THEN "inconclusive" ELSE "keep"

status(b) == IF b THEN "pass" ELSE "fail"

\* The result: three gates of run_suite, then the workload's own.
Judge ==
    /\ verdict = "running" /\ Len(reports) = rounds /\ seeds >= w.seeds
    /\ \E budget \in BOOLEAN :
         /\ verdict' = judged(passed, budget)
         /\ gates' = {<<{"correctness_failures"}, status(passed)>>, <<{"budget_must_hold"}, status(budget)>>}
                        \cup {<<g, gate_status(g)>> : g \in w.gates}
    /\ UNCHANGED <<workload, mode, seeds, primary, dirty, reports, replayed>>

EvalNext == Refuse \/ FailExecution \/ RunSeed \/ RejectSeed \/ Judge

----------------------------------------------------------------------------
(* Properties.                                                             *)

\* A result kept by run_suite carries no failed gate: whichever facts a
\* workload leaves out of `passed`, every gate it reports passed, no seed
\* raised an anomaly and no replay diverged.
KeepIsGreen ==
    verdict = "keep" =>
        /\ \A g \in gates : g[2] = "pass"
        /\ \A i \in DOMAIN reports : reports[i].failed \cap w.checks = {}
        /\ replayed

\* Every seed of a kept result met every condition of the workload by itself.
\* Sums that cancel out, sums that need one positive seed, and facts read from
\* the last seed break it.
EverySeedExact ==
    verdict = "keep" => \A i \in DOMAIN reports : reports[i] = Exact

=============================================================================
