-------------------------- MODULE StagedTakeover --------------------------
(***************************************************************************)
(* A generation handoff that finds staged transactions: the cell's staged  *)
(* commands, the tagged-log processes that hold the records, and the three *)
(* process contracts of generation_process_contract.rs that drive a        *)
(* certified head, an incomplete head and a window of records through it.  *)
(*                                                                         *)
(* The handoff itself is DataGeneration; here only its phases remain, at   *)
(* the coordinator and at the data log's mirror.  Transactions write       *)
(* disjoint keys, so rows are the committed identities; an identity also   *)
(* stands for the digest of its envelope.  In the free part the operations *)
(* interleave, and a write checked before Prepare may be applied after it. *)
(***************************************************************************)
EXTENDS Integers, FiniteSets, Sequences, SequencesExt

CONSTANTS
    Baseline,      \* transactions committed before the head; 10 in the code
    MaxStaged,     \* bound of the free part: staged transactions
    NULL

VARIABLES
    part,          \* "free", "head", "abort" or "prefix"
    mode,          \* the contract's mode; Correct in the free part
    sys,           \* [coordinator, mirror, cell, outcomes, index, logs]
    step,          \* next step of the contract
    failed         \* checks of the contract's report that did not pass

vars == <<part, mode, sys, step, failed>>

STAGED_LOG_SETS == {10, 20}
LogNodes        == 0 .. 2
QuorumSize      == 2
MAX_STAGED_PREFIX_RECORDS == 4

StagedHeadGenerationMode ==
    {"Correct", "TakeoverDuringRecovery", "MissingLogCertificate",
     "TamperedEnvelopeExpectation", "SkipStagedHead",
     "RewriteStagedHeadGeneration"}

IncompleteStagedHeadAbortMode ==
    {"Correct", "AbortDuringRecovery", "SingleAbsenceSigner",
     "MissingLogSetFence", "ForgedAbsenceOverPresentRecord",
     "VolatileFenceAfterRestart", "ReuseAbortedSequenceOrChain"}

MultiRecordStagedPrefixMode ==
    {"Correct", "PublishBeyondAbsentBoundary", "AbortQuorumPresentRecord",
     "SkipRecoverablePrefixRecord", "RetainDependentSuffix",
     "AcceptOverLimitWindow", "MissingLogSetInventory"}

\* The faults a mode plants in the processes it starts.
accept_apply_during_recovery ==
    mode \in {"TakeoverDuringRecovery", "AbortDuringRecovery"}
allow_successor_to_skip_staged_head ==
    mode \in {"SkipStagedHead", "RewriteStagedHeadGeneration"}
accept_invalid_staged_abort_proof ==
    mode \in {"SingleAbsenceSigner", "MissingLogSetFence",
              "ForgedAbsenceOverPresentRecord"}
persist_fences == mode # "VolatileFenceAfterRestart"

-----------------------------------------------------------------------------
(***************************************************************************)
(* The tagged-log processes of one log set each (AbortTaggedLogSet).       *)
(***************************************************************************)
\* `fences` holds the statement of each kind the process has persisted; a
\* statement names the staged window it asks about.
EmptyLogs ==
    [set \in STAGED_LOG_SETS |-> [n \in LogNodes |->
       [records |-> << >>, fences |-> [k \in {"fence", "prefix"} |-> NULL]]]]

fenced(log) == \E k \in DOMAIN log.fences : log.fences[k] # NULL

\* Mutated form: the fence is signed but does not stop an append.
may_append_fenced(log, id, position) == position = Len(log.records) + 1

may_append(log, id, position) ==
    /\ ~ fenced(log)
    /\ position = Len(log.records) + 1

append(s, set, n, id, position) ==
    IF may_append(s.logs[set][n], id, position)
    THEN [s EXCEPT !.logs[set][n].records = Append(@, id)]
    ELSE s

append_all(s, set, nodes, id, position) ==
    [s EXCEPT !.logs[set] = [n \in LogNodes |->
       IF n \in nodes THEN append(s, set, n, id, position).logs[set][n]
       ELSE s.logs[set][n]]]

holds(log, id) == id \in ToSet(log.records)

may_fence(log, kind, window) == log.fences[kind] \in {NULL, window}

fence_node(s, set, n, kind, window) ==
    IF persist_fences THEN [s EXCEPT !.logs[set][n].fences[kind] = window] ELSE s

\* fence and prefix_fence: every process of the set is fenced and signs which
\* records of the window it holds.
fence_set(s, set, kind, window) ==
    [s EXCEPT !.logs[set] = [n \in LogNodes |->
       fence_node(s, set, n, kind, window).logs[set][n]]]

attestation(s, set, n, window) ==
    [signer |-> n, forged |-> FALSE,
     present |-> {id \in ToSet(window) : holds(s.logs[set][n], id)}]

certificate(s, set, signers, window) ==
    [set |-> set, window |-> window,
     attestations |-> {attestation(s, set, n, window) : n \in signers}]

-----------------------------------------------------------------------------
(***************************************************************************)
(* The cell's staged transactions (CellTransactionState::apply_staged).    *)
(* `policy` is the generation of the installed log-set policies, 0 before. *)
(***************************************************************************)
EmptyCell ==
    [generation |-> 1, latest |-> 0, policy |-> 0,
     committed |-> << >>, staged |-> << >>]

EnvelopeOf(t) ==
    [id |-> t.id, generation |-> t.generation, sequence |-> t.sequence,
     prev |-> t.prev]

\* The ordinary transaction that rewrites the head writes the head's keys.
Rewrite == Baseline + 7
written_by(id) == IF id = Rewrite THEN Baseline + 1 ELSE id

rows(c) == {written_by(c.committed[i].id) : i \in DOMAIN c.committed}

last_id(envelopes) == IF envelopes = << >> THEN 0 ELSE Last(envelopes).id

Unresolved(c) == {i \in DOMAIN c.staged : c.staged[i].status = "staged"}

position_of(c, id) == {i \in DOMAIN c.staged : c.staged[i].id = id}

Answer(c, status) == [cell |-> c, status |-> status]

install_policies(c, g) ==
    IF Unresolved(c) = {}
    THEN Answer([c EXCEPT !.policy = g], "LogSetPoliciesInstalled")
    ELSE Answer(c, "InvalidLogSetPolicy")

live(t) == t.status # "aborted"

\* The chain skips aborted transactions and the sequence does not; the fault
\* swaps the two.
stage(c, id, g) ==
    LET reuse  == mode = "ReuseAbortedSequenceOrChain"
        chain  == IF reuse THEN c.staged ELSE SelectSeq(c.staged, live)
        counts == IF reuse THEN SelectSeq(c.staged, live) ELSE c.staged
        t == [id |-> id, generation |-> g,
              prev |-> IF chain = << >> THEN last_id(c.committed) ELSE Last(chain).id,
              sequence |-> 1 + IF counts = << >> THEN c.latest
                               ELSE Last(counts).sequence,
              receipts |-> {}, certificates |-> {}, status |-> "staged"] IN
    IF position_of(c, id) # {} THEN Answer(c, "AlreadyStaged")
    ELSE Answer([c EXCEPT !.staged = Append(@, t)], "Staged")

record_durable(c, id, field, set) ==
    IF \E i \in position_of(c, id) :
          /\ c.staged[i].status # "aborted"
          /\ c.staged[i].generation = c.generation
          /\ field = "certificates" => c.policy = c.generation
    THEN LET i == CHOOSE k \in position_of(c, id) : TRUE IN
         Answer([c EXCEPT !.staged[i][field] = @ \cup {set}], "Recorded")
    ELSE Answer(c, "InvalidLogCertificate")

publish_staged(c, i, g) ==
    [c EXCEPT !.committed = Append(@, EnvelopeOf(c.staged[i])),
              !.latest = c.staged[i].sequence, !.generation = g,
              !.staged[i].status = "visible"]

durable(c, t) ==
    STAGED_LOG_SETS = IF c.policy = 0 THEN t.receipts ELSE t.certificates

publish(c, id) ==
    IF position_of(c, id) = {} THEN Answer(c, "InvalidRequest") ELSE
    LET i == CHOOSE k \in position_of(c, id) : TRUE
        t == c.staged[i] IN
    CASE t.status = "visible" -> Answer(c, "AlreadyCommitted")
      [] t.status = "aborted" -> Answer(c, "AlreadyAborted")
      [] t.generation # c.generation -> Answer(c, "InvalidRequest")
      [] ~ durable(c, t) \/ (\E k \in Unresolved(c) : k < i) ->
            Answer(c, "MissingLogReceipt")
      [] OTHER -> Answer(publish_staged(c, i, c.generation), "Committed")

\* The successor is authorized by the data log's mirror, with the recovery it
\* completed.
successor_authorized(mirror) ==
    \/ mirror = "Active2"
    \/ accept_apply_during_recovery /\ mirror = "Recovering"

takeover_publish(c, id, expected, mirror) ==
    LET i == CHOOSE k \in position_of(c, id) : TRUE
        t == c.staged[i] IN
    IF t.status = "visible" /\ c.generation = 2 THEN Answer(c, "AlreadyCommitted")
    ELSE IF /\ successor_authorized(mirror)
            /\ c.generation = 1 /\ t.generation = 1
            /\ expected = id \/ mode = "TamperedEnvelopeExpectation"
            /\ t.certificates = STAGED_LOG_SETS \/ mode = "MissingLogCertificate"
            /\ Cardinality(Unresolved(c)) = 1
         THEN Answer(publish_staged(c, i, 2), "Committed")
         ELSE Answer(c, "InvalidGenerationTakeover")

absent_signers(cert, id) == {a \in cert.attestations : id \notin a.present}
present_signers(cert, id) == {a \in cert.attestations : id \in a.present}

verify_fence_certificate(cert, window) ==
    /\ cert.window = window
    /\ Cardinality(cert.attestations) >= QuorumSize
    /\ \A a \in cert.attestations : ~ a.forged

abort_proof_valid(t, fences) ==
    /\ {cert.set : cert \in fences} = STAGED_LOG_SETS
    /\ \A cert \in fences : verify_fence_certificate(cert, <<t.id>>)
    /\ \E cert \in fences :
          /\ cert.set \notin t.certificates
          /\ Cardinality(absent_signers(cert, t.id)) >= QuorumSize

takeover_abort(c, id, fences, mirror) ==
    LET i == CHOOSE k \in position_of(c, id) : TRUE
        t == c.staged[i] IN
    IF t.status = "aborted" /\ c.generation = 2 THEN Answer(c, "AlreadyAborted")
    ELSE IF /\ successor_authorized(mirror)
            /\ c.generation = 1 /\ t.generation = 1
            /\ t.status # "visible"
            /\ abort_proof_valid(t, fences) \/ accept_invalid_staged_abort_proof
            /\ Cardinality(Unresolved(c)) = 1
         THEN Answer([c EXCEPT !.staged[i].status = "aborted", !.generation = 2],
                     "Aborted")
         ELSE Answer(c, "InvalidGenerationTakeover")

\* apply_takeover_recover_prefix: the records before the first one that a
\* quorum of some log set lacks are published in order, the others aborted.
window_exact(c, window) ==
    /\ \A k \in DOMAIN window : position_of(c, window[k]) # {}
    /\ Len(window) <= MAX_STAGED_PREFIX_RECORDS \/ mode = "AcceptOverLimitWindow"

window_unresolved(c, window) ==
    /\ c.generation = 1
    /\ window = SelectSeq([i \in DOMAIN c.staged |->
                              IF i \in Unresolved(c) THEN c.staged[i].id ELSE 0],
                          LAMBDA id : id # 0)

inventories_valid(window, inventories) ==
    LET supplied == {cert.set : cert \in inventories} IN
    /\ IF mode = "MissingLogSetInventory" THEN supplied # {}
       ELSE supplied = STAGED_LOG_SETS
    /\ \A cert \in inventories : verify_fence_certificate(cert, window)

present_everywhere(id, inventories) ==
    \A cert \in inventories : Cardinality(present_signers(cert, id)) >= QuorumSize

absent_somewhere(id, inventories) ==
    \E cert \in inventories : Cardinality(absent_signers(cert, id)) >= QuorumSize

\* The count of records to publish, or -1 when a record is neither.
recovered_count(window, inventories) ==
    LET missing == {k \in DOMAIN window : ~ present_everywhere(window[k], inventories)}
        first   == CHOOSE k \in missing : \A j \in missing : k <= j IN
    IF missing = {} THEN Len(window)
    ELSE IF absent_somewhere(window[first], inventories) THEN first - 1 ELSE -1

faulty_count(count, window) ==
    CASE mode = "AbortQuorumPresentRecord" /\ count > 0 -> count - 1
      [] mode = "PublishBeyondAbsentBoundary" /\ count < Len(window) -> count + 1
      [] OTHER -> count

published(k, count, window) ==
    IF k <= count THEN ~ (mode = "SkipRecoverablePrefixRecord" /\ k = 1)
    ELSE mode = "RetainDependentSuffix" /\ k = Len(window)

decide(c, window, count) ==
    LET index(id) == CHOOSE i \in position_of(c, id) : TRUE IN
    [FoldLeft(LAMBDA acc, k : IF published(k, count, window)
                              THEN publish_staged(acc, index(window[k]), 2)
                              ELSE [acc EXCEPT !.staged[index(window[k])].status =
                                                  "aborted"],
              c, [k \in DOMAIN window |-> k]) EXCEPT !.generation = 2]

takeover_recover_prefix(c, window, inventories, mirror) ==
    LET count == recovered_count(window, inventories)
        retry == /\ c.generation = 2
                 /\ \A k \in DOMAIN window :
                       position_of(c, window[k]) \cap Unresolved(c) = {} IN
    IF ~ (/\ mirror = "Active2"
          /\ window_exact(c, window)
          /\ retry \/ window_unresolved(c, window)
          /\ inventories_valid(window, inventories)
          /\ count >= 0)
    THEN Answer(c, "InvalidStagedPrefix")
    ELSE IF retry THEN Answer(c, "AlreadyPrefixRecovered")
    ELSE Answer(decide(c, window, faulty_count(count, window)), "PrefixRecovered")

\* An ordinary commit (CellTransactionState::apply), which the fault lets pass
\* the unresolved head.
direct_commit(c, id, g, log_index) ==
    LET d == IF allow_successor_to_skip_staged_head /\ Unresolved(c) # {}
             THEN [c EXCEPT !.generation = g] ELSE c IN
    IF d.generation # g THEN Answer(d, "InvalidReadVersion")
    ELSE Answer([d EXCEPT !.latest = log_index,
                   !.committed = Append(@, [id |-> id, generation |-> g,
                       sequence |-> log_index, prev |-> last_id(d.committed)])],
                "Committed")

-----------------------------------------------------------------------------
(***************************************************************************)
(* A client write.  The handler asks the coordinator first; the applied    *)
(* entry is checked again against the mirror, and its answer is kept under *)
(* the request's identity.                                                 *)
(***************************************************************************)
authorizes(phase, g) ==
    \/ phase = "Active1" /\ g = 1
    \/ phase = "Active2" /\ g = 2
    \/ accept_apply_during_recovery /\ phase = "Recovering" /\ g = 2

apply_staged(c, r, mirror, log_index) ==
    IF r.op \notin {"takeover", "abort", "prefix", "direct"} /\ c.generation # r.generation
    THEN Answer(c, "InvalidRequest")
    ELSE CASE r.op = "policies"    -> install_policies(c, r.generation)
           [] r.op = "stage"       -> stage(c, r.id, r.generation)
           [] r.op = "receipt"     -> record_durable(c, r.id, "receipts", r.set)
           [] r.op = "certificate" -> record_durable(c, r.id, "certificates", r.set)
           [] r.op = "publish"     -> publish(c, r.id)
           [] r.op = "takeover"    -> takeover_publish(c, r.id, r.expected, mirror)
           [] r.op = "abort"       -> takeover_abort(c, r.id, r.fences, mirror)
           [] r.op = "prefix"      -> takeover_recover_prefix(c, r.window, r.fences, mirror)
           [] r.op = "direct"      -> direct_commit(c, r.id, r.generation, log_index)

\* The entry of one request identity; a repeated identity changes nothing.
applied(s, r) ==
    IF r \in DOMAIN s.outcomes THEN s
    ELSE LET answer == IF authorizes(s.mirror, r.generation)
                       THEN apply_staged(s.cell, r, s.mirror, s.index + 1)
                       ELSE Answer(s.cell, "GenerationFenced") IN
         [s EXCEPT !.cell = answer.cell, !.index = @ + 1,
                   !.outcomes = [q \in DOMAIN @ \cup {r} |->
                                    IF q = r THEN answer.status ELSE @[q]]]

write_cell_staged(s, r) ==
    IF authorizes(s.coordinator, r.generation) THEN applied(s, r) ELSE s

\* The client sees an error when a check failed on either side.
refused(s, r) ==
    \/ ~ authorizes(s.coordinator, r.generation)
    \/ applied(s, r).outcomes[r] = "GenerationFenced"

status_of(s, r) == IF refused(s, r) THEN "refused" ELSE applied(s, r).outcomes[r]

StageRequest(id, g) == [op |-> "stage", id |-> id, generation |-> g]
PublishRequest(id, g, request) ==
    [op |-> "publish", id |-> id, generation |-> g, request |-> request]
DurableRequest(op, id, g, set) ==
    [op |-> op, id |-> id, generation |-> g, set |-> set]
PoliciesRequest(g) == [op |-> "policies", generation |-> g]
takeover_command(id, expected, request) ==
    [op |-> "takeover", id |-> id, expected |-> expected, generation |-> 2,
     request |-> request]
abort_takeover_command(id, fences, request) ==
    [op |-> "abort", id |-> id, fences |-> fences, generation |-> 2,
     request |-> request]
prefix_takeover_command(window, inventories, request) ==
    [op |-> "prefix", window |-> window, fences |-> inventories, generation |-> 2,
     request |-> request]
DirectRequest(id) == [op |-> "direct", id |-> id, generation |-> 2]

write_all(s, requests) == FoldLeft(write_cell_staged, s, requests)

-----------------------------------------------------------------------------
(***************************************************************************)
(* The contracts.  W(k) is the k-th transaction staged after the baseline; *)
(* its identity equals the sequence it should get.                         *)
(***************************************************************************)
W(k)      == Baseline + k
Successor == Baseline + 6
Finished  == 7

records_staged == CASE part = "prefix" /\ mode = "AcceptOverLimitWindow" -> 5
                    [] part = "prefix" -> 4
                    [] OTHER -> 1

window_staged == [k \in 1 .. records_staged |-> W(k)]

visible_state(c) == [generation |-> c.generation, latest |-> c.latest,
                     committed |-> c.committed]

Report(n, s, checks) ==
    /\ part # "free" /\ step = n
    /\ sys' = s /\ step' = n + 1
    /\ failed' = failed \cup {c[1] : c \in {x \in checks : ~ x[2]}}
    /\ UNCHANGED <<part, mode>>

baseline_transactions ==
    FlattenSeq([i \in 1 .. Baseline |->
       <<StageRequest(i, 1), DurableRequest("receipt", i, 1, 10),
         DurableRequest("receipt", i, 1, 20), PublishRequest(i, 1, 1)>>])

certificates(id, g, sets) ==
    FlattenSeq([k \in 1 .. 2 |-> LET set == 10 * k IN
       IF set \in sets THEN <<DurableRequest("certificate", id, g, set)>>
       ELSE << >>])

\* stage_baseline_and_head
certified_sets == IF mode = "MissingLogCertificate" THEN {10} ELSE STAGED_LOG_SETS

stage_baseline(s) == write_all(s, baseline_transactions)

baseline_exact(c) ==
    c.latest = Baseline /\ c.generation = 1 /\ Baseline \in rows(c)

StageHead ==
    LET base   == stage_baseline(sys)
        staged == write_all(base, <<PoliciesRequest(1), StageRequest(W(1), 1)>>)
        s      == write_all(staged, certificates(W(1), 1, certified_sets)) IN
    /\ part = "head"
    /\ Report(1, s, {
         <<"baseline_exact", baseline_exact(base.cell)>>,
         <<"policies_installed", staged.cell.policy = 1>>,
         <<"head_staged", Last(staged.cell.staged).sequence = W(1)>>,
         <<"every_log_certificate_recorded",
           Last(s.cell.staged).certificates = STAGED_LOG_SETS>>,
         <<"invisible_before_fence",
           visible_state(s.cell) = visible_state(base.cell)>>})

\* stage_incomplete_head: the record reaches a quorum of one log set only.
twenty_nodes ==
    IF mode = "ForgedAbsenceOverPresentRecord" THEN {0, 1} ELSE {0}

StageIncompleteHead ==
    LET base   == stage_baseline(sys)
        staged == write_all(base, <<PoliciesRequest(1), StageRequest(W(1), 1)>>)
        ten    == append_all(staged, 10, {0, 1}, W(1), 1)
        twenty == append_all(ten, 20, twenty_nodes, W(1), 1)
        s      == write_all(twenty, certificates(W(1), 1, {10})) IN
    /\ part = "abort"
    /\ Report(1, s, {
         <<"baseline_exact", baseline_exact(base.cell)>>,
         <<"policies_installed", staged.cell.policy = 1>>,
         <<"head_staged", Last(staged.cell.staged).sequence = W(1)>>,
         <<"log_set_ten_quorum_durable",
           {n \in LogNodes : holds(s.logs[10][n], W(1))} = {0, 1}>>,
         <<"log_set_twenty_incomplete",
           {n \in LogNodes : holds(s.logs[20][n], W(1))} = {0}>>,
         <<"log_set_ten_certificate_recorded", Last(s.cell.staged).certificates = {10}>>,
         <<"invisible_before_fence",
           visible_state(s.cell) = visible_state(base.cell)>>})

\* stage_prefix_window: two records reach a quorum of both log sets, the third
\* of the first set, the others of neither; the first one is certified.
stage_window_record(s, k) ==
    LET staged == write_cell_staged(s, StageRequest(W(k), 1))
        ten    == append_all(staged, 10, IF k <= 3 THEN {0, 1} ELSE {0}, W(k), k) IN
    append_all(ten, 20, IF k <= 2 THEN {0, 1} ELSE {0}, W(k), k)

StagePrefixWindow ==
    LET base   == stage_baseline(sys)
        staged == FoldLeft(stage_window_record, write_cell_staged(base, PoliciesRequest(1)),
                           [k \in 1 .. records_staged |-> k])
        s      == write_all(staged, certificates(W(1), 1, STAGED_LOG_SETS))
        tail   == SubSeq(s.cell.staged, W(1), W(records_staged)) IN
    /\ part = "prefix"
    /\ Report(1, s, {
         <<"baseline_exact", base.cell.latest = Baseline /\ Baseline \in rows(base.cell)>>,
         <<"policies_installed", staged.cell.policy = 1>>,
         <<"staged_window_exact", tail[1].sequence = W(1)
                                  /\ Last(tail).sequence = W(records_staged)>>,
         <<"staged_window_record_bounded", records_staged <= 4>>,
         <<"staged_chain_exact", \A k \in 2 .. Len(tail) : tail[k].prev = tail[k - 1].id>>,
         <<"transaction_eleven_certified", tail[1].certificates = STAGED_LOG_SETS>>,
         <<"invisible_before_fence",
           visible_state(s.cell) = visible_state(base.cell)>>})

\* The proof a contract supplies, altered by its mode.
full_certificate(s, set) == certificate(s, set, LogNodes, window_staged)

first_signer(attestations) ==
    CHOOSE a \in attestations : \A b \in attestations : a.signer <= b.signer

single_absence(cert) ==
    [cert EXCEPT !.attestations = {first_signer(absent_signers(cert, W(1)))}]

forged_absence(cert) ==
    LET a == first_signer(present_signers(cert, W(1))) IN
    [cert EXCEPT !.attestations = (@ \ {a}) \cup
                    {[a EXCEPT !.present = {}, !.forged = TRUE]}]

supplied_proof(s) ==
    LET ten    == full_certificate(s, 10)
        twenty == full_certificate(s, 20) IN
    CASE mode = "SingleAbsenceSigner" -> {ten, single_absence(twenty)}
      [] mode = "ForgedAbsenceOverPresentRecord" -> {ten, forged_absence(twenty)}
      [] mode \in {"MissingLogSetFence", "MissingLogSetInventory"} -> {twenty}
      [] OTHER -> {ten, twenty}

fence_checks(s) ==
    LET proof  == supplied_proof(s)
        of(set) == full_certificate(s, set)
        every  == /\ {cert.set : cert \in proof} = STAGED_LOG_SETS
                  /\ \A cert \in proof : Cardinality(cert.attestations) >= 2
        absence == \E cert \in proof : /\ cert.set = 20
                                       /\ Cardinality(absent_signers(cert, W(1))) >= 2
        authentic == mode # "ForgedAbsenceOverPresentRecord"
        present(set, k) == Cardinality(present_signers(of(set), W(k))) >= 2
        absent(set, k)  == Cardinality(absent_signers(of(set), W(k))) >= 2 IN
    CASE part = "head" -> {}
      [] part = "abort" ->
         {<<"every_log_set_fenced", every>>,
          <<"absence_quorum", absence>>,
          <<"fence_attestations_authenticated", authentic>>,
          <<"present_process_cannot_attest_absent", authentic>>,
          <<"abort_proof_exact", every /\ absence /\ authentic>>,
          <<"tlog_fences_durable", persist_fences>>}
      [] part = "prefix" ->
         {<<"every_log_set_prefix_fenced", {cert.set : cert \in proof} = STAGED_LOG_SETS>>,
          <<"prefix_fences_durable", persist_fences>>,
          <<"inventories_cover_exact_window",
            \A set \in STAGED_LOG_SETS : of(set).window = window_staged>>,
          <<"recovered_prefix_classified_at_twelve",
            \A set \in STAGED_LOG_SETS, k \in 1 .. 2 : present(set, k)>>,
          <<"absent_boundary_classified_at_thirteen", present(10, 3) /\ absent(20, 3)>>,
          <<"dependent_suffix_classified_for_abort",
            \A set \in STAGED_LOG_SETS : absent(set, 4)>>}

\* Prepare at the coordinator, the tagged-log fences, and Prepare in the data log.
fence_logs(s) ==
    IF part = "head" THEN s
    ELSE LET kind == IF part = "abort" THEN "fence" ELSE "prefix" IN
         fence_set(fence_set(s, 10, kind, window_staged), 20, kind, window_staged)

FenceOldGeneration ==
    LET s == [fence_logs(sys) EXCEPT !.coordinator = "Fencing", !.mirror = "Fencing",
                                     !.index = @ + 1] IN
    Report(2, s, fence_checks(s) \cup {
      <<"data_fence_after_head", s.index > sys.index>>,
      <<"old_publish_rejected_after_fence", refused(s, PublishRequest(W(1), 1, 2))>>})

decision(s, request) ==
    CASE part = "head" ->
           takeover_command(W(1), IF mode = "TamperedEnvelopeExpectation"
                                  THEN 0 ELSE W(1), request)
      [] part = "abort"  -> abort_takeover_command(W(1), supplied_proof(s), request)
      [] part = "prefix" -> prefix_takeover_command(window_staged, supplied_proof(s), request)

\* Reserve on both sides, the voter-set change, and the early attempt.
EarlyDecision ==
    LET recovering == [sys EXCEPT !.coordinator = "Recovering", !.mirror = "Recovering",
                                  !.index = @ + 2]
        early == decision(sys, 1)
        s     == write_cell_staged(recovering, early) IN
    Report(3, s, {
      <<"early_decision_rejected", refused(recovering, early)>>,
      <<"invisible_during_recovery", visible_state(s.cell) = visible_state(sys.cell)>>})

ActivateSuccessor ==
    Report(4, [sys EXCEPT !.coordinator = "Active2", !.mirror = "Active2",
                          !.index = @ + 1],
           {<<"takeover_expectation_exact",
              part = "head" => decision(sys, 1).expected = W(1)>>})

\* The reply of the first attempt is dropped, the same request is repeated, and
\* a second identity asks for the same decision.
head_envelopes(c) ==
    {i \in DOMAIN c.committed : /\ c.committed[i].generation = 1
                               /\ c.committed[i].sequence = W(1)}

DecideHead ==
    LET skips == allow_successor_to_skip_staged_head
        direct == DirectRequest(IF mode = "SkipStagedHead" THEN Successor + 2 ELSE Rewrite)
        taken == write_cell_staged(sys, decision(sys, 1))
        s     == IF skips THEN write_cell_staged(sys, direct)
                 ELSE write_cell_staged(taken, decision(sys, 2))
        c     == s.cell IN
    /\ part = "head"
    /\ Report(5, s, {
         <<"takeover_committed",
           ~ skips /\ status_of(taken, decision(sys, 1)) = "Committed">>,
         <<"takeover_retry_retained",
           ~ skips /\ status_of(s, decision(sys, 2)) = "AlreadyCommitted">>,
         <<"staged_frontier_visible", c.latest = W(1)>>,
         <<"staged_rows_exact", rows(c) = rows(sys.cell) \cup {W(1)}>>,
         <<"domain_generation_advanced", c.generation = 2>>,
         <<"no_duplicate_head_envelope", Cardinality(head_envelopes(c)) = 1>>,
         <<"original_envelope_preserved",
           \E i \in head_envelopes(c) : c.committed[i].id = W(1)>>})

DecideAbort ==
    LET taken == write_cell_staged(sys, decision(sys, 1))
        s     == write_cell_staged(taken, decision(sys, 2))
        c     == s.cell IN
    /\ part = "abort"
    /\ Report(5, s, {
         <<"abort_terminal", status_of(taken, decision(sys, 1)) = "Aborted">>,
         <<"abort_retry_retained", status_of(s, decision(sys, 2)) = "AlreadyAborted">>,
         <<"frontier_unchanged", c.latest = Baseline>>,
         <<"rows_unchanged", rows(c) = 1 .. Baseline>>,
         <<"aborted_envelope_excluded", W(1) \notin rows(c)>>,
         <<"generation_advanced", c.generation = 2>>,
         <<"aborted_cannot_restage", refused(s, StageRequest(W(1), 1))>>,
         <<"aborted_cannot_publish", refused(s, PublishRequest(W(1), 1, 3))>>})

count_status(c, status) ==
    Cardinality({k \in 1 .. records_staged :
       \E i \in position_of(c, W(k)) : c.staged[i].status = status})

DecidePrefix ==
    LET taken == write_cell_staged(sys, decision(sys, 1))
        s     == write_cell_staged(taken, decision(sys, 2))
        c     == s.cell
        terminal(k) == status_of(s, PublishRequest(W(k), 2, 4)) IN
    /\ part = "prefix"
    /\ Report(5, s, {
         <<"recovery_retry_retained",
           status_of(s, decision(sys, 2)) = "AlreadyPrefixRecovered">>,
         <<"recovery_counts_exact", count_status(c, "visible") = 2
                                    /\ count_status(c, "aborted") = 2>>,
         <<"recovered_frontier_at_twelve", c.latest = W(2)>>,
         <<"recovered_rows_exact", rows(c) = 1 .. W(2)>>,
         <<"recovered_envelopes_exact", last_id(c.committed) = W(2)
              /\ c.committed[Len(c.committed) - 1].id = W(1)>>,
         <<"transactions_terminal_visible",
           \A k \in 1 .. 2 : terminal(k) = "AlreadyCommitted">>,
         <<"transactions_terminal_aborted",
           \A k \in 3 .. 4 : terminal(k) = "AlreadyAborted">>,
         <<"domain_generation_advanced", c.generation = 2>>})

\* A process of log set 20 restarts, and two late appends must be refused.
late_record == IF part = "abort" THEN W(1) ELSE W(3)

late_appends(s) ==
    LET one == append(s, 20, 1, late_record, IF part = "abort" THEN 1 ELSE 3) IN
    append(one, 20, 2, late_record, 1)

successor_requests ==
    <<PoliciesRequest(2), StageRequest(Successor, 2)>>
    \o certificates(Successor, 2, STAGED_LOG_SETS)
    \o <<PublishRequest(Successor, 2, 1)>>

chained(c) ==
    \A i \in 2 .. Len(c.committed) : c.committed[i].prev = c.committed[i - 1].id

CommitSuccessor ==
    LET late  == IF part = "head" THEN sys ELSE late_appends(sys)
        runs  == part = "head" => "takeover_committed" \notin failed
        s     == IF runs THEN write_all(late, successor_requests) ELSE late
        t     == Last(s.cell.staged)
        where == IF part = "prefix" THEN W(5) ELSE W(2) IN
    Report(6, s, {
      <<"late_append_rejected", late.logs = sys.logs>>,
      <<"successor_at", runs /\ t.sequence = where>>,
      <<"successor_chain",
        runs /\ t.prev = IF part = "abort" THEN Baseline
                         ELSE IF part = "head" THEN W(1) ELSE W(2)>>,
      <<"successor_committed_exact",
        /\ t.status = "visible" /\ s.cell.latest = t.sequence
        /\ s.cell.generation = 2
        /\ rows(s.cell) = rows(sys.cell) \cup {Successor}>>,
      <<"no_old_suffix_visible",
        part = "prefix" => \A k \in 3 .. 5 : W(k) \notin rows(s.cell)>>,
      <<"final_history_chain_exact", part = "prefix" => chained(s.cell)>>,
      <<"old_generation_remained_fenced", refused(s, PublishRequest(W(1), 1, 5))>>})

\* Each contract writes the handoff and the successor's commit out for itself.
FenceBeforeTakeover   == part = "head" /\ FenceOldGeneration
FenceBeforeAbort      == part = "abort" /\ FenceOldGeneration
FenceBeforePrefix     == part = "prefix" /\ FenceOldGeneration
EarlyTakeover         == part = "head" /\ EarlyDecision
EarlyAbort            == part = "abort" /\ EarlyDecision
EarlyPrefix           == part = "prefix" /\ EarlyDecision
ActivateBeforeTakeover == part = "head" /\ ActivateSuccessor
ActivateBeforeAbort   == part = "abort" /\ ActivateSuccessor
ActivateBeforePrefix  == part = "prefix" /\ ActivateSuccessor
SucceedTakeover       == part = "head" /\ CommitSuccessor
SucceedAbort          == part = "abort" /\ CommitSuccessor
SucceedPrefix         == part = "prefix" /\ CommitSuccessor

ContractNext ==
    \/ StageHead \/ FenceBeforeTakeover \/ EarlyTakeover
    \/ ActivateBeforeTakeover \/ DecideHead \/ SucceedTakeover
    \/ StageIncompleteHead \/ FenceBeforeAbort \/ EarlyAbort
    \/ ActivateBeforeAbort \/ DecideAbort \/ SucceedAbort
    \/ StagePrefixWindow \/ FenceBeforePrefix \/ EarlyPrefix
    \/ ActivateBeforePrefix \/ DecidePrefix \/ SucceedPrefix

-----------------------------------------------------------------------------
(***************************************************************************)
(* The free part: the old generation stages, appends, certifies and        *)
(* publishes while a recovery fences the log processes one by one.  `step` *)
(* tells which statement the recovery uses, after its Prepare.             *)
(***************************************************************************)
kind_of == IF step = 1 THEN "fence" ELSE "prefix"

Free(s) ==
    /\ part = "free"
    /\ sys' = s /\ sys' # sys
    /\ UNCHANGED <<part, mode, failed>>

Same(s) == Free(s) /\ UNCHANGED step

submit(r) ==
    [sys EXCEPT !.cell = IF authorizes(sys.mirror, r.generation)
                         THEN apply_staged(sys.cell, r, sys.mirror, 0).cell
                         ELSE sys.cell]

FreeStage ==
    /\ Len(sys.cell.staged) < MaxStaged
    /\ Same(submit(StageRequest(Len(sys.cell.staged) + 1, 1)))

FreeAppend(set, n) ==
    \E k \in DOMAIN sys.cell.staged :
       Same(append(sys, set, n, sys.cell.staged[k].id, k))

FreeCertify(set) ==
    \E k \in DOMAIN sys.cell.staged :
       LET id == sys.cell.staged[k].id IN
       /\ Cardinality({n \in LogNodes : holds(sys.logs[set][n], id)}) >= QuorumSize
       /\ Same(submit(DurableRequest("certificate", id, 1, set)))

FreePublish ==
    \E k \in DOMAIN sys.cell.staged :
       Same(submit(PublishRequest(sys.cell.staged[k].id, 1, 0)))

FreePrepare ==
    /\ sys.coordinator = "Active1"
    /\ step' \in {1, 2}
    /\ Free([sys EXCEPT !.coordinator = "Fencing"])

\* The statement names what the recovery read as unresolved.
unresolved_window ==
    SelectSeq([i \in DOMAIN sys.cell.staged |->
                 IF i \in Unresolved(sys.cell) THEN sys.cell.staged[i].id ELSE 0],
              LAMBDA id : id # 0)

FreeFence(set, n) ==
    LET window == unresolved_window IN
    /\ sys.coordinator = "Fencing"
    /\ IF kind_of = "fence" THEN Len(window) = 1 ELSE window # << >>
    /\ may_fence(sys.logs[set][n], kind_of, window)
    /\ Same(fence_node(sys, set, n, kind_of, window))

FreeFenceData ==
    /\ sys.coordinator = "Fencing" /\ sys.mirror = "Active1"
    /\ Same([sys EXCEPT !.mirror = "Fencing"])

FreeActivate ==
    /\ sys.mirror = "Fencing"
    /\ Same([sys EXCEPT !.coordinator = "Active2", !.mirror = "Active2"])

signed_by(set, window) ==
    {n \in LogNodes : sys.logs[set][n].fences[kind_of] = window}

FreeDecide ==
    \E k \in Unresolved(sys.cell) :
       \E ten \in SUBSET LogNodes, twenty \in SUBSET LogNodes :
          LET id     == sys.cell.staged[k].id
              window == IF kind_of = "fence" THEN <<id>> ELSE unresolved_window
              proof  == {certificate(sys, 10, ten, window),
                         certificate(sys, 20, twenty, window)} IN
          /\ sys.mirror = "Active2"
          /\ ten \subseteq signed_by(10, window)
          /\ twenty \subseteq signed_by(20, window)
          /\ \/ Same(submit(takeover_command(id, id, 0)))
             \/ kind_of = "fence" /\ Same(submit(abort_takeover_command(id, proof, 0)))
             \/ kind_of = "prefix" /\ Same(submit(prefix_takeover_command(window, proof, 0)))

\* Processes of a set in equal states are interchangeable: the first one acts.
representatives(set) ==
    {n \in LogNodes : \A m \in LogNodes : m < n => sys.logs[set][m] # sys.logs[set][n]}

FreeNext ==
    \/ FreeStage \/ FreePublish \/ FreePrepare \/ FreeFenceData
    \/ FreeActivate \/ FreeDecide
    \/ \E set \in STAGED_LOG_SETS : FreeCertify(set)
    \/ \E set \in STAGED_LOG_SETS : \E n \in representatives(set) :
          FreeAppend(set, n) \/ FreeFence(set, n)

-----------------------------------------------------------------------------
TakeoverInit ==
    /\ \/ part = "free" /\ mode = "Correct"
       \/ part = "head" /\ mode \in StagedHeadGenerationMode
       \/ part = "abort" /\ mode \in IncompleteStagedHeadAbortMode
       \/ part = "prefix" /\ mode \in MultiRecordStagedPrefixMode
    /\ sys = [coordinator |-> "Active1", mirror |-> "Active1", index |-> 0,
              cell |-> [EmptyCell EXCEPT !.policy = IF part = "free" THEN 1 ELSE 0],
              outcomes |-> [r \in {} |-> ""], logs |-> EmptyLogs]
    /\ step = IF part = "free" THEN 0 ELSE 1
    /\ failed = {}

TakeoverNext == ContractNext \/ FreeNext

TakeoverSpec == TakeoverInit /\ [][TakeoverNext]_vars

-----------------------------------------------------------------------------
Holders(set, id) == {n \in LogNodes : holds(sys.logs[set][n], id)}

\* The first transaction a takeover aborts is absent from a quorum of some log
\* set and stays so: the persisted fences refuse every late append, so no later
\* reader of the logs finds it durable.
AbortedStaysIncomplete ==
    part = "free" =>
       LET aborted == {i \in DOMAIN sys.cell.staged :
                         sys.cell.staged[i].status = "aborted"} IN
       aborted # {} =>
          LET first == CHOOSE i \in aborted : \A j \in aborted : i <= j IN
          \E set \in STAGED_LOG_SETS :
             Cardinality(Holders(set, sys.cell.staged[first].id)) < QuorumSize

\* Whoever publishes a transaction, the old generation or its successor, a
\* quorum of every log set holds the record.
VisibleIsDurable ==
    part = "free" =>
       \A i \in DOMAIN sys.cell.committed, set \in STAGED_LOG_SETS :
          Cardinality(Holders(set, sys.cell.committed[i].id)) >= QuorumSize

\* Every report of the three process contracts is clean exactly for the correct
\* mode.
TakeoversDetect ==
    part # "free" /\ step = Finished => (failed = {} <=> mode = "Correct")

\* After the handoff, prefix fences signed by every process let the successor
\* decide what is still staged (a window statement is accepted once per process,
\* and apply_takeover_recover_prefix wants the window to be all that is staged).
TakeoverPossible ==
    /\ part = "free" /\ step = 2 /\ sys.mirror = "Active2"
    /\ Unresolved(sys.cell) # {}
    /\ \A set \in STAGED_LOG_SETS, n \in LogNodes : fenced(sys.logs[set][n])
    => ENABLED FreeDecide
=============================================================================
