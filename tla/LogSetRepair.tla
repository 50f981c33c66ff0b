--------------------------- MODULE LogSetRepair ---------------------------
(***************************************************************************)
(* Replacing a member of a log set: the repair of a learner from the       *)
(* survivors' certified suffix, in one message or in chunks, and the       *)
(* policy transition that makes the learner a member                       *)
(* (tagged_log_process.rs, cell_tlog_repair.rs, cell_tlog_chunked_repair.rs*)
(* and cell_tlog_policy_transition.rs), over the roots of TaggedLogMember  *)
(* and the part of the cell authority that owns the log-set policy.        *)
(*                                                                         *)
(* One record is staged at a time: the pipeline of staged records is in    *)
(* CommitPath and CellTransaction.  A record's position equals its         *)
(* version.  A certificate is the statement its quorum signed; the client  *)
(* collects one of each phase and may hold it for any time before use.     *)
(***************************************************************************)
EXTENDS TaggedLogMember

CONSTANTS
    Failed,        \* the member the repair replaces
    Learner,       \* the node that replaces it
    QuorumSize,    \* quorum_size of the policy
    Chunks,        \* chunk indexes of a transfer
    PublishLimit   \* bound: versions the object frontier reaches

VARIABLES
    policy,      \* authority: current log-set policy [epoch, members]
    pending,     \* authority: pending_log_set_policy_transition, or None
    staged,      \* authority: the unresolved staged record, or None
    committed,   \* authority: records made visible, with the epoch that certified them
    base_cert,   \* client: base-snapshot certificate, or None
    ready_cert,  \* client: learner-ready certificate, or None
    installed,   \* learner: repair-install.json, or None
    ready,       \* learner: repair-ready.json, or None
    transfer,    \* learner: durable chunks of the transfer of each phase
    stage        \* [Nodes -> policy-stage.json, or None]

setVars == << policy, pending, staged, committed, base_cert, ready_cert,
              installed, ready, transfer, stage >>
repairVars == << tlVars, setVars >>

Phases == {"base", "ready"}

InitialPolicy == [epoch |-> 1, members |-> Nodes \ Learners]

RepairInit ==
    /\ MemberInit
    /\ policy = InitialPolicy
    /\ pending = None /\ staged = None /\ committed = {}
    /\ base_cert = None /\ ready_cert = None
    /\ installed = None /\ ready = None
    /\ transfer = [p \in Phases |-> {}]
    /\ stage = [n \in Nodes |-> None]

Quorums(members) == {Q \in SUBSET members : Cardinality(Q) >= QuorumSize}

\* A certificate with more signatures than a quorum contains one that has just enough.
Certifying(members) == {Q \in SUBSET members : Cardinality(Q) = QuorumSize}

effective_policy_epoch(n) == IF activation[n] = None THEN 1 ELSE activation[n]

RecordOf(e) == [position |-> e.version, version |-> e.version,
                generation |-> e.generation]

-----------------------------------------------------------------------------
(***************************************************************************)
(* The commit path through the log set.                                    *)
(***************************************************************************)
Visible == {c.record : c \in committed}

\* The authority admits one record after another, and none during a transition.
Stage(e) ==
    /\ staged = None /\ pending = None
    /\ e.version = 1 + SetMax({r.version : r \in Visible})
    /\ staged' = RecordOf(e)
    /\ UNCHANGED << tlVars, policy, pending, committed, base_cert, ready_cert,
                    installed, ready, transfer, stage >>

\* A proxy sends the staged record, or one a member missed, to any process.
Replicate(n, e) ==
    /\ RecordOf(e) \in Visible \cup {staged}
    /\ TLogAppend(n, e, e.version, TRUE)
    /\ UNCHANGED setVars

attest_valid(n, record) ==
    /\ ~ effective_learner(n)
    /\ effective_policy_epoch(n) = policy.epoch
    /\ record \in Records(n)

\* A durability certificate of the current policy makes the record visible.
durability_certificate(Q) ==
    /\ staged # None
    /\ \A n \in Q : attest_valid(n, staged)
    /\ committed' = committed \cup {[record |-> staged, epoch |-> policy.epoch]}
    /\ staged' = None
    /\ UNCHANGED << tlVars, policy, pending, base_cert, ready_cert,
                    installed, ready, transfer, stage >>

PublishRoot(frontier) ==
    /\ frontier <= PublishLimit
    /\ frontier <= SetMax({r.version : r \in Visible})
    /\ Publish(frontier)
    /\ UNCHANGED setVars

pop_through_object_frontier(n) ==
    /\ \E g \in Generations : TLogPop(n, g, published, TRUE)
    /\ UNCHANGED setVars

-----------------------------------------------------------------------------
(***************************************************************************)
(* Repair.                                                                 *)
(***************************************************************************)
repair_statement(phase, source) ==
    [phase |-> phase, epoch |-> policy.epoch, snapshot |-> wal[source],
     last |-> kept[source].last, popped |-> kept[source].popped,
     failed |-> Failed, learner |-> Learner]

snapshot_well_formed(statement) ==
    LET snapshot == statement.snapshot IN
    /\ snapshot # << >>
    /\ snapshot[Len(snapshot)].position = statement.last
    /\ \A k \in 2 .. Len(snapshot) :
          snapshot[k].position = snapshot[k - 1].position + 1
    /\ \A k \in DOMAIN snapshot : snapshot[k].version > statement.popped

\* validate_repair_snapshot with require_local_match.
validate_repair_snapshot(n, statement) ==
    /\ load_or_recover_retention(n).last = statement.last
    /\ load_or_recover_retention(n).popped = statement.popped
    /\ load_or_recover_retention(n).epoch # 0
    /\ snapshot_well_formed(statement)
    /\ wal[n] = statement.snapshot

verify_tagged_log_repair_certificate(statement, current) ==
    /\ statement.epoch = current.epoch
    /\ statement.last # 0 /\ statement.popped # 0
    /\ statement.failed \in current.members
    /\ statement.learner \notin current.members

\* The client reads one source's suffix and has a quorum of members sign it.
collect_repair_attestations(phase, Q) ==
    LET statement == repair_statement(phase, CHOOSE n \in Q : TRUE) IN
    /\ verify_tagged_log_repair_certificate(statement, policy)
    /\ \A n \in Q : ~ effective_learner(n) /\ validate_repair_snapshot(n, statement)
    /\ \/ /\ phase = "base" /\ base_cert = None
          /\ base_cert' = statement /\ UNCHANGED ready_cert
       \/ /\ phase = "ready" /\ ready_cert = None
          /\ ready_cert' = statement /\ UNCHANGED base_cert
    /\ UNCHANGED << tlVars, policy, pending, staged, committed,
                    installed, ready, transfer, stage >>

empty_root(n) == /\ wal[n] = << >>
                 /\ load_or_recover_retention(n).last = 0
                 /\ load_or_recover_retention(n).popped = 0

\* The records, the frontier and the receipt are three synchronized writes; the
\* process may stop after any of them.
InstallRecords(records, statement, epoch, receipt, written) ==
    /\ wal_rewrite(Learner, records)
    /\ persist_retention(Learner,
          IF written = 1 THEN load_or_recover_retention(Learner)
          ELSE [last |-> statement.last, popped |-> statement.popped,
                epoch |-> epoch])
    /\ installed' = IF receipt = "base" /\ written = 3 THEN statement ELSE installed
    /\ ready'     = IF receipt = "ready" /\ written = 3 THEN statement ELSE ready
    /\ UNCHANGED << fence, fence_tmp, activation, published, ghostVars, policy,
                    pending, staged, committed, base_cert, ready_cert, transfer, stage >>

RepairInstall(written) ==
    /\ base_cert # None /\ installed = None
    /\ empty_root(Learner)
    /\ InstallRecords(base_cert.snapshot, base_cert, 1, "base", written)

RepairReady ==
    /\ ready_cert # None /\ installed # None /\ ready = None
    /\ validate_repair_snapshot(Learner, ready_cert)
    /\ persist_retention(Learner, load_or_recover_retention(Learner))
    /\ ready' = ready_cert
    /\ UNCHANGED << wal, torn, fence, fence_tmp, activation, published, ghostVars,
                    policy, pending, staged, committed, base_cert, ready_cert,
                    installed, transfer, stage >>

Certificate(phase) == IF phase = "base" THEN base_cert ELSE ready_cert
Receipt(phase)     == IF phase = "base" THEN installed ELSE ready

store_repair_chunk(phase, chunk) ==
    /\ Certificate(phase) # None
    /\ chunk \notin transfer[phase]
    /\ transfer' = [transfer EXCEPT ![phase] = @ \cup {chunk}]
    /\ persist_retention(Learner, load_or_recover_retention(Learner))
    /\ UNCHANGED << wal, torn, fence, fence_tmp, activation, published, ghostVars,
                    policy, pending, staged, committed, base_cert, ready_cert,
                    installed, ready, stage >>

\* The tail transfer carries what the certified suffix has after the base.
tail_payload == SelectSeq(ready_cert.snapshot, LAMBDA r : r.position > base_cert.last)

combine_repair_records(phase) ==
    \/ phase = "base" /\ empty_root(Learner)
    \/ /\ phase = "ready" /\ installed # None /\ tail_payload # << >>
       /\ wal[Learner] = installed.snapshot
       /\ tail_payload[1].position = load_or_recover_retention(Learner).last + 1

finalize_repair_transfer(phase, written) ==
    LET statement == Certificate(phase)
        combined  == IF phase = "base" THEN statement.snapshot
                     ELSE wal[Learner] \o tail_payload IN
    /\ statement # None
    /\ transfer[phase] = Chunks
    /\ Receipt(phase) = None
    /\ combine_repair_records(phase)
    /\ combined = statement.snapshot
    /\ InstallRecords(combined, statement,
                      load_or_recover_retention(Learner).epoch + 1, phase, written)

-----------------------------------------------------------------------------
(***************************************************************************)
(* The policy transition.                                                  *)
(***************************************************************************)
Transition ==
    [readiness |-> ready_cert, root |-> ready_cert.snapshot, last |-> ready_cert.last,
     next |-> [epoch   |-> policy.epoch + 1,
               members |-> (policy.members \ {Failed}) \cup {Learner}]]

PrepareLogSetPolicyTransition ==
    /\ pending = None /\ staged = None
    /\ ready_cert # None
    /\ verify_tagged_log_repair_certificate(ready_cert, policy)
    /\ pending' = Transition
    /\ UNCHANGED << tlVars, policy, staged, committed, base_cert, ready_cert,
                    installed, ready, transfer, stage >>

\* Mutated form: the local suffix is not compared with the certified root.
stage_member_only(n) == n \in pending.next.members

stage_valid(n) ==
    /\ n \in pending.next.members
    /\ load_or_recover_retention(n).last = pending.last
    /\ wal[n] = pending.root
    /\ IF n \in Learners THEN ready = pending.readiness ELSE n \in policy.members

PolicyStage(n) ==
    /\ pending # None
    /\ stage_valid(n)
    /\ stage[n] = None
    /\ stage' = [stage EXCEPT ![n] = pending]
    /\ persist_retention(n, load_or_recover_retention(n))
    /\ UNCHANGED << wal, torn, fence, fence_tmp, activation, published, ghostVars,
                    policy, pending, staged, committed, base_cert, ready_cert,
                    installed, ready, transfer >>

\* The client asks the successor members one by one and keeps their signatures.
successor_stage == \E Q \in Certifying(pending.next.members) :
                      \A n \in Q : stage[n] = pending

CommitLogSetPolicyTransition ==
    /\ pending # None /\ staged = None
    /\ successor_stage
    /\ policy' = pending.next
    /\ pending' = None
    /\ UNCHANGED << tlVars, staged, committed, base_cert, ready_cert,
                    installed, ready, transfer, stage >>

\* The authority's members sign only a transition that they have committed.
authority_activation(transition) == transition # None /\ transition.next = policy

PolicyActivate(n) ==
    /\ activation[n] = None
    /\ authority_activation(stage[n])
    /\ n \in policy.members
    /\ activation' = [activation EXCEPT ![n] = policy.epoch]
    /\ persist_retention(n, load_or_recover_retention(n))
    /\ UNCHANGED << wal, torn, fence, fence_tmp, published, ghostVars, setVars >>

-----------------------------------------------------------------------------
RepairNext ==
    \/ \E e \in Envelopes : Stage(e) \/ \E n \in Nodes : Replicate(n, e)
    \/ \E Q \in Certifying(policy.members) :
          \/ durability_certificate(Q)
          \/ \E phase \in Phases : collect_repair_attestations(phase, Q)
    \/ CommitLogSetPolicyTransition
    \/ \E frontier \in Versions : PublishRoot(frontier)
    \/ \E n \in Nodes :
          \/ pop_through_object_frontier(n)
          \/ PolicyStage(n)
          \/ PolicyActivate(n)
    \/ \E written \in 1 .. 3 :
          \/ RepairInstall(written)
          \/ \E phase \in Phases : finalize_repair_transfer(phase, written)
    \/ RepairReady
    \/ \E phase \in Phases, chunk \in Chunks : store_repair_chunk(phase, chunk)
    \/ PrepareLogSetPolicyTransition

RepairSpec == RepairInit /\ [][RepairNext]_repairVars

-----------------------------------------------------------------------------
(***************************************************************************)
(* A repair worker asks every member and keeps, per position, the record a *)
(* quorum of the answers agrees on; one position without it fails the read.*)
(***************************************************************************)
feed(n) == {r \in Records(n) : r.version > kept[n].popped}

repair_worker(responding) ==
    LET observed == UNION {feed(n) : n \in responding}
        counted  == {r \in observed :
                       Cardinality({n \in responding : r \in feed(n)}) >= QuorumSize}
    IN [failed  |-> \E r \in observed :
                       Cardinality({c \in counted : c.position = r.position}) # 1,
        records |-> counted]

\* Whatever quorum of the current members answers, a worker's read either fails or
\* returns the record; a read that misses it would be taken for the end of the log.
Recoverable(record) ==
    \A Q \in Quorums(policy.members) :
       LET read == repair_worker(Q) IN read.failed \/ record \in read.records

\* The records the transition carried over, or that the current policy certified,
\* stay recoverable from every quorum of the current members until an object root
\* covers them: through repair in either form, a crash between any two of the
\* learner's writes, and the change of quorums.
CertifiedRecoverable ==
    \A c \in committed :
       \/ c.record.version <= published
       \/ Recoverable(c.record)
       \/ /\ policy # InitialPolicy /\ c.epoch # policy.epoch
          /\ \A k \in DOMAIN ready_cert.snapshot : ready_cert.snapshot[k] # c.record

\* RFC-0046 asks for more: no committed record may be lost to the new quorums.
CommittedRecoverable ==
    \A c \in committed : c.record.version <= published \/ Recoverable(c.record)

\* RFC-0045: "Exact replay of the same repair is idempotent": while the learner has
\* no receipt for the base, sending the same base again installs it.
BaseReplayable ==
    base_cert # None /\ installed = None => empty_root(Learner)
=============================================================================
