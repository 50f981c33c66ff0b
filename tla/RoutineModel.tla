----------------------------- MODULE RoutineModel -----------------------------
(* The reference model of routine voter replacement of                          *)
(* okv-model/src/routine_reconfiguration.rs: its authority and the scripted     *)
(* contract over it, under each deliberately unsafe mode.  In the free part     *)
(* coordinators issue the same calls in any order, retries included.            *)
EXTENDS Integers, Sequences, FiniteSets

CONSTANTS
  Nodes,         \* node identities of the free part
  Positions,     \* log positions
  MaxEpoch,      \* bound on the membership epoch
  NULL

VARIABLES part, mode,
  authority,     \* AuthorityModel
  step,          \* checks of the script executed
  failed,        \* checks it failed
  promoted       \* ids whose membership was committed once its learner was ready

vars == <<part, mode, authority, step, failed, promoted>>

Modes == {"Correct", "ReuseNodeIdentity", "AdmitLearnerWithoutAuthority", "PromoteBeforeCatchup",
          "AcceptStaleMembershipEpoch", "AcceptConcurrentReconfiguration", "DoubleApplyFinalizeRetry",
          "AcceptRemovedVoterCommit", "RepairWithoutDataQuorum"}

NewAuthority ==
  [generation |-> 7, epoch |-> 4, voters |-> {1, 2, 3}, incarnations |-> [n \in {1, 2, 3} |-> n],
   pending |-> NULL, completed |-> {}]

\* An attempt: the voters it leaves, the node that joins and its incarnation.
Attempt(id, epoch, next, node, incarnation) ==
  [id |-> id, epoch |-> epoch, next |-> next, node |-> node, incarnation |-> incarnation]

candidate(a, t) ==
  [id |-> t.id, epoch |-> t.epoch, old |-> a.voters, next |-> t.next, node |-> t.node,
   incarnation |-> t.incarnation, ready |-> NULL, membership |-> NULL]

Incarnations(a) == {a.incarnations[n] : n \in DOMAIN a.incarnations}

prepare_accepts(a, generation, t) ==
  /\ generation = a.generation
  /\ t.epoch = a.epoch \/ mode = "AcceptStaleMembershipEpoch"
  /\ Cardinality(t.next) = Cardinality(a.voters) /\ t.node \in t.next
  /\ \/ mode = "ReuseNodeIdentity"
     \/ t.node \notin a.voters /\ t.incarnation \notin Incarnations(a)
  /\ \/ a.pending = NULL \/ a.pending = candidate(a, t)
     \/ mode = "AcceptConcurrentReconfiguration"
prepare(a, generation, t) ==
  IF prepare_accepts(a, generation, t) THEN [a EXCEPT !.pending = candidate(a, t)] ELSE a

authorize_learner(a, id, node, incarnation) ==
  \/ mode = "AdmitLearnerWithoutAuthority"
  \/ a.pending # NULL /\ a.pending.id = id /\ a.pending.node = node /\ a.pending.incarnation = incarnation

ready_accepts(a, id, snapshot, applied, next) ==
  /\ a.pending # NULL /\ a.pending.id = id /\ a.pending.next = next
  /\ snapshot # 0 /\ applied >= snapshot
mark_learner_ready(a, id, snapshot, applied, next) ==
  IF ready_accepts(a, id, snapshot, applied, next) THEN [a EXCEPT !.pending.ready = applied] ELSE a

\* Mutated form: promotion does not wait for the learner.
commit_accepts_unready(a, id, next, position) ==
  a.pending # NULL /\ a.pending.id = id /\ a.pending.next = next

commit_accepts(a, id, next, position) ==
  /\ a.pending # NULL /\ a.pending.id = id /\ a.pending.next = next
  /\ \/ mode = "PromoteBeforeCatchup"
     \/ a.pending.ready # NULL /\ position > a.pending.ready
commit_membership(a, id, next, position) ==
  IF commit_accepts(a, id, next, position) THEN [a EXCEPT !.pending.membership = position] ELSE a

finalize_accepts(a, id, position) ==
  \/ id \in a.completed
  \/ a.pending # NULL /\ a.pending.id = id /\ a.pending.membership = position

\* A retry of a completed id changes nothing.
finalize(a, id, position) ==
  IF id \in a.completed
  THEN IF mode = "DoubleApplyFinalizeRetry" THEN [a EXCEPT !.epoch = @ + 1] ELSE a
  ELSE IF ~finalize_accepts(a, id, position) THEN a
  ELSE LET p == a.pending
       IN [a EXCEPT !.voters = p.next, !.epoch = @ + 1, !.completed = @ \cup {id}, !.pending = NULL,
                    !.incarnations = [n \in (DOMAIN @ \cap p.next) \cup {p.node} |->
                                        IF n = p.node THEN p.incarnation ELSE @[n]]]

can_commit(a, node, generation, quorum) ==
  quorum /\ generation = a.generation /\ (node \in a.voters \/ (mode = "AcceptRemovedVoterCommit" /\ node = 1))
can_complete_routine_repair(quorum) == quorum \/ mode = "RepairWithoutDataQuorum"

(***************************************************************************)
(* Scenario::run.                                                          *)
(***************************************************************************)
Reuse == mode = "ReuseNodeIdentity"
Next3 == IF Reuse THEN {1, 2, 3} ELSE {2, 3, 4}
Joining == IF Reuse THEN 1 ELSE 4
Replacement(epoch) == Attempt(9, epoch, Next3, Joining, Joining)

\* Authority after each accepted call of the script.
prepared  == prepare(NewAuthority, 7, Replacement(4))
ready     == mark_learner_ready(prepared, 9, 8, 11, Next3)
committed == commit_membership(ready, 9, Next3, 12)
finalized == finalize(committed, 9, 12)
retried   == finalize(finalized, 9, 12)

Checks ==
  <<~authorize_learner(NewAuthority, 9, Joining, Joining),
    ~prepare_accepts(NewAuthority, 7, Replacement(3)),
    prepare_accepts(NewAuthority, 7, Replacement(4)),
    Joining = 4,
    prepared.generation = 7,
    ~prepare_accepts(prepared, 7, Attempt(10, 4, {1, 3, 5}, 5, 5)),
    authorize_learner(prepared, 9, Joining, Joining),
    can_commit(prepared, 2, 7, TRUE),
    ~commit_accepts(prepared, 9, Next3, 10),
    ready_accepts(prepared, 9, 8, 11, Next3),
    commit_accepts(ready, 9, Next3, 12),
    finalize_accepts(committed, 9, 12),
    finalize_accepts(finalized, 9, 12),
    retried.epoch = 5,
    retried.voters = {2, 3, 4},
    retried.generation = 7,
    ~can_commit(retried, 1, 7, TRUE),
    can_commit(retried, 4, 7, TRUE),
    ~can_complete_routine_repair(FALSE)>>

RunScript ==
  /\ part = "script" /\ step < Len(Checks)
  /\ step' = step + 1
  /\ failed' = IF Checks[step'] THEN failed ELSE failed \cup {step'}
  /\ UNCHANGED <<part, mode, authority, promoted>>

(***************************************************************************)
(* Free part: one id per joining node.                                     *)
(***************************************************************************)
Call(a) == part = "free" /\ authority' = a /\ UNCHANGED <<part, mode, step, failed>>

Prepare(node, leaving, epoch) ==
  LET t == Attempt(node, epoch, (authority.voters \ {leaving}) \cup {node}, node, node)
  IN Call(prepare(authority, 7, t)) /\ UNCHANGED promoted

LearnerReady(id, applied) ==
  /\ authority.pending # NULL
  /\ Call(mark_learner_ready(authority, id, 1, applied, authority.pending.next)) /\ UNCHANGED promoted

CommitMembership(id, position) ==
  /\ authority.pending # NULL
  /\ Call(commit_membership(authority, id, authority.pending.next, position))
  /\ promoted' = IF authority'.pending.membership = position /\ authority.pending.ready # NULL
                    /\ authority.pending.ready < position
                 THEN promoted \cup {id} ELSE promoted

Finalize(id, position) ==
  authority.epoch < MaxEpoch /\ Call(finalize(authority, id, position)) /\ UNCHANGED promoted

RoutineInit ==
  /\ part \in {"free", "script"}
  /\ mode \in IF part = "free" THEN {"Correct"} ELSE Modes
  /\ authority = NewAuthority /\ step = 0 /\ failed = {} /\ promoted = {}

RoutineNext ==
  \/ RunScript
  \/ \E n \in Nodes, l \in authority.voters, e \in 4..MaxEpoch : Prepare(n, l, e)
  \/ \E id \in Nodes, p \in Positions : LearnerReady(id, p) \/ CommitMembership(id, p) \/ Finalize(id, p)

RoutineSpec == RoutineInit /\ [][RoutineNext]_vars

-----------------------------------------------------------------------------
\* However the calls and their retries interleave, the epoch counts completed
\* replacements, and every voter that joined had caught up before it was
\* promoted ("membership_epoch_advances_once",
\* "promotion_requires_snapshot_and_suffix").
ReplacedOnceCaughtUp ==
  part = "free" =>
    /\ authority.epoch = 4 + Cardinality(authority.completed)
    /\ authority.completed \subseteq promoted
    /\ Cardinality(authority.voters) = 3

\* A replacement in progress can still be finalized with effect.
PendingCompletes ==
  part = "free" /\ authority.pending # NULL => authority.pending.id \notin authority.completed

\* The script fails a check exactly under a control
\* (every_negative_control_has_a_bounded_failure).
RoutineDetects == part = "script" /\ step = Len(Checks) => ((failed = {}) <=> (mode = "Correct"))
=============================================================================
