------------------------ MODULE GenerationAuthority ------------------------
(***************************************************************************)
(* The coordinator-owned descriptor of one cell's transaction system       *)
(* (okv-consensus, generation.rs).  The descriptor is one replicated       *)
(* state-machine value; every action below is one accepted                 *)
(* GenerationAction, applied atomically in log order.  A refused command   *)
(* leaves the descriptor unchanged, so refusals are stuttering steps.      *)
(*                                                                         *)
(* Abstractions: a member is its node id together with its pinned public   *)
(* key; a certificate is the set of its distinct valid signers together    *)
(* with the log index of its statement; log terms are left out.  Compare   *)
(* and set fields (expected generation, control root, membership epoch     *)
(* and digest) equal the current ones in every accepted command.           *)
(***************************************************************************)
EXTENDS Integers, FiniteSets

CONSTANTS
    Voters,           \* data-voter node identities
    TxSystems,        \* transaction-system identities
    RecoveryIds,      \* recovery identities a controller may propose
    ReconfigIds,      \* routine-reconfiguration identities
    Incarnations,     \* storage incarnations of replacement voters
    MemberSets,       \* voter sets a controller may propose
    MaxGeneration,    \* bound: no Prepare beyond this generation
    MaxIndex,         \* bound: log indexes named by certificates
    None              \* the absent value of an Option

ASSUME GenerationConstants ==
    /\ MemberSets \subseteq SUBSET Voters
    /\ {} \notin MemberSets
    /\ MaxGeneration \in Nat \ {0}
    /\ MaxIndex \in Nat \ {0}
    /\ None \notin Voters \cup TxSystems \cup RecoveryIds \cup ReconfigIds

VARIABLE authority    \* GenerationAuthorityState

Phases == {"Uninitialized", "Active", "Fencing", "Recovering"}

\* Mutated form: a strict quorum of all members and one more.
quorum_size_unreachable(n) == n + 1

quorum_size(n) == n \div 2 + 1

\* GenerationAuthorityState::default
DefaultAuthority ==
    [ generation                      |-> 0,
      phase                           |-> "Uninitialized",
      recovery_id                     |-> None,
      transaction_system_id           |-> None,
      pending_transaction_system_id   |-> None,
      members                         |-> {},
      incarnations                    |-> << >>,
      pending_members                 |-> {},
      pending_incarnations            |-> << >>,
      control_root_version            |-> 0,
      fenced_log_index                |-> 0,
      recovered_log_index             |-> 0,
      last_completed_generation       |-> 0,
      last_completed_recovery_id      |-> None,
      membership_epoch                |-> 0,
      pending_reconfiguration         |-> None,
      completed_reconfigurations      |-> {} ]

\* Whether a command carrying the credential (generation, system) may apply.
authorizes(a, generation, system) ==
    /\ a.phase = "Active"
    /\ a.generation = generation
    /\ a.transaction_system_id = system

\* Mutated form: the recovered position need not pass the fenced one.
verify_certificate_ignoring_fence(a, kind, signers, index, members) ==
    /\ index # 0
    /\ members # {}
    /\ signers \subseteq members
    /\ Cardinality(signers) >= quorum_size(Cardinality(members))

\* A certificate by `signers` on log index `index`, checked against `members`.
verify_recovery_certificate(a, kind, signers, index, members) ==
    /\ index # 0
    /\ members # {}
    /\ kind = "Recovered" => index > a.fenced_log_index
    /\ signers \subseteq members
    /\ Cardinality(signers) >= quorum_size(Cardinality(members))

verify_routine_certificate(a, kind, signers, snapshot, applied) ==
    LET pending == a.pending_reconfiguration IN
    /\ pending # None
    /\ snapshot # 0
    /\ applied >= snapshot
    /\ kind = "MembershipCommitted" =>
          /\ pending.applied # None
          /\ applied > pending.applied
    /\ signers \subseteq a.members \cup pending.next_members
    /\ IF kind = "LearnerReady"
       THEN /\ pending.node \in signers
            /\ Cardinality(signers \cap a.members)
                  >= quorum_size(Cardinality(a.members))
       ELSE Cardinality(signers \cap pending.next_members)
                  >= quorum_size(Cardinality(pending.next_members))

\* Exactly one voter leaves and the named fresh one, on a fresh storage
\* incarnation, enters.
valid_routine_replacement(a, next, next_incarnations, node, incarnation) ==
    /\ a.members # {} /\ DOMAIN a.incarnations = a.members
    /\ next # {} /\ DOMAIN next_incarnations = next
    /\ Cardinality(a.members) = Cardinality(next)
    /\ node \notin a.members
    /\ node \in next
    /\ next_incarnations[node] = incarnation
    /\ \A old \in a.members : a.incarnations[old] # incarnation
    /\ Cardinality(a.members \ next) = 1
    /\ Cardinality(next \ a.members) = 1

-----------------------------------------------------------------------------
GenerationInit == authority = DefaultAuthority

Bootstrapped(system, members, incarnations) ==
    [DefaultAuthority EXCEPT
       !.generation                = 1,
       !.phase                     = "Active",
       !.transaction_system_id     = system,
       !.members                   = members,
       !.incarnations              = incarnations,
       !.control_root_version      = 1,
       !.last_completed_generation = 1]

Bootstrap(system, members, incarnations) ==
    /\ authority.phase = "Uninitialized"
    /\ authority' = Bootstrapped(system, members, incarnations)

may_prepare(a) == a.phase = "Active" /\ a.pending_reconfiguration = None

\* Mutated form: the successor reuses its predecessor's generation.
same_generation(a) == a.generation

next_generation(a) == a.generation + 1

\* The fault-free branch: an Active system without a pending voter replacement
\* enters Fencing under the next generation.
Prepare(recovery, system, members, incarnations) ==
    /\ may_prepare(authority)
    /\ authority.generation < MaxGeneration
    /\ authority' =
          [authority EXCEPT
             !.generation                    = next_generation(authority),
             !.phase                         = "Fencing",
             !.recovery_id                   = recovery,
             !.pending_transaction_system_id = system,
             !.pending_members               = members,
             !.pending_incarnations          = incarnations,
             !.fenced_log_index              = 0,
             !.recovered_log_index           = 0]

Reserve(recovery, system, signers, index) ==
    /\ authority.phase = "Fencing"
    /\ authority.recovery_id = recovery
    /\ authority.pending_transaction_system_id = system
    /\ verify_recovery_certificate(authority, "Fence", signers, index,
                                   authority.members)
    /\ authority' = [authority EXCEPT !.phase            = "Recovering",
                                      !.fenced_log_index = index]

clear_pending_system(a) ==
    [a EXCEPT !.recovery_id                   = None,
              !.pending_transaction_system_id = None,
              !.pending_members               = {},
              !.pending_incarnations          = << >>]

Activate(recovery, system, signers, index) ==
    /\ authority.phase = "Recovering"
    /\ authority.recovery_id = recovery
    /\ authority.pending_transaction_system_id = system
    /\ verify_recovery_certificate(authority, "Recovered", signers, index,
                                   authority.pending_members)
    /\ authority' =
          clear_pending_system(
             [authority EXCEPT
                !.phase                      = "Active",
                !.last_completed_recovery_id = authority.recovery_id,
                !.transaction_system_id      = system,
                !.members                    = authority.pending_members,
                !.incarnations               = authority.pending_incarnations,
                !.control_root_version       = @ + 1,
                !.recovered_log_index        = index,
                !.last_completed_generation  = authority.generation])

-----------------------------------------------------------------------------

already_completed(a, id) ==
    \E done \in a.completed_reconfigurations : done.id = id

RoutineCandidate(a, id, node, incarnation, next, next_incarnations) ==
    [ id                |-> id,
      epoch             |-> a.membership_epoch,
      phase             |-> "Prepared",
      node              |-> node,
      incarnation       |-> incarnation,
      next_members      |-> next,
      next_incarnations |-> next_incarnations,
      snapshot          |-> None,
      applied           |-> None ]

\* The status of a PrepareRoutineReconfiguration command whose comparisons with
\* the current generation, epoch and membership digest succeed.
PrepareRoutineStatus(a, id, node, incarnation, next, next_incarnations) ==
    IF already_completed(a, id) THEN "AlreadyCompleted"
    ELSE IF a.phase # "Active" THEN "InvalidPhase"
    ELSE IF ~ valid_routine_replacement(a, next, next_incarnations, node,
                                        incarnation) THEN "InvalidRequest"
    ELSE IF a.pending_reconfiguration \in
              {None, RoutineCandidate(a, id, node, incarnation, next,
                                      next_incarnations)} THEN "Accepted"
    ELSE "ReconfigurationConflict"

PrepareRoutineReconfiguration(id, node, incarnation, next, next_incarnations) ==
    /\ PrepareRoutineStatus(authority, id, node, incarnation, next,
                            next_incarnations) = "Accepted"
    /\ authority' = [authority EXCEPT !.pending_reconfiguration =
                       RoutineCandidate(authority, id, node, incarnation, next,
                                        next_incarnations)]

MarkRoutineLearnerReady(id, signers, snapshot, applied) ==
    /\ authority.phase = "Active"
    /\ authority.pending_reconfiguration # None
    /\ authority.pending_reconfiguration.id = id
    /\ authority.pending_reconfiguration.phase = "Prepared"
    /\ verify_routine_certificate(authority, "LearnerReady", signers,
                                  snapshot, applied)
    /\ authority' =
          [authority EXCEPT !.pending_reconfiguration =
             [@ EXCEPT !.phase    = "LearnerReady",
                       !.snapshot = snapshot,
                       !.applied  = applied]]

FinalizeRoutineReconfiguration(id, signers, snapshot, applied) ==
    /\ ~ already_completed(authority, id)
    /\ authority.phase = "Active"
    /\ authority.pending_reconfiguration # None
    /\ authority.pending_reconfiguration.id = id
    /\ authority.pending_reconfiguration.phase = "LearnerReady"
    /\ verify_routine_certificate(authority, "MembershipCommitted", signers,
                                  snapshot, applied)
    /\ LET pending == authority.pending_reconfiguration IN
       authority' =
          [authority EXCEPT
             !.pending_reconfiguration = None,
             !.members                 = pending.next_members,
             !.incarnations            = pending.next_incarnations,
             !.membership_epoch        = @ + 1,
             !.completed_reconfigurations =
                @ \cup {[ id       |-> id,
                          epoch    |-> authority.membership_epoch + 1,
                          members  |-> pending.next_members,
                          position |-> applied ]}]

-----------------------------------------------------------------------------
\* Incarnations are optional: a voter set is proposed without any, or with one
\* for every member.
IncarnationMaps(members) == {<< >>} \cup [members -> Incarnations]

Indexes == 1 .. MaxIndex

\* The bound leaves an index for the recovered position to pass the fence.
FenceIndexes == 1 .. MaxIndex - 1

PrepareStep ==
    \E recovery \in RecoveryIds, system \in TxSystems, members \in MemberSets :
       \E inc \in IncarnationMaps(members) :
          Prepare(recovery, system, members, inc)

ReserveStep ==
    \E recovery \in RecoveryIds, system \in TxSystems,
       signers \in SUBSET authority.members, index \in FenceIndexes :
          Reserve(recovery, system, signers, index)

ActivateStep ==
    \E recovery \in RecoveryIds, system \in TxSystems,
       signers \in SUBSET authority.pending_members, index \in Indexes :
          Activate(recovery, system, signers, index)

RecoveryNext == PrepareStep \/ ReserveStep \/ ActivateStep

RoutineNext ==
    \E id \in ReconfigIds :
       \/ \E node \in Voters, incarnation \in Incarnations, next \in MemberSets :
             \E inc \in [next -> Incarnations] :
                PrepareRoutineReconfiguration(id, node, incarnation, next, inc)
       \/ \E signers \in SUBSET Voters, snapshot, applied \in Indexes :
             \/ MarkRoutineLearnerReady(id, signers, snapshot, applied)
             \/ FinalizeRoutineReconfiguration(id, signers, snapshot, applied)

BootstrapStep ==
    \E system \in TxSystems, members \in MemberSets :
       \E inc \in IncarnationMaps(members) : Bootstrap(system, members, inc)

GenerationNext == BootstrapStep \/ RecoveryNext \/ RoutineNext

\* A controller that prepared a recovery, or its replacement, keeps collecting
\* the fence and recovery certificates until they are accepted.
GenerationFairness == WF_authority(ReserveStep) /\ WF_authority(ActivateStep)

GenerationSpec == GenerationInit /\ [][GenerationNext]_authority

FairGenerationSpec == GenerationSpec /\ GenerationFairness

-----------------------------------------------------------------------------
IncarnationType ==
    {<< >>} \cup UNION {[members -> Incarnations] : members \in SUBSET Voters}

PendingReconfigurations ==
    [ id : ReconfigIds, epoch : Nat, phase : {"Prepared", "LearnerReady"},
      node : Voters, incarnation : Incarnations, next_members : SUBSET Voters,
      next_incarnations : IncarnationType,
      snapshot : Nat \cup {None}, applied : Nat \cup {None} ]

CompletedSets ==
    SUBSET [ id : ReconfigIds, epoch : Nat, members : SUBSET Voters,
             position : Nat ]

AuthorityType ==
    [ generation                      : Nat,
      phase                           : Phases,
      recovery_id                     : RecoveryIds \cup {None},
      transaction_system_id           : TxSystems \cup {None},
      pending_transaction_system_id   : TxSystems \cup {None},
      members                         : SUBSET Voters,
      incarnations                    : IncarnationType,
      pending_members                 : SUBSET Voters,
      pending_incarnations            : IncarnationType,
      control_root_version            : Nat,
      fenced_log_index                : Nat,
      recovered_log_index             : Nat,
      last_completed_generation       : Nat,
      last_completed_recovery_id      : RecoveryIds \cup {None},
      membership_epoch                : Nat,
      pending_reconfiguration         : PendingReconfigurations \cup {None},
      completed_reconfigurations      : CompletedSets ]

\* Type invariant of the descriptor: every field has its type, and the pending
\* fields of a recovery are set exactly while one is under way.
GenerationTypeOK ==
    /\ authority \in AuthorityType
    /\ authority.recovery_id # None <=> authority.phase \in {"Fencing", "Recovering"}
    /\ authority.pending_transaction_system_id # None <=>
          authority.phase \in {"Fencing", "Recovering"}

\* A system is never Active in a generation it did not recover into: an active
\* generation is the last completed one, and its certified recovered position
\* lies beyond the position at which its predecessor was fenced (Activate).
ActiveIsRecovered ==
    authority.phase = "Active" /\ authority.generation > 1 =>
       /\ authority.last_completed_generation = authority.generation
       /\ 0 < authority.fenced_log_index
       /\ authority.fenced_log_index < authority.recovered_log_index

\* A pending voter replacement always replaces one voter of the voter set that
\* is in force now: no recovery installs another voter set between Prepare and
\* Finalize of the replacement.
ReplacementBindsCurrentVoters ==
    LET pending == authority.pending_reconfiguration IN
    pending # None =>
       /\ pending.epoch = authority.membership_epoch
       /\ valid_routine_replacement(authority, pending.next_members,
                                    pending.next_incarnations, pending.node,
                                    pending.incarnation)

\* A voter replacement takes effect once: an identity is completed under one
\* epoch, and no two replacements share an epoch.
ReplacementsCompleteOnce ==
    \A c, d \in authority.completed_reconfigurations :
       /\ c.epoch \in 1 .. authority.membership_epoch
       /\ c.id = d.id \/ c.epoch = d.epoch => c = d

\* An activation always completes a generation newer than every generation
\* activated before it, and the generation never decreases (RFC-0009).
ActivationAdvances ==
    [][/\ authority'.generation >= authority.generation
       /\ authority.phase # "Active" /\ authority'.phase = "Active" =>
             authority'.generation > authority.last_completed_generation]_authority

\* A prepared recovery ends with an active successor.
RecoveryCompletes ==
    authority.phase \in {"Fencing", "Recovering"} ~> authority.phase = "Active"

\* RFC-0023: when the voter set loses quorum during a routine replacement,
\* "Recovery proceeds through RFC-0009 with a new generation": while Active, a
\* recovery of the next generation can always be prepared.
RecoveryAlwaysAvailable ==
    authority.phase = "Active" /\ authority.generation < MaxGeneration =>
       ENABLED PrepareStep

\* RFC-0023: "Every request and response is idempotent under the stable
\* reconfiguration identity": repeating the prepare command of the pending
\* replacement is accepted again.
PrepareRoutineIsIdempotent ==
    LET pending == authority.pending_reconfiguration IN
    pending # None =>
       PrepareRoutineStatus(authority, pending.id, pending.node,
                            pending.incarnation, pending.next_members,
                            pending.next_incarnations) = "Accepted"
=============================================================================
