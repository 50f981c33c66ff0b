--------------------- MODULE GenerationAuthorityProofs ---------------------
(***************************************************************************)
(* Proofs about the generation authority, for every set of voters and      *)
(* identities and without the bounds of the TLC instances.                 *)
(***************************************************************************)
EXTENDS GenerationAuthority, TLAPS

(***************************************************************************)
(* The inductive invariant.  ActiveIsRecovered alone is not inductive: an  *)
(* activation relies on the fence recorded two steps earlier and on the    *)
(* generation that was current then.                                       *)
(***************************************************************************)
GenerationInv ==
    /\ GenerationTypeOK
    /\ authority.phase = "Uninitialized" =>
          authority.generation = 0 /\ authority.last_completed_generation = 0
    /\ authority.phase = "Active" =>
          /\ authority.generation = authority.last_completed_generation
          /\ authority.generation > 1 =>
                /\ 0 < authority.fenced_log_index
                /\ authority.fenced_log_index < authority.recovered_log_index
    /\ authority.phase \in {"Fencing", "Recovering"} =>
          authority.generation = authority.last_completed_generation + 1
    /\ authority.phase = "Recovering" => 0 < authority.fenced_log_index
    /\ authority.pending_reconfiguration # None => authority.phase = "Active"
    /\ ReplacementBindsCurrentVoters

\* A proposed voter set and its incarnations are well typed.
LEMMA MapsAreTyped ==
  ASSUME NEW members \in MemberSets
  PROVE  /\ members \in SUBSET Voters
         /\ IncarnationMaps(members) \subseteq IncarnationType
         /\ [members -> Incarnations] \subseteq IncarnationType
  <1>1. members \in SUBSET Voters
    BY GenerationConstants DEF GenerationConstants
  <1>2. [members -> Incarnations] \subseteq IncarnationType
    BY <1>1 DEF IncarnationType
  <1> QED
    BY <1>1, <1>2 DEF IncarnationMaps, IncarnationType

\* The descriptor before Bootstrap is well typed.
LEMMA DefaultIsTyped == DefaultAuthority \in AuthorityType
  <1>1. << >> \in IncarnationType /\ {} \in CompletedSets /\ {} \in SUBSET Voters
    BY DEF IncarnationType, CompletedSets
  <1>2. "Uninitialized" \in Phases
    BY DEF Phases
  <1> QED
    BY <1>1, <1>2 DEF DefaultAuthority, AuthorityType

\* Bootstrap preserves the invariant.
LEMMA BootstrapInv ==
  ASSUME GenerationInv, BootstrapStep
  PROVE  GenerationInv'
  <1>0. PICK system \in TxSystems, members \in MemberSets :
               \E inc \in IncarnationMaps(members) :
                  Bootstrap(system, members, inc)
    BY DEF BootstrapStep
  <1>1. PICK inc \in IncarnationMaps(members) : Bootstrap(system, members, inc)
    BY <1>0
  <1>2. inc \in IncarnationType /\ members \in SUBSET Voters
    BY MapsAreTyped
  <1>3. "Active" \in Phases /\ 1 \in Nat /\ system \in TxSystems \cup {None}
    BY DEF Phases
  <1>4. authority' \in AuthorityType
    BY <1>1, <1>2, <1>3, DefaultIsTyped, Zenon
    DEF AuthorityType, Bootstrap, Bootstrapped
  <1>5. /\ authority'.phase = "Active"
        /\ authority'.generation = 1
        /\ authority'.last_completed_generation = 1
        /\ authority'.pending_reconfiguration = None
        /\ authority'.recovery_id = None
        /\ authority'.pending_transaction_system_id = None
    BY <1>1, DefaultIsTyped
    DEF AuthorityType, Bootstrap, Bootstrapped, DefaultAuthority
  <1> QED
    BY <1>4, <1>5 DEF GenerationInv, GenerationTypeOK, ReplacementBindsCurrentVoters

\* Prepare preserves the invariant: it opens exactly the next generation.
LEMMA PrepareInv ==
  ASSUME GenerationInv, PrepareStep
  PROVE  GenerationInv'
  <1>0. PICK recovery \in RecoveryIds, system \in TxSystems,
             members \in MemberSets :
               \E inc \in IncarnationMaps(members) :
                  Prepare(recovery, system, members, inc)
    BY DEF PrepareStep
  <1>1. PICK inc \in IncarnationMaps(members) :
               Prepare(recovery, system, members, inc)
    BY <1>0
  <1>2. inc \in IncarnationType /\ members \in SUBSET Voters
    BY MapsAreTyped
  <1>3. /\ "Fencing" \in Phases /\ 0 \in Nat
        /\ system \in TxSystems \cup {None}
        /\ recovery \in RecoveryIds \cup {None}
        /\ next_generation(authority) \in Nat
    BY DEF Phases, GenerationInv, GenerationTypeOK, AuthorityType, next_generation
  <1>4. authority' \in AuthorityType
    BY <1>1, <1>2, <1>3, Zenon DEF AuthorityType, GenerationInv, GenerationTypeOK, Prepare
  <1>5. /\ authority'.phase = "Fencing"
        /\ authority'.generation = authority.generation + 1
        /\ authority'.last_completed_generation = authority.last_completed_generation
        /\ authority.phase = "Active"
        /\ authority'.pending_reconfiguration = None
        /\ authority'.recovery_id = recovery
        /\ authority'.pending_transaction_system_id = system
    BY <1>1 DEF AuthorityType, GenerationInv, GenerationTypeOK, Prepare, next_generation, may_prepare
  <1>6. recovery # None /\ system # None
    BY GenerationConstants DEF GenerationConstants
  <1> QED
    BY <1>4, <1>5, <1>6
    DEF GenerationInv, GenerationTypeOK, ReplacementBindsCurrentVoters

\* Reserve preserves the invariant: the fence it records is not zero.
LEMMA ReserveInv ==
  ASSUME GenerationInv, ReserveStep
  PROVE  GenerationInv'
  <1>1. PICK recovery \in RecoveryIds, system \in TxSystems,
             signers \in SUBSET authority.members, index \in FenceIndexes :
                Reserve(recovery, system, signers, index)
    BY DEF ReserveStep
  <1>2. index \in Nat /\ 0 < index /\ "Recovering" \in Phases
    BY GenerationConstants DEF FenceIndexes, GenerationConstants, Phases
  <1>3. authority' \in AuthorityType
    BY <1>1, <1>2 DEF AuthorityType, GenerationInv, GenerationTypeOK, Reserve
  <1>4. /\ authority'.phase = "Recovering"
        /\ authority.phase = "Fencing"
        /\ authority'.generation = authority.generation
        /\ authority'.last_completed_generation = authority.last_completed_generation
        /\ authority'.fenced_log_index = index
        /\ authority'.pending_reconfiguration = None
        /\ authority'.recovery_id = authority.recovery_id
        /\ authority'.pending_transaction_system_id =
              authority.pending_transaction_system_id
    BY <1>1 DEF AuthorityType, GenerationInv, GenerationTypeOK, Reserve
  <1> QED
    BY <1>2, <1>3, <1>4 DEF GenerationInv, GenerationTypeOK, ReplacementBindsCurrentVoters

\* Activate preserves the invariant: it completes the prepared generation at a
\* position past the recorded fence.
LEMMA ActivateInv ==
  ASSUME GenerationInv, ActivateStep
  PROVE  GenerationInv'
  <1>1. PICK recovery \in RecoveryIds, system \in TxSystems,
             signers \in SUBSET authority.pending_members, index \in Indexes :
                Activate(recovery, system, signers, index)
    BY DEF ActivateStep
  <1> DEFINE opened == [authority EXCEPT
                !.phase                      = "Active",
                !.last_completed_recovery_id = authority.recovery_id,
                !.transaction_system_id      = system,
                !.members                    = authority.pending_members,
                !.incarnations               = authority.pending_incarnations,
                !.control_root_version       = @ + 1,
                !.recovered_log_index        = index,
                !.last_completed_generation  = authority.generation]
  <1>2. /\ index \in Nat /\ "Active" \in Phases
        /\ system \in TxSystems \cup {None}
        /\ << >> \in IncarnationType /\ {} \in SUBSET Voters
        /\ authority.control_root_version + 1 \in Nat
    BY GenerationConstants
    DEF Indexes, GenerationConstants, Phases, GenerationInv, GenerationTypeOK, AuthorityType,
        IncarnationType
  <1>3. opened \in AuthorityType
    BY <1>2, Zenon DEF AuthorityType, GenerationInv, GenerationTypeOK
  <1>4. authority' = clear_pending_system(opened)
    BY <1>1 DEF Activate
  <1>5. authority' \in AuthorityType
    BY <1>2, <1>3, <1>4, Zenon DEF AuthorityType, clear_pending_system
  <1>6. /\ opened.phase = "Active"
        /\ opened.generation = authority.generation
        /\ opened.last_completed_generation = authority.generation
        /\ opened.fenced_log_index = authority.fenced_log_index
        /\ opened.recovered_log_index = index
        /\ opened.pending_reconfiguration = authority.pending_reconfiguration
    BY <1>2, Zenon DEF AuthorityType, GenerationInv, GenerationTypeOK
  <1> HIDE DEF opened
  <1>7. /\ authority'.phase = "Active"
        /\ authority'.generation = authority.generation
        /\ authority'.last_completed_generation = authority.generation
        /\ authority'.fenced_log_index = authority.fenced_log_index
        /\ authority'.recovered_log_index = index
        /\ authority'.pending_reconfiguration = authority.pending_reconfiguration
        /\ authority'.recovery_id = None
        /\ authority'.pending_transaction_system_id = None
    BY <1>3, <1>4, <1>6 DEF AuthorityType, clear_pending_system
  <1>8. /\ authority.phase = "Recovering"
        /\ authority.fenced_log_index < index
    BY <1>1 DEF Activate, verify_recovery_certificate
  <1> QED
    BY <1>5, <1>7, <1>8 DEF GenerationInv, GenerationTypeOK, ReplacementBindsCurrentVoters

\* Preparing a voter replacement binds it to the voter set in force.
LEMMA PrepareRoutineInv ==
  ASSUME GenerationInv,
         NEW id \in ReconfigIds, NEW node \in Voters,
         NEW incarnation \in Incarnations, NEW next \in MemberSets,
         NEW inc \in [next -> Incarnations],
         PrepareRoutineReconfiguration(id, node, incarnation, next, inc)
  PROVE  GenerationInv'
  <1> DEFINE candidate == RoutineCandidate(authority, id, node, incarnation,
                                           next, inc)
  <1>1. inc \in IncarnationType /\ next \in SUBSET Voters
    BY MapsAreTyped
  <1>2. candidate \in PendingReconfigurations
    BY <1>1 DEF RoutineCandidate, PendingReconfigurations, GenerationInv, GenerationTypeOK,
                AuthorityType
  <1>3. authority' = [authority EXCEPT !.pending_reconfiguration = candidate]
    BY DEF PrepareRoutineReconfiguration
  <1>4. /\ authority.phase = "Active"
        /\ valid_routine_replacement(authority, next, inc, node, incarnation)
    BY DEF PrepareRoutineReconfiguration, PrepareRoutineStatus
  <1>5. /\ candidate.epoch = authority.membership_epoch
        /\ candidate.next_members = next
        /\ candidate.next_incarnations = inc
        /\ candidate.node = node
        /\ candidate.incarnation = incarnation
    BY DEF RoutineCandidate
  <1> HIDE DEF candidate
  <1>6. authority' \in AuthorityType
    BY <1>2, <1>3 DEF AuthorityType, GenerationInv, GenerationTypeOK
  <1>7. /\ authority'.pending_reconfiguration = candidate
        /\ authority'.recovery_id = authority.recovery_id
        /\ authority'.pending_transaction_system_id =
              authority.pending_transaction_system_id
        /\ authority'.phase = authority.phase
        /\ authority'.generation = authority.generation
        /\ authority'.last_completed_generation = authority.last_completed_generation
        /\ authority'.fenced_log_index = authority.fenced_log_index
        /\ authority'.recovered_log_index = authority.recovered_log_index
        /\ authority'.members = authority.members
        /\ authority'.incarnations = authority.incarnations
        /\ authority'.membership_epoch = authority.membership_epoch
    BY <1>3 DEF AuthorityType, GenerationInv, GenerationTypeOK
  <1>8. valid_routine_replacement(authority', next, inc, node, incarnation)
    BY <1>4, <1>7 DEF valid_routine_replacement
  <1>9. ReplacementBindsCurrentVoters'
    BY <1>5, <1>7, <1>8 DEF ReplacementBindsCurrentVoters
  <1> QED
    BY <1>4, <1>6, <1>7, <1>9 DEF GenerationInv, GenerationTypeOK

\* A ready learner leaves the replacement bound to the voter set in force.
LEMMA LearnerReadyInv ==
  ASSUME GenerationInv,
         NEW id \in ReconfigIds, NEW signers \in SUBSET Voters,
         NEW snapshot \in Indexes, NEW applied \in Indexes,
         MarkRoutineLearnerReady(id, signers, snapshot, applied)
  PROVE  GenerationInv'
  <1> DEFINE pending == authority.pending_reconfiguration
             ready   == [pending EXCEPT !.phase    = "LearnerReady",
                                        !.snapshot = snapshot,
                                        !.applied  = applied]
  <1>1. pending \in PendingReconfigurations
    BY DEF GenerationInv, GenerationTypeOK, AuthorityType, MarkRoutineLearnerReady
  <1>2. snapshot \in Nat /\ applied \in Nat
    BY GenerationConstants DEF Indexes, GenerationConstants
  <1>3. /\ ready \in PendingReconfigurations
        /\ ready.epoch = pending.epoch
        /\ ready.next_members = pending.next_members
        /\ ready.next_incarnations = pending.next_incarnations
        /\ ready.node = pending.node
        /\ ready.incarnation = pending.incarnation
    BY <1>1, <1>2 DEF PendingReconfigurations
  <1>4. authority' = [authority EXCEPT !.pending_reconfiguration = ready]
    BY DEF MarkRoutineLearnerReady
  <1>5. pending # None /\ authority.phase = "Active"
    BY DEF MarkRoutineLearnerReady
  <1> HIDE DEF ready
  <1>6. authority' \in AuthorityType
    BY <1>3, <1>4 DEF AuthorityType, GenerationInv, GenerationTypeOK
  <1>7. /\ authority'.pending_reconfiguration = ready
        /\ authority'.recovery_id = authority.recovery_id
        /\ authority'.pending_transaction_system_id =
              authority.pending_transaction_system_id
        /\ authority'.phase = authority.phase
        /\ authority'.generation = authority.generation
        /\ authority'.last_completed_generation = authority.last_completed_generation
        /\ authority'.fenced_log_index = authority.fenced_log_index
        /\ authority'.recovered_log_index = authority.recovered_log_index
        /\ authority'.members = authority.members
        /\ authority'.incarnations = authority.incarnations
        /\ authority'.membership_epoch = authority.membership_epoch
    BY <1>4 DEF AuthorityType, GenerationInv, GenerationTypeOK
  <1>8. valid_routine_replacement(authority', ready.next_members,
                                  ready.next_incarnations, ready.node,
                                  ready.incarnation)
    <2>1. valid_routine_replacement(authority, pending.next_members,
                                    pending.next_incarnations, pending.node,
                                    pending.incarnation)
      BY <1>5 DEF GenerationInv, GenerationTypeOK, ReplacementBindsCurrentVoters
    <2> QED
      BY <2>1, <1>3, <1>7 DEF valid_routine_replacement
  <1>9. ready.epoch = authority'.membership_epoch
    BY <1>3, <1>5, <1>7 DEF GenerationInv, GenerationTypeOK, ReplacementBindsCurrentVoters
  <1>10. ReplacementBindsCurrentVoters'
    BY <1>7, <1>8, <1>9 DEF ReplacementBindsCurrentVoters
  <1> QED
    BY <1>5, <1>6, <1>7, <1>10 DEF GenerationInv, GenerationTypeOK

\* Finalizing a voter replacement leaves none pending.
LEMMA FinalizeInv ==
  ASSUME GenerationInv,
         NEW id \in ReconfigIds, NEW signers \in SUBSET Voters,
         NEW snapshot \in Indexes, NEW applied \in Indexes,
         FinalizeRoutineReconfiguration(id, signers, snapshot, applied)
  PROVE  GenerationInv'
  <1> DEFINE pending == authority.pending_reconfiguration
             done == [ id       |-> id,
                       epoch    |-> authority.membership_epoch + 1,
                       members  |-> pending.next_members,
                       position |-> applied ]
  <1>1. pending \in PendingReconfigurations
    BY DEF GenerationInv, GenerationTypeOK, AuthorityType, FinalizeRoutineReconfiguration
  <1>2. applied \in Nat
    BY GenerationConstants DEF Indexes, GenerationConstants
  <1>3. /\ pending.next_members \in SUBSET Voters
        /\ pending.next_incarnations \in IncarnationType
    BY <1>1 DEF PendingReconfigurations
  <1>4. authority.membership_epoch + 1 \in Nat
    BY DEF GenerationInv, GenerationTypeOK, AuthorityType
  <1>5. authority.completed_reconfigurations \cup {done} \in CompletedSets
    BY <1>2, <1>3, <1>4 DEF GenerationInv, GenerationTypeOK, AuthorityType, CompletedSets
  <1>6. authority' = [authority EXCEPT
             !.pending_reconfiguration = None,
             !.members                 = pending.next_members,
             !.incarnations            = pending.next_incarnations,
             !.membership_epoch        = authority.membership_epoch + 1,
             !.completed_reconfigurations =
                authority.completed_reconfigurations \cup {done}]
    BY DEF FinalizeRoutineReconfiguration, GenerationInv, AuthorityType
  <1> HIDE DEF done, pending
  <1>7. authority' \in AuthorityType
    BY <1>3, <1>4, <1>5, <1>6, Zenon DEF AuthorityType, GenerationInv, GenerationTypeOK
  <1>8. /\ authority'.pending_reconfiguration = None
        /\ authority'.recovery_id = authority.recovery_id
        /\ authority'.pending_transaction_system_id =
              authority.pending_transaction_system_id
        /\ authority'.phase = authority.phase
        /\ authority'.generation = authority.generation
        /\ authority'.last_completed_generation = authority.last_completed_generation
        /\ authority'.fenced_log_index = authority.fenced_log_index
        /\ authority'.recovered_log_index = authority.recovered_log_index
    BY <1>6 DEF AuthorityType, GenerationInv, GenerationTypeOK
  <1> QED
    BY <1>7, <1>8 DEF GenerationInv, GenerationTypeOK, ReplacementBindsCurrentVoters

(***************************************************************************)
(* Init establishes the invariant, every step preserves it.                *)
(***************************************************************************)
\* A voter replacement takes place within an active generation.
LEMMA RoutineKeepsGeneration ==
  ASSUME GenerationInv, RoutineNext
  PROVE  /\ authority.phase = "Active"
         /\ authority'.generation = authority.generation
         /\ authority.generation \in Nat
  <1>1. PICK id \in ReconfigIds :
           \/ \E node \in Voters, incarnation \in Incarnations,
                 next \in MemberSets : \E inc \in [next -> Incarnations] :
                 PrepareRoutineReconfiguration(id, node, incarnation, next, inc)
           \/ \E signers \in SUBSET Voters, snapshot, applied \in Indexes :
                 \/ MarkRoutineLearnerReady(id, signers, snapshot, applied)
                 \/ FinalizeRoutineReconfiguration(id, signers, snapshot, applied)
    BY DEF RoutineNext
  <1>2. authority \in AuthorityType /\ authority.generation \in Nat
    BY DEF GenerationInv, GenerationTypeOK, AuthorityType
  <1>3. ASSUME NEW node, NEW incarnation, NEW next, NEW inc,
               PrepareRoutineReconfiguration(id, node, incarnation, next, inc)
        PROVE  authority.phase = "Active" /\ authority'.generation = authority.generation
    <2>1. authority.phase = "Active"
      BY <1>3 DEF PrepareRoutineReconfiguration, PrepareRoutineStatus
    <2>2. authority'.generation = authority.generation
      BY <1>2, <1>3 DEF PrepareRoutineReconfiguration, AuthorityType
    <2> QED
      BY <2>1, <2>2
  <1>4. ASSUME NEW signers, NEW snapshot, NEW applied,
               MarkRoutineLearnerReady(id, signers, snapshot, applied)
        PROVE  authority.phase = "Active" /\ authority'.generation = authority.generation
    BY <1>2, <1>4 DEF MarkRoutineLearnerReady, AuthorityType
  <1>5. ASSUME NEW signers, NEW snapshot, NEW applied,
               FinalizeRoutineReconfiguration(id, signers, snapshot, applied)
        PROVE  authority.phase = "Active" /\ authority'.generation = authority.generation
    BY <1>2, <1>5 DEF FinalizeRoutineReconfiguration, AuthorityType
  <1> QED
    BY <1>1, <1>2, <1>3, <1>4, <1>5

\* The default descriptor satisfies the invariant.
LEMMA InitInv == GenerationInit => GenerationInv
  BY DefaultIsTyped
  DEF GenerationInit, GenerationInv, GenerationTypeOK,
      ReplacementBindsCurrentVoters, DefaultAuthority

\* Every accepted GenerationAction preserves the invariant.
LEMMA NextInv == GenerationInv /\ [GenerationNext]_authority => GenerationInv'
  <1> SUFFICES ASSUME GenerationInv, [GenerationNext]_authority
               PROVE  GenerationInv'
    OBVIOUS
  <1>1. CASE BootstrapStep
    BY <1>1, BootstrapInv
  <1>2. CASE PrepareStep
    BY <1>2, PrepareInv
  <1>3. CASE ReserveStep
    BY <1>3, ReserveInv
  <1>4. CASE ActivateStep
    BY <1>4, ActivateInv
  <1>5. CASE RoutineNext
    <2>1. PICK id \in ReconfigIds :
             \/ \E node \in Voters, incarnation \in Incarnations,
                   next \in MemberSets : \E inc \in [next -> Incarnations] :
                   PrepareRoutineReconfiguration(id, node, incarnation, next, inc)
             \/ \E signers \in SUBSET Voters, snapshot, applied \in Indexes :
                   \/ MarkRoutineLearnerReady(id, signers, snapshot, applied)
                   \/ FinalizeRoutineReconfiguration(id, signers, snapshot, applied)
      BY <1>5 DEF RoutineNext
    <2> QED
      BY <2>1, PrepareRoutineInv, LearnerReadyInv, FinalizeInv
  <1>6. CASE UNCHANGED authority
    BY <1>6 DEF GenerationInv, GenerationTypeOK, ReplacementBindsCurrentVoters
  <1> QED
    BY <1>1, <1>2, <1>3, <1>4, <1>5, <1>6 DEF GenerationNext, RecoveryNext

\* The invariant holds in every reachable state of the descriptor.
THEOREM GenerationInvariance == GenerationSpec => []GenerationInv
  BY InitInv, NextInv, PTL DEF GenerationSpec

\* The descriptor of generation.rs stays type correct, and its pending recovery
\* fields are set exactly while a recovery is under way.
THEOREM GenerationTypeCorrect == GenerationSpec => []GenerationTypeOK
  <1>1. GenerationInv => GenerationTypeOK
    BY DEF GenerationInv
  <1> QED
    BY <1>1, GenerationInvariance, PTL

\* An active successor generation was fenced and then recovered past its fence
\* (Reserve and Activate in generation.rs), whatever the voter sets.
THEOREM ActiveGenerationIsRecovered == GenerationSpec => []ActiveIsRecovered
  <1>1. GenerationInv => ActiveIsRecovered
    BY DEF GenerationInv, ActiveIsRecovered
  <1> QED
    BY <1>1, GenerationInvariance, PTL

\* No recovery replaces the voter set under a pending routine replacement.
THEOREM ReplacementBindsVoters == GenerationSpec => []ReplacementBindsCurrentVoters
  <1>1. GenerationInv => ReplacementBindsCurrentVoters
    BY DEF GenerationInv
  <1> QED
    BY <1>1, GenerationInvariance, PTL

\* Generations never decrease, and an activation always completes a newer
\* generation than any before it.
THEOREM ActivationsAdvance == GenerationSpec => ActivationAdvances
  <1> DEFINE Advances ==
        /\ authority'.generation >= authority.generation
        /\ authority.phase # "Active" /\ authority'.phase = "Active" =>
              authority'.generation > authority.last_completed_generation
  <1>1. GenerationInv /\ [GenerationNext]_authority => [Advances]_authority
    <2> SUFFICES ASSUME GenerationInv, [GenerationNext]_authority
                 PROVE  [Advances]_authority
      OBVIOUS
    <2>1. CASE BootstrapStep
      <3>1. /\ authority.phase = "Uninitialized"
            /\ authority'.generation = 1
        BY <2>1 DEF BootstrapStep, Bootstrap, Bootstrapped, DefaultAuthority
      <3> QED
        BY <3>1 DEF GenerationInv
    <2>2. CASE PrepareStep
      <3>1. /\ authority.phase = "Active"
            /\ authority'.generation = authority.generation + 1
            /\ authority.generation \in Nat
        BY <2>2
        DEF PrepareStep, Prepare, may_prepare, next_generation, GenerationInv,
            GenerationTypeOK, AuthorityType
      <3> QED
        BY <3>1
    <2>3. CASE ReserveStep
      <3>1. /\ authority'.phase = "Recovering"
            /\ authority'.generation = authority.generation
            /\ authority.generation \in Nat
        BY <2>3
        DEF ReserveStep, Reserve, GenerationInv, GenerationTypeOK, AuthorityType
      <3> QED
        BY <3>1
    <2>4. CASE ActivateStep
      <3>1. /\ authority.phase = "Recovering"
            /\ authority'.generation = authority.generation
        BY <2>4
        DEF ActivateStep, Activate, clear_pending_system, GenerationInv,
            GenerationTypeOK, AuthorityType
      <3> QED
        BY <3>1 DEF GenerationInv, GenerationTypeOK, AuthorityType
    <2>5. CASE RoutineNext
      <3>1. /\ authority.phase = "Active"
            /\ authority'.generation = authority.generation
            /\ authority.generation \in Nat
        BY <2>5, RoutineKeepsGeneration
      <3> QED
        BY <3>1
    <2>6. CASE UNCHANGED authority
      BY <2>6
    <2> QED
      BY <2>1, <2>2, <2>3, <2>4, <2>5, <2>6 DEF GenerationNext, RecoveryNext
  <1> QED
    BY <1>1, GenerationInvariance, PTL DEF GenerationSpec, ActivationAdvances
=============================================================================
