-------------------------- MODULE CellTransaction --------------------------
(***************************************************************************)
(* The transaction authority of one (cell, tenant) domain: the             *)
(* CellDomainState of okv-consensus, cell_transaction.rs.  It is part of   *)
(* the same replicated state machine as the generation authority, so every *)
(* action is one command applied atomically in log order.  A command       *)
(* reaches `apply` or `apply_staged` only if its credential is authorized  *)
(* by the generation authority at that moment (state_machine.rs); the      *)
(* credential's generation and the command's own generation are compared   *)
(* with each other only where the code compares them.                      *)
(*                                                                         *)
(* Abstractions: a transaction's conflict ranges are sets of keys, two     *)
(* ranges overlap when the sets meet; its mutations write its identity to  *)
(* every key of its write set; an envelope digest is the pair of the       *)
(* transaction and its sequence (digests do not collide, and an envelope   *)
(* is never rebuilt); a certificate is the set of its distinct valid       *)
(* signers.  `rows` and `committed_writes` are views of the committed      *)
(* envelopes, to which the code always pushes in the same step.            *)
(***************************************************************************)
EXTENDS GenerationAuthority, Sequences

CONSTANTS
    Txns,          \* transaction identities
    DirectTxns,    \* the ones whose client uses the direct commit path
    Keys,
    ReadSet,       \* [Txns -> SUBSET Keys]  read conflicts
    WriteSet,      \* [Txns -> SUBSET Keys]  write conflicts and mutations
    LogSets,       \* the required log tags; every transaction carries them all
    TLogs,         \* tagged-log node identities
    PolicyMembers, \* [LogSets -> SUBSET TLogs]  members proposed by a policy
    PolicyQuorum,  \* [LogSets -> Nat]           quorum size proposed
    RateLimited,   \* SUBSET LogSets  sets whose policy has a ratekeeper limit
    TransitionIds, \* identities of log-set policy transitions
    Resolutions,   \* partitioned resolver outcomes a transaction may carry
    MaxPrefix,     \* MAX_STAGED_PREFIX_RECORDS
    MaxSequence,   \* bound: no version beyond this one is allocated
    MaxEpoch       \* bound: capacity reservation and sample epochs

ASSUME CellConstants ==
    /\ ReadSet \in [Txns -> SUBSET Keys]
    /\ WriteSet \in [Txns -> (SUBSET Keys) \ {{}}]
    /\ PolicyMembers \in [LogSets -> SUBSET TLogs]
    /\ PolicyQuorum \in [LogSets -> Nat \ {0}]
    /\ \A set \in LogSets : /\ IsFiniteSet(PolicyMembers[set])
                            /\ PolicyQuorum[set] <= Cardinality(PolicyMembers[set])
    /\ RateLimited \subseteq LogSets
    /\ DirectTxns \subseteq Txns
    /\ MaxPrefix \in Nat /\ MaxSequence \in Nat /\ MaxEpoch \in Nat
    /\ None \notin Txns /\ None \notin Nat
    /\ None \notin [generation : Nat, sequence : Nat, length : Nat]

VARIABLES
    domain_generation,    \* CellDomainState.generation
    latest_sequence,
    committed_envelopes,  \* sequence of envelopes
    previous_log_chain,   \* digest of the last committed envelope
    staged_transactions,  \* sequence of StagedTransaction
    log_set_policies,     \* [LogSets -> policy or None]
    pending_transition,
    completed_transitions,
    last_resolver,        \* last candidate and its transaction-system generation
    capacity,             \* reservations, attempt epochs and sample epochs
    read_version          \* per client: the version it reads at, or None

domainVars == << domain_generation, latest_sequence, committed_envelopes,
                 previous_log_chain, staged_transactions >>
policyVars == << log_set_policies, pending_transition, completed_transitions >>
cellVars   == << domainVars, policyVars, last_resolver, capacity, read_version >>

-----------------------------------------------------------------------------
Genesis == <<None, 0>>

Envelope(t, generation, sequence, prev) ==
    [id |-> t, generation |-> generation, sequence |-> sequence, prev |-> prev]

digest(envelope) == << envelope.id, envelope.sequence >>

EnvelopeOf(s) == Envelope(s.id, s.generation, s.sequence, s.prev)

Staged     == DOMAIN staged_transactions
Unresolved == {i \in Staged : staged_transactions[i].status = "pending"}
Visible    == {i \in Staged : staged_transactions[i].status = "visible"}
IsStaged(t) == \E i \in Staged : staged_transactions[i].id = t
IsCommitted(t) ==
    \E i \in DOMAIN committed_envelopes : committed_envelopes[i].id = t

\* The writes recorded for conflict detection: sequence and key set.
committed_writes ==
    {[sequence |-> committed_envelopes[i].sequence,
      range    |-> WriteSet[committed_envelopes[i].id]] :
         i \in DOMAIN committed_envelopes}

\* GenerationAuthorityState::authorizes for the command's credential.
Credential == << authority.generation, authority.transaction_system_id >>
Admitted   == authority.phase = "Active"

DefaultCapacity ==
    [ reservations |-> [t \in Txns |-> None],
      attempts     |-> [t \in Txns |-> 0],
      samples      |-> [set \in LogSets |-> [n \in TLogs |-> 0]] ]

\* The cell was bootstrapped and its first command created the domain.
CellInit ==
    /\ \E system \in TxSystems, members \in MemberSets :
          authority = Bootstrapped(system, members, << >>)
    /\ domain_generation = 1
    /\ latest_sequence = 0
    /\ committed_envelopes = << >>
    /\ previous_log_chain = Genesis
    /\ staged_transactions = << >>
    /\ log_set_policies = [set \in LogSets |-> None]
    /\ pending_transition = None
    /\ completed_transitions = {}
    /\ last_resolver = [candidate |-> 0, generation |-> 0]
    /\ capacity = DefaultCapacity
    /\ read_version = [t \in Txns |-> None]

-----------------------------------------------------------------------------
(***************************************************************************)
(* Read versions.  A client asks a read-version proxy, which answers with  *)
(* the generation and latest sequence of a linearizable snapshot of the    *)
(* authority; `length` records which committed prefix its reads observe.   *)
(* A client may ask again until it submits its transaction.                *)
(***************************************************************************)
GetReadVersion(t) ==
    /\ ~ IsStaged(t) /\ ~ IsCommitted(t)
    /\ read_version' = [read_version EXCEPT ![t] =
          [generation |-> domain_generation,
           sequence   |-> latest_sequence,
           length     |-> Len(committed_envelopes)]]
    /\ UNCHANGED << authority, domainVars, policyVars, last_resolver, capacity >>

valid_read_version(t) ==
    /\ read_version[t] # None
    /\ read_version[t].sequence # 0 =>
          read_version[t].generation = domain_generation
    /\ read_version[t].sequence <= latest_sequence

-----------------------------------------------------------------------------
(***************************************************************************)
(* Conflict detection and the order of partitioned resolver outcomes.      *)
(***************************************************************************)
\* Mutated form: committed writes are ignored.
ignores_committed(t) == FALSE

conflicts_with_committed(t) ==
    \E write \in committed_writes :
       /\ write.sequence > read_version[t].sequence
       /\ write.range \cap ReadSet[t] # {}

\* Mutated form: transactions that are staged but not yet visible are ignored.
ignores_staged(t) == FALSE

conflicts_with_staged(t) ==
    \E i \in Staged :
       LET s == staged_transactions[i] IN
       /\ s.status # "aborted"
       /\ s.sequence > read_version[t].sequence
       /\ WriteSet[s.id] \cap ReadSet[t] # {}

\* A resolution carries the next candidate of its transaction system, or a
\* greater candidate of a newer one.
candidate_order_valid(resolution) ==
    IF resolution.generation = last_resolver.generation
    THEN resolution.candidate = last_resolver.candidate + 1
    ELSE /\ resolution.generation > last_resolver.generation
         /\ resolution.candidate > last_resolver.candidate

resolution_ordered(resolution) ==
    resolution # None => candidate_order_valid(resolution)

resolver_conflict(resolution) ==
    resolution # None /\ resolution.decision = "Conflict"

record_candidate(resolution) ==
    last_resolver' = IF resolution = None THEN last_resolver
                     ELSE [candidate  |-> resolution.candidate,
                           generation |-> resolution.generation]

-----------------------------------------------------------------------------
(***************************************************************************)
(* CellTransactionState::apply, the direct path: resolve, commit and       *)
(* expose a transaction in one log entry.  Its version is the index of the *)
(* entry, which exceeds every version allocated before: each command       *)
(* allocates at most one version and occupies an index of its own.         *)
(***************************************************************************)
above_allocated(sequence) ==
    /\ latest_sequence < sequence
    /\ \A i \in Staged : staged_transactions[i].sequence < sequence
    /\ \A i \in DOMAIN committed_envelopes :
          committed_envelopes[i].sequence < sequence

direct_admissible(t, resolution) ==
    /\ Admitted
    /\ t \in DirectTxns /\ ~ IsCommitted(t)
    /\ valid_read_version(t)
    /\ resolution_ordered(resolution)

advanced_chain(envelope) == digest(envelope)

Commit(t, log_index, resolution) ==
    /\ direct_admissible(t, resolution)
    /\ ~ resolver_conflict(resolution)
    /\ resolution = None => ~ conflicts_with_committed(t)
    /\ above_allocated(log_index)
    /\ LET envelope == Envelope(t, domain_generation, log_index,
                                previous_log_chain) IN
       /\ committed_envelopes' = Append(committed_envelopes, envelope)
       /\ latest_sequence' = log_index
       /\ previous_log_chain' = advanced_chain(envelope)
    /\ record_candidate(resolution)
    /\ UNCHANGED << authority, domain_generation, staged_transactions,
                    policyVars, capacity, read_version >>

\* A resolver conflict refuses the transaction but consumes the candidate.
CommitConflict(t, resolution) ==
    /\ direct_admissible(t, resolution)
    /\ resolver_conflict(resolution)
    /\ record_candidate(resolution)
    /\ UNCHANGED << authority, domainVars, policyVars, capacity, read_version >>

-----------------------------------------------------------------------------
(***************************************************************************)
(* Log-set policies and their transitions.                                 *)
(***************************************************************************)
ProposedPolicy(set) ==
    [ generation |-> domain_generation,
      epoch      |-> 1,
      members    |-> PolicyMembers[set],
      quorum     |-> PolicyQuorum[set],
      limited    |-> set \in RateLimited ]

certifies(signers, policy) ==
    signers \subseteq policy.members /\ Cardinality(signers) >= policy.quorum

no_unresolved == Unresolved = {}

\* A policy of this generation may only be installed again exactly as it is.
may_install(set) ==
    LET existing == log_set_policies[set] IN
    IF existing = None THEN TRUE
    ELSE existing.generation = domain_generation => existing = ProposedPolicy(set)

InstallLogSetPolicies(sets) ==
    /\ Admitted
    /\ sets # {}
    /\ no_unresolved
    /\ \A set \in sets : may_install(set)
    /\ log_set_policies' =
          [set \in LogSets |-> IF set \in sets THEN ProposedPolicy(set)
                               ELSE log_set_policies[set]]
    /\ UNCHANGED << authority, domainVars, pending_transition,
                    completed_transitions, last_resolver, capacity,
                    read_version >>

\* One member leaves, one learner enters, the epoch advances by one, and a
\* quorum of the current members attests the learner's copy of the log.
valid_log_set_policy_transition(tr, signers) ==
    LET current == log_set_policies[tr.set] IN
    /\ current # None
    /\ current.generation = domain_generation
    /\ tr.failed \in current.members
    /\ tr.learner \notin current.members
    /\ tr.next = [current EXCEPT
                    !.epoch   = @ + 1,
                    !.members = (@ \ {tr.failed}) \cup {tr.learner}]
    /\ certifies(signers, current)

PrepareLogSetPolicyTransition(tr, signers) ==
    /\ Admitted
    /\ \A done \in completed_transitions : done.id # tr.id
    /\ pending_transition = None
    /\ no_unresolved
    /\ valid_log_set_policy_transition(tr, signers)
    /\ latest_sequence < MaxSequence
    /\ pending_transition' = tr
    /\ latest_sequence' = latest_sequence + 1
    /\ UNCHANGED << authority, domain_generation, committed_envelopes,
                    previous_log_chain, staged_transactions, log_set_policies,
                    completed_transitions, last_resolver, capacity,
                    read_version >>

CommitLogSetPolicyTransition(signers) ==
    /\ Admitted
    /\ pending_transition # None
    /\ no_unresolved
    /\ certifies(signers, pending_transition.next)
    /\ latest_sequence < MaxSequence
    /\ log_set_policies' = [log_set_policies EXCEPT
                              ![pending_transition.set] = pending_transition.next]
    /\ completed_transitions' = completed_transitions \cup {pending_transition}
    /\ pending_transition' = None
    /\ latest_sequence' = latest_sequence + 1
    /\ UNCHANGED << authority, domain_generation, committed_envelopes,
                    previous_log_chain, staged_transactions, last_resolver,
                    capacity, read_version >>

-----------------------------------------------------------------------------
(***************************************************************************)
(* Capacity reservations.  A capacity certificate of a log set maps its    *)
(* signers to the sample epoch they signed and to whether the projected    *)
(* frame still fits under the soft limit at that signer.                   *)
(***************************************************************************)
Ratekept == {set \in LogSets : /\ log_set_policies[set] # None
                               /\ log_set_policies[set].limited}

fresh_sample(set, n, sample) == sample.epoch > capacity.samples[set][n]

valid_capacity_certificates(t, epoch, certificates) ==
    /\ Ratekept # {}
    /\ epoch > capacity.attempts[t]
    /\ \A set \in Ratekept :
          /\ log_set_policies[set].generation = domain_generation
          /\ certifies(DOMAIN certificates[set], log_set_policies[set])
          /\ \A n \in DOMAIN certificates[set] :
                fresh_sample(set, n, certificates[set][n])

has_capacity(certificates) ==
    \A set \in Ratekept :
       Cardinality({n \in DOMAIN certificates[set] : certificates[set][n].fits})
          >= log_set_policies[set].quorum

\* A refusal for lack of capacity revokes an earlier reservation.
ReserveCapacity(t, epoch, certificates, resolution) ==
    /\ Admitted
    /\ t \notin DirectTxns
    /\ read_version[t] # None
    /\ read_version[t].sequence <= latest_sequence
    /\ pending_transition = None
    /\ ~ IsStaged(t)
    /\ valid_capacity_certificates(t, epoch, certificates)
    /\ capacity' =
          [capacity EXCEPT
             !.attempts[t] = epoch,
             !.reservations[t] =
                IF has_capacity(certificates)
                THEN [generation |-> domain_generation,
                      credential |-> Credential,
                      read       |-> read_version[t],
                      resolution |-> resolution,
                      samples    |-> [set \in Ratekept |->
                                       [n \in DOMAIN certificates[set] |->
                                          certificates[set][n].epoch]]]
                ELSE None]
    /\ UNCHANGED << authority, domainVars, policyVars, last_resolver,
                    read_version >>

\* The reservation was made for the transaction exactly as it is now staged.
reserved(t, resolution) ==
    LET r == capacity.reservations[t] IN
    /\ r # None
    /\ r.generation = domain_generation
    /\ r.credential = Credential
    /\ r.read = read_version[t]
    /\ r.resolution = resolution

\* Staging consumes the reservation and retires the samples that backed it.
consume_reservation(t) ==
    LET r == capacity.reservations[t]
        retired(set, n) == IF set \in DOMAIN r.samples /\ n \in DOMAIN r.samples[set]
                           THEN r.samples[set][n] ELSE 0
        used(set, n) == capacity.samples[set][n] IN
    IF r = None THEN capacity
    ELSE [capacity EXCEPT
            !.reservations[t] = None,
            !.samples = [set \in LogSets |-> [n \in TLogs |->
                           IF retired(set, n) > used(set, n)
                           THEN retired(set, n) ELSE used(set, n)]]]

-----------------------------------------------------------------------------
(***************************************************************************)
(* The staged path: Stage, then one receipt or certificate per log set,    *)
(* then Publish.                                                           *)
(***************************************************************************)
configured_or_none ==
    \/ \A set \in LogSets : log_set_policies[set] = None
    \/ \A set \in LogSets : log_set_policies[set] # None

\* Mutated form: a pending policy transition does not hold staging back.
stage_anytime(t, resolution) ==
    /\ Admitted
    /\ t \notin DirectTxns /\ ~ IsStaged(t)
    /\ valid_read_version(t)
    /\ configured_or_none
    /\ resolution_ordered(resolution)

stage_admissible(t, resolution) ==
    /\ Admitted
    /\ t \notin DirectTxns /\ ~ IsStaged(t)
    /\ valid_read_version(t)
    /\ configured_or_none
    /\ pending_transition = None
    /\ resolution_ordered(resolution)

\* Mutated form: a ratekept log set does not require a reservation.
no_reservation_needed(t, resolution) == TRUE

capacity_granted(t, resolution) == Ratekept # {} => reserved(t, resolution)

LastOf(set) == CHOOSE i \in set : \A j \in set : j <= i

next_commit_sequence ==
    IF staged_transactions = << >> THEN latest_sequence + 1
    ELSE staged_transactions[Len(staged_transactions)].sequence + 1

\* Mutated form: the chain continues from an aborted envelope.
chain_through_aborted ==
    IF staged_transactions = << >> THEN previous_log_chain
    ELSE digest(EnvelopeOf(staged_transactions[Len(staged_transactions)]))

staged_log_chain ==
    LET live == {i \in Staged : staged_transactions[i].status # "aborted"} IN
    IF live = {} THEN previous_log_chain
    ELSE digest(EnvelopeOf(staged_transactions[LastOf(live)]))

Stage(t, resolution) ==
    /\ stage_admissible(t, resolution)
    /\ ~ resolver_conflict(resolution)
    /\ capacity_granted(t, resolution)
    /\ resolution = None => ~ conflicts_with_committed(t) /\ ~ conflicts_with_staged(t)
    /\ next_commit_sequence <= MaxSequence
    /\ staged_transactions' = Append(staged_transactions,
          [ id           |-> t,
            generation   |-> domain_generation,
            credential   |-> Credential,
            sequence     |-> next_commit_sequence,
            prev         |-> staged_log_chain,
            receipts     |-> {},
            certificates |-> {},
            status       |-> "pending" ])
    /\ record_candidate(resolution)
    /\ capacity' = consume_reservation(t)
    /\ UNCHANGED << authority, domain_generation, latest_sequence,
                    committed_envelopes, previous_log_chain, policyVars,
                    read_version >>

\* The refusals that come after the candidate has been recorded.
StageRefused(t, resolution) ==
    /\ stage_admissible(t, resolution)
    /\ resolver_conflict(resolution) \/ ~ capacity_granted(t, resolution)
    /\ record_candidate(resolution)
    /\ UNCHANGED << authority, domainVars, policyVars, capacity, read_version >>

staged_only(i, s) ==
    /\ staged_transactions' = [staged_transactions EXCEPT ![i] = s]
    /\ UNCHANGED << authority, domain_generation, latest_sequence,
                    committed_envelopes, previous_log_chain, policyVars,
                    last_resolver, capacity, read_version >>

RecordLogReceipt(i, set, nodes) ==
    LET s == staged_transactions[i] IN
    /\ Admitted
    /\ s.status # "aborted"
    /\ log_set_policies[set] = None
    /\ s.generation = domain_generation
    /\ s.credential = Credential
    /\ Cardinality(nodes) >= 2
    /\ set \notin s.receipts
    /\ staged_only(i, [s EXCEPT !.receipts = @ \cup {set}])

\* Mutated form: any member's signature certifies the envelope.
verify_any_signature(s, signers, policy) ==
    policy # None /\ signers # {} /\ signers \subseteq policy.members

\* verify_tagged_log_certificate: the policy binds the envelope's generation and
\* a quorum of its members signed one statement about the envelope.
verify_tagged_log_certificate(s, signers, policy) ==
    /\ policy # None
    /\ s.generation = domain_generation
    /\ policy.generation = s.generation
    /\ certifies(signers, policy)

RecordLogCertificate(i, set, signers) ==
    LET s == staged_transactions[i] IN
    /\ Admitted
    /\ s.status # "aborted"
    /\ s.credential = Credential
    /\ verify_tagged_log_certificate(s, signers, log_set_policies[set])
    /\ set \notin s.certificates
    /\ staged_only(i, [s EXCEPT !.certificates = @ \cup {set}])

\* publish_staged_transaction: apply the mutations, move the frontier and the
\* chain, and append the exact staged envelope to the committed history.
publish_staged_transaction(i, next_generation_) ==
    LET s == staged_transactions[i] IN
    /\ committed_envelopes' = Append(committed_envelopes, EnvelopeOf(s))
    /\ domain_generation' = next_generation_
    /\ latest_sequence' = s.sequence
    /\ previous_log_chain' = digest(EnvelopeOf(s))
    /\ staged_transactions' = [staged_transactions EXCEPT ![i].status = "visible"]
    /\ UNCHANGED << authority, policyVars, last_resolver, capacity, read_version >>

durable_everywhere(s) ==
    \A set \in LogSets : IF log_set_policies[set] # None
                         THEN set \in s.certificates ELSE set \in s.receipts

\* Mutated form: a transaction may overtake an earlier one.
never_earlier_pending(s) == FALSE

earlier_pending(s) ==
    \E j \in Unresolved : staged_transactions[j].sequence < s.sequence

Publish(i) ==
    LET s == staged_transactions[i] IN
    /\ Admitted
    /\ s.status = "pending"
    /\ s.credential = Credential
    /\ durable_everywhere(s)
    /\ ~ earlier_pending(s)
    /\ publish_staged_transaction(i, s.generation)

-----------------------------------------------------------------------------
(***************************************************************************)
(* Generation takeover: a recovered successor decides what its predecessor *)
(* left staged.  A fence certificate of a log set maps each signer to      *)
(* whether the head was in its log when it fenced the old generation; a    *)
(* prefix-fence certificate maps it to the set of staged indexes present.  *)
(***************************************************************************)

successor_authorized ==
    /\ Admitted
    /\ authority.last_completed_recovery_id # None
    /\ authority.generation = domain_generation + 1

sole_unresolved == Cardinality(Unresolved) = 1

\* The named transaction need only be staged: the code counts the unresolved
\* transactions and does not compare the count's one member with the name.
TakeoverPublish(i) ==
    LET s == staged_transactions[i] IN
    /\ successor_authorized
    /\ s.generation = domain_generation
    /\ s.certificates = LogSets
    /\ sole_unresolved
    /\ publish_staged_transaction(i, domain_generation + 1)

absent_quorum(signed, policy) ==
    Cardinality({n \in DOMAIN signed : ~ signed[n]}) >= policy.quorum

\* Mutated form: one missing copy proves that the head is not durable.
some_absence(s, fences) ==
    \E set \in LogSets \ s.certificates : \E n \in DOMAIN fences[set] : ~ fences[set][n]

missing_set_has_absence_quorum(s, fences) ==
    \E set \in LogSets \ s.certificates :
       absent_quorum(fences[set], log_set_policies[set])

every_fence_valid(fences) ==
    \A set \in LogSets : /\ log_set_policies[set] # None
                         /\ certifies(DOMAIN fences[set], log_set_policies[set])

\* Mutated form: a visible transaction may be aborted.
may_abort_anything(s) == TRUE

may_abort(s) == s.status # "visible"

TakeoverAbort(i, fences) ==
    LET s == staged_transactions[i] IN
    /\ successor_authorized
    /\ s.generation = domain_generation
    /\ may_abort(s)
    /\ sole_unresolved
    /\ every_fence_valid(fences)
    /\ missing_set_has_absence_quorum(s, fences)
    /\ staged_transactions' = [staged_transactions EXCEPT ![i].status = "aborted"]
    /\ domain_generation' = domain_generation + 1
    /\ UNCHANGED << authority, latest_sequence, committed_envelopes,
                    previous_log_chain, policyVars, last_resolver, capacity,
                    read_version >>

\* The unresolved transactions, as the window that recovery names them.
FirstUnresolved == CHOOSE i \in Unresolved : \A j \in Unresolved : i <= j

\* CellStagedWindow::valid_identity and the chain_exact check: the window is not
\* empty, within its limit, of the old generation, consecutive in version, and
\* chained from the committed history.
window_exact ==
    /\ Unresolved # {}
    /\ Cardinality(Unresolved) <= MaxPrefix
    /\ \A i \in Unresolved : staged_transactions[i].generation = domain_generation
    /\ staged_transactions[FirstUnresolved].prev = previous_log_chain
    /\ \A i, j \in Unresolved :
          i < j /\ (\A k \in Unresolved : k <= i \/ j <= k) =>
             /\ staged_transactions[j].sequence = staged_transactions[i].sequence + 1
             /\ staged_transactions[j].prev = digest(EnvelopeOf(staged_transactions[i]))

\* Mutated form: more than a quorum must hold the record.
present_beyond_quorum(i, inventories, set) ==
    Cardinality({n \in DOMAIN inventories[set] : i \in inventories[set][n]})
       > log_set_policies[set].quorum

present_quorum(i, inventories, set) ==
    Cardinality({n \in DOMAIN inventories[set] : i \in inventories[set][n]})
       >= log_set_policies[set].quorum

\* Mutated form: one member without the record makes it missing.
missing_somewhere(i, inventories, set) ==
    \E n \in DOMAIN inventories[set] : i \notin inventories[set][n]

missing_quorum(i, inventories, set) ==
    Cardinality({n \in DOMAIN inventories[set] : i \notin inventories[set][n]})
       >= log_set_policies[set].quorum

\* `kept` is the recovered prefix of the window: every record in it is present
\* at a quorum of every log set, and the record after it, if there is one, is
\* absent at a quorum of some log set.
recovered_prefix(kept, inventories) ==
    LET rest == Unresolved \ kept IN
    /\ \A i \in kept, j \in rest : i < j
    /\ \A i \in kept, set \in LogSets :
          /\ present_quorum(i, inventories, set)
          /\ ~ missing_quorum(i, inventories, set)
    /\ rest # {} =>
          LET boundary == CHOOSE i \in rest : \A j \in rest : i <= j IN
          /\ \E set \in LogSets : missing_quorum(boundary, inventories, set)
          /\ \A set \in LogSets : ~ (/\ present_quorum(boundary, inventories, set)
                                     /\ missing_quorum(boundary, inventories, set))

\* apply_takeover_recover_prefix: publish the recovered prefix in order and abort
\* the rest of the window, in one log entry.
TakeoverRecoverPrefix(kept, inventories) ==
    LET window == [k \in 1 .. Cardinality(kept) |->
                     staged_transactions[FirstUnresolved + k - 1]]
        last   == window[Cardinality(kept)] IN
    /\ successor_authorized
    /\ window_exact
    /\ \A set \in LogSets :
          /\ log_set_policies[set] # None
          /\ certifies(DOMAIN inventories[set], log_set_policies[set])
    /\ kept \subseteq Unresolved
    /\ recovered_prefix(kept, inventories)
    /\ committed_envelopes' =
          committed_envelopes \o [k \in DOMAIN window |-> EnvelopeOf(window[k])]
    /\ staged_transactions' =
          [i \in Staged |->
             IF i \notin Unresolved THEN staged_transactions[i]
             ELSE [staged_transactions[i] EXCEPT
                     !.status = IF i \in kept THEN "visible" ELSE "aborted"]]
    /\ latest_sequence' = IF kept = {} THEN latest_sequence ELSE last.sequence
    /\ previous_log_chain' = IF kept = {} THEN previous_log_chain
                             ELSE digest(EnvelopeOf(last))
    /\ domain_generation' = domain_generation + 1
    /\ UNCHANGED << authority, policyVars, last_resolver, capacity, read_version >>

-----------------------------------------------------------------------------
(***************************************************************************)
(* The commands a client, a commit proxy, a ratekeeper and a recovering    *)
(* controller may submit, in any order.                                    *)
(***************************************************************************)
SignerSets == SUBSET TLogs

Transitions ==
    UNION {{[id |-> id, set |-> set, failed |-> failed, learner |-> learner,
             next |-> [log_set_policies[set] EXCEPT
                         !.epoch   = @ + 1,
                         !.members = (@ \ {failed}) \cup {learner}]] :
              id \in TransitionIds, failed \in TLogs, learner \in TLogs} :
           set \in {set \in LogSets : log_set_policies[set] # None}}

CapacityCertificates ==
    [Ratekept -> UNION {[signers -> [epoch : 1 .. MaxEpoch, fits : BOOLEAN]] :
                          signers \in SignerSets}]

\* A certificate per log set over what each signer saw; a node serves one log set.
Quorums ==
    {signers \in [LogSets -> SignerSets] :
       \A set \in LogSets : /\ log_set_policies[set] # None
                            /\ certifies(signers[set], log_set_policies[set])}

SeenBy(signers, seen) ==
    [set \in LogSets |-> [n \in signers[set] |-> seen[n]]]

DirectNext ==
    \E t \in Txns, log_index \in 1 .. MaxSequence, resolution \in Resolutions :
       Commit(t, log_index, resolution)

\* The refusals that only consume a resolver candidate.
RefusalNext ==
    \E t \in Txns, resolution \in Resolutions :
       CommitConflict(t, resolution) \/ StageRefused(t, resolution)

TransitionNext ==
    \E signers \in SignerSets :
       \/ \E tr \in Transitions : PrepareLogSetPolicyTransition(tr, signers)
       \/ CommitLogSetPolicyTransition(signers)

CapacityNext ==
    \E t \in Txns, epoch \in 1 .. MaxEpoch, resolution \in Resolutions :
       \E certificates \in CapacityCertificates :
          ReserveCapacity(t, epoch, certificates, resolution)

ReadNext   == \E t \in Txns : GetReadVersion(t)
PolicyNext == \E sets \in SUBSET LogSets : InstallLogSetPolicies(sets)

StageNext == \E t \in Txns, resolution \in Resolutions : Stage(t, resolution)

EvidenceNext ==
    \E i \in Staged, set \in LogSets, signers \in SignerSets :
       \/ RecordLogReceipt(i, set, signers)
       \/ RecordLogCertificate(i, set, signers)

PublishNext == \E i \in Staged : Publish(i)

\* A controller names the transactions it found unresolved.
TakeoverNext ==
    \/ \E i \in Unresolved : TakeoverPublish(i)
    \/ /\ successor_authorized
       /\ \E signers \in Quorums :
             \/ \E i \in Staged, seen \in [TLogs -> BOOLEAN] :
                   TakeoverAbort(i, SeenBy(signers, seen))
             \/ \E kept \in SUBSET Unresolved, seen \in [TLogs -> SUBSET Unresolved] :
                   TakeoverRecoverPrefix(kept, SeenBy(signers, seen))

AuthorityNext == RecoveryNext /\ UNCHANGED cellVars

\* The commands of the staged path, for a domain whose clients all use it and whose
\* log-set policies are only ever installed, by bootstrap or by a successor.
StagedPathNext ==
    \/ ReadNext
    \/ PolicyNext
    \/ StageNext
    \/ EvidenceNext
    \/ PublishNext
    \/ TakeoverNext
    \/ AuthorityNext

CellNext ==
    \/ StagedPathNext
    \/ DirectNext
    \/ RefusalNext
    \/ TransitionNext
    \/ CapacityNext

CellSpec == CellInit /\ [][CellNext]_<<authority, cellVars>>

StagedPathSpec == CellInit /\ [][StagedPathNext]_<<authority, cellVars>>

\* The same commands from a controller that may name any staged transaction in
\* TakeoverPublish, which the authority does not rule out.
AnyNameSpec ==
    CellInit /\ [][CellNext \/ \E i \in Staged : TakeoverPublish(i)]_
                  <<authority, cellVars>>

-----------------------------------------------------------------------------
Digests == {Genesis} \cup (Txns \X (1 .. MaxSequence))

Policies ==
    [ generation : 1 .. MaxGeneration, epoch : Nat, members : SUBSET TLogs,
      quorum : Nat, limited : BOOLEAN ]

StagedTransactions ==
    [ id : Txns, generation : 1 .. MaxGeneration,
      credential : (1 .. MaxGeneration) \X TxSystems, sequence : 1 .. MaxSequence,
      prev : Digests, receipts : SUBSET LogSets, certificates : SUBSET LogSets,
      status : {"pending", "visible", "aborted"} ]

\* Type invariant of CellDomainState.  A domain is never ahead of the generation
\* authority.
CellTypeOK ==
    /\ domain_generation \in 1 .. authority.generation
    /\ latest_sequence \in 0 .. MaxSequence
    /\ previous_log_chain \in Digests
    /\ \A i \in DOMAIN committed_envelopes :
          committed_envelopes[i] \in
             [ id : Txns, generation : 1 .. MaxGeneration,
               sequence : 1 .. MaxSequence, prev : Digests ]
    /\ \A i \in Staged : staged_transactions[i] \in StagedTransactions
    /\ \A set \in LogSets : log_set_policies[set] \in Policies \cup {None}
    /\ read_version \in
          [Txns -> [generation : 1 .. MaxGeneration, sequence : 0 .. MaxSequence,
                    length : Nat] \cup {None}]

\* The committed envelopes form one hash chain from genesis with increasing
\* versions, and the frontier and chain head that the domain reports are those of
\* its last envelope, across publishes, takeovers and aborts.
ChainUnbroken ==
    LET n == Len(committed_envelopes) IN
    /\ \A k \in 1 .. n :
          LET before == IF k = 1 THEN Genesis ELSE digest(committed_envelopes[k - 1]) IN
          /\ committed_envelopes[k].prev = before
          /\ committed_envelopes[k].sequence > before[2]
    /\ << previous_log_chain, latest_sequence >> =
          IF n = 0 THEN << Genesis, 0 >>
          ELSE << digest(committed_envelopes[n]), committed_envelopes[n].sequence >>

\* Transactions are resolved in the order in which they were staged, and exactly
\* the visible ones, with their original envelopes and in that order, are the
\* committed history.  A version is allocated to one staged transaction: an aborted
\* one keeps its version (RFC-0042) and later versions are greater.
ResolvedInStagedOrder ==
    /\ {committed_envelopes[k] : k \in DOMAIN committed_envelopes} =
          {EnvelopeOf(staged_transactions[i]) : i \in Visible}
    /\ \A k, l \in DOMAIN committed_envelopes :
          k < l => committed_envelopes[k].sequence < committed_envelopes[l].sequence
    /\ \A i, j \in Staged :
          i < j => staged_transactions[i].sequence < staged_transactions[j].sequence
    /\ \A i \in Staged, j \in Unresolved : j < i => i \in Unresolved

\* A committed transaction read nothing that a transaction between its read
\* version and its place in the history wrote (no lost update, RFC-0008).
SerializableReads ==
    \A k \in DOMAIN committed_envelopes :
       LET t == committed_envelopes[k].id IN
       \A i \in read_version[t].length + 1 .. k - 1 :
          WriteSet[committed_envelopes[i].id] \cap ReadSet[t] = {}

\* A visible or aborted outcome never changes, the bytes of a staged envelope
\* never change, and the generation of the domain never decreases.
DecisionsAreFinal ==
    [][/\ domain_generation' >= domain_generation
       /\ \A i \in Staged :
             LET old == staged_transactions[i]
                 new == staged_transactions'[i] IN
             /\ EnvelopeOf(new) = EnvelopeOf(old)
             /\ old.status # "pending" => new.status = old.status]_cellVars

\* Transaction admission under a ratekeeper (RFC-0044): an unresolved transaction
\* was granted capacity, and its grant cannot admit anything again.
AdmissionConsumesGrant ==
    \A i \in Unresolved :
       LET t == staged_transactions[i].id IN
       Ratekept # {} => capacity.attempts[t] > 0 /\ capacity.reservations[t] = None

\* A policy transition never spans a transaction: while one is pending nothing is
\* unresolved, so no certificate mixes signers of two policy epochs (RFC-0046).
TransitionHoldsStaging == pending_transition # None => Unresolved = {}

\* A pending transition still starts from the policy in force, whatever was
\* installed or recovered after it was prepared.
TransitionBindsCurrentPolicy ==
    pending_transition # None =>
       LET current == log_set_policies[pending_transition.set] IN
       /\ current.generation = domain_generation
       /\ pending_transition.next.epoch = current.epoch + 1
       /\ pending_transition.failed \in current.members
       /\ pending_transition.learner \notin current.members

\* Resolver candidates are consumed once and in order, by accepted and refused
\* transactions alike.
CandidatesConsumedInOrder ==
    [][last_resolver' # last_resolver =>
          last_resolver'.candidate > last_resolver.candidate]_cellVars

-----------------------------------------------------------------------------
\* What the authority promises: the committed envelopes are a serial history.
Serial == INSTANCE SerialHistory WITH
    history <- [k \in DOMAIN committed_envelopes |-> committed_envelopes[k].id],
    refused <- {staged_transactions[i].id :
                  i \in {i \in Staged : staged_transactions[i].status = "aborted"}},
    began   <- [t \in Txns |-> IF read_version[t] = None THEN None
                               ELSE read_version[t].length]

\* The authority of a domain implements the serial history of RFC-0008.
ImplementsSerialHistory == Serial!SerialSpec

-----------------------------------------------------------------------------
\* RFC-0041: a takeover "cannot apply the mutations twice": no transaction is in
\* the committed history twice.
AppliedOnce ==
    \A i, j \in DOMAIN committed_envelopes :
       committed_envelopes[i].id = committed_envelopes[j].id => i = j

\* RFC-0041: "The successor may not accept ordinary writes until the certified head
\* is visible": a transaction staged under a successor's credential is never behind
\* an unresolved one that its predecessor staged.
SuccessorWaitsForHead ==
    \A i \in Staged, j \in Unresolved :
       j < i => staged_transactions[i].credential[1]
                   <= staged_transactions[j].credential[1]

\* RFC-0044: an attestation is single-use and "A later append, pop, restart, or
\* policy change invalidates it": the samples behind an admission are newer than
\* those that an earlier admission retired.
AdmittedOnFreshSamples ==
    [][\A t \in Txns :
          LET grant == capacity.reservations[t] IN
          grant # None /\ Len(staged_transactions') > Len(staged_transactions)
             /\ staged_transactions'[Len(staged_transactions')].id = t =>
             \A set \in DOMAIN grant.samples :
                \A n \in DOMAIN grant.samples[set] :
                   grant.samples[set][n] > capacity.samples[set][n]]_cellVars
=============================================================================
