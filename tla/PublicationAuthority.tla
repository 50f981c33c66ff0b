------------------------ MODULE PublicationAuthority ------------------------
(***************************************************************************)
(* The publication authority of okv-publication: the replicated state that *)
(* decides which immutable manifest each root names, which snapshots may   *)
(* still be read, what history may be collected and which objects may be   *)
(* deleted.                                                                *)
(*                                                                         *)
(* A command is an action whose guard is its acceptance; a rejected        *)
(* command changes nothing.  Commands are applied one at a time by the     *)
(* replicated state machine, under the credential of the active            *)
(* generation.  Object names are content addressed, so a manifest is named *)
(* by its key and determines its closure.                                  *)
(***************************************************************************)
EXTENDS Integers, FiniteSets

CONSTANTS
    None,          \* absent optional value
    Keys,          \* object keys
    Manifests,     \* the keys of manifests
    Closure,       \* the keys that a manifest reaches, its own included
    Roots, PubIds, PinIds, LeaseIds, JobIds, Plans,
    Namespaces,    \* output namespaces of collection jobs
    Beneath,       \* the keys under a namespace
    Windows,       \* retention windows that may be set
    MaxVersion, MaxTick, MaxRangeEpoch, MaxPolicyEpoch,    \* bounds
    MaxEpoch, MaxPosition, MaxGeneration                   \* bounds

\* The authority position is abstracted to the order in which tokens are issued.
\* Intents, leases and receipts list the closure of their manifest.
Intents == [manifest : Manifests, root : Roots, prior : Manifests \cup {None},
            generation : Nat]
Leases  == [version : Nat, epoch : Nat, deadline : Nat, manifest : Manifests,
            generation : Nat, position : Nat]
Jobs    == [id : JobIds, generation : Nat, position : Nat, floor : Nat, input : Manifests,
            root : Roots, range_epoch : Nat, expected : Nat, namespace : Namespaces]
Permits == [key : Keys, plan : Plans, generation : Nat, position : Nat]

ASSUME PublicationConstants ==
    /\ Manifests \subseteq Keys
    /\ Closure \in [Manifests -> SUBSET Keys]
    /\ \A m \in Manifests : m \in Closure[m]
    /\ Beneath \in [Namespaces -> SUBSET Keys]
    /\ Windows \subseteq Nat
    /\ MaxVersion \in Nat /\ MaxTick \in Nat /\ MaxRangeEpoch \in Nat
    /\ MaxPolicyEpoch \in Nat /\ MaxEpoch \in Nat /\ MaxPosition \in Nat
    /\ MaxGeneration \in Nat
    /\ None \notin Nat /\ None \notin Keys /\ None \notin Roots
    /\ None \notin Intents \cup Leases \cup Jobs \cup Permits

VARIABLES
    generation,                     \* the active generation
    position,                       \* authority position of the last token issued
    root_intent_epoch, intents, roots, pins, deletion_reservations,
    observed_commit_frontier, retention_window, retention_policy_epoch,
    policy_floor, minimum_readable_version, physically_collected_through,
    lease_clock_tick, lease_epoch, leases,
    range_map_epoch, collection_root, collection_jobs,
    issued_jobs, issued_permits     \* tokens that clients hold and may present at any time

floorVars   == << observed_commit_frontier, retention_window, retention_policy_epoch,
                  policy_floor, minimum_readable_version >>
leaseVars   == << lease_clock_tick, lease_epoch, leases >>
collectVars == << physically_collected_through, range_map_epoch, collection_root,
                  collection_jobs, issued_jobs >>
rootVars    == << intents, roots, pins, deletion_reservations, issued_permits >>
publicationVars ==
    << generation, position, root_intent_epoch, rootVars, floorVars, leaseVars, collectVars >>

Max2(a, b) == IF a >= b THEN a ELSE b

Active(table) == {id \in DOMAIN table : table[id] # None}

PublicationInit ==
    /\ generation = 1 /\ position = 0 /\ root_intent_epoch = 0
    /\ intents = [p \in PubIds |-> None]
    /\ roots = [r \in Roots |-> None]
    /\ pins = [p \in PinIds |-> None]
    /\ deletion_reservations = [k \in Keys |-> None]
    /\ observed_commit_frontier = 0 /\ retention_window = None
    /\ retention_policy_epoch = 0 /\ policy_floor = 0 /\ minimum_readable_version = 0
    /\ physically_collected_through = 0
    /\ lease_clock_tick = 0 /\ lease_epoch = 0 /\ leases = [l \in LeaseIds |-> None]
    /\ range_map_epoch = 0 /\ collection_root = None
    /\ collection_jobs = [j \in JobIds |-> None]
    /\ issued_jobs = {} /\ issued_permits = {}

\* A recovery activated the next generation: older credentials are refused.
ActivateGeneration ==
    /\ generation < MaxGeneration
    /\ generation' = generation + 1
    /\ UNCHANGED << position, root_intent_epoch, rootVars, floorVars, leaseVars, collectVars >>

advance_root_intent_epoch ==
    /\ root_intent_epoch < MaxEpoch
    /\ root_intent_epoch' = root_intent_epoch + 1

issue_position ==
    /\ position < MaxPosition
    /\ position' = position + 1

-----------------------------------------------------------------------------
(***************************************************************************)
(* Frontiers, the retention policy and the read floor.                     *)
(***************************************************************************)
saturating_sub(a, b) == Max2(a - b, 0)

next_policy_floor(frontier, window) ==
    Max2(policy_floor, saturating_sub(frontier, window))

LeasedVersions(table) == {table[l].version : l \in Active(table)}

\* Mutated form: leases do not hold the floor back.
policy_only(table, floor) == {floor}

floor_candidates(table, floor) == LeasedVersions(table) \cup {floor}

\* Called last by a command, on the frontier, window and leases it leaves.
recompute_read_floor ==
    IF retention_window' = None THEN UNCHANGED << policy_floor, minimum_readable_version >>
    ELSE /\ policy_floor' = next_policy_floor(observed_commit_frontier', retention_window')
         /\ \E candidate \in floor_candidates(leases', policy_floor') :
               /\ \A other \in floor_candidates(leases', policy_floor') : candidate <= other
               /\ minimum_readable_version' = Max2(minimum_readable_version, candidate)

ObserveCommittedFrontier(committed_frontier) ==
    /\ committed_frontier > 0
    /\ committed_frontier >= observed_commit_frontier
    /\ observed_commit_frontier' = committed_frontier
    /\ UNCHANGED << generation, position, root_intent_epoch, rootVars, retention_window,
                    retention_policy_epoch, leaseVars, collectVars >>
    /\ recompute_read_floor

\* The command names the policy epoch it replaces, so it wins at most once.
SetRetentionWindow(window) ==
    /\ retention_policy_epoch < MaxPolicyEpoch
    /\ retention_window' = window
    /\ retention_policy_epoch' = retention_policy_epoch + 1
    /\ UNCHANGED << generation, position, root_intent_epoch, rootVars,
                    observed_commit_frontier, leaseVars, collectVars >>
    /\ recompute_read_floor

ObserveRangeMapEpoch(epoch) ==
    /\ epoch > 0 /\ epoch >= range_map_epoch
    /\ range_map_epoch' = epoch
    /\ UNCHANGED << generation, position, root_intent_epoch, rootVars, floorVars, leaseVars,
                    physically_collected_through, collection_root, collection_jobs, issued_jobs >>

-----------------------------------------------------------------------------
(***************************************************************************)
(* Snapshot leases.                                                        *)
(***************************************************************************)
readable_version(version) ==
    minimum_readable_version <= version /\ version <= observed_commit_frontier

AcquireLease(l, version, deadline, manifest) ==
    /\ version > 0
    /\ retention_window # None
    /\ leases[l] = None
    /\ readable_version(version)
    /\ deadline > lease_clock_tick
    /\ issue_position
    /\ lease_epoch' = lease_epoch + 1
    /\ leases' = [leases EXCEPT ![l] =
          [version |-> version, epoch |-> lease_epoch', deadline |-> deadline,
           manifest |-> manifest, generation |-> generation, position |-> position']]
    /\ advance_root_intent_epoch
    /\ UNCHANGED << generation, rootVars, observed_commit_frontier, retention_window,
                    retention_policy_epoch, lease_clock_tick, collectVars >>
    /\ recompute_read_floor

renewed(token, new_epoch, deadline, new_position) ==
    [token EXCEPT !.epoch = new_epoch, !.deadline = deadline,
                  !.generation = generation, !.position = new_position]

RenewLease(l, expected_epoch, deadline) ==
    /\ leases[l] # None
    /\ leases[l].epoch = expected_epoch
    /\ deadline > lease_clock_tick
    /\ deadline > leases[l].deadline
    /\ issue_position
    /\ lease_epoch' = lease_epoch + 1
    /\ leases' = [leases EXCEPT ![l] =
          renewed(leases[l], lease_epoch', deadline, position')]
    /\ advance_root_intent_epoch
    /\ UNCHANGED << generation, rootVars, floorVars, lease_clock_tick, collectVars >>

ReleaseLease(l, expected_epoch) ==
    /\ leases[l] # None
    /\ leases[l].epoch = expected_epoch
    /\ leases' = [leases EXCEPT ![l] = None]
    /\ lease_epoch' = lease_epoch + 1
    /\ advance_root_intent_epoch
    /\ UNCHANGED << generation, position, rootVars, observed_commit_frontier,
                    retention_window, retention_policy_epoch, lease_clock_tick, collectVars >>
    /\ recompute_read_floor

expired(tick) == {l \in Active(leases) : leases[l].deadline <= tick}

\* Mutated form: the clock may be set back.
clock_differs(next_tick) == next_tick # lease_clock_tick

clock_advances(next_tick) == next_tick > lease_clock_tick

AdvanceLeaseClock(next_tick) ==
    /\ clock_advances(next_tick)
    /\ lease_clock_tick' = next_tick
    /\ leases' = [l \in LeaseIds |-> IF l \in expired(next_tick) THEN None ELSE leases[l]]
    /\ IF expired(next_tick) = {} THEN UNCHANGED << lease_epoch, root_intent_epoch >>
       ELSE lease_epoch' = lease_epoch + 1 /\ advance_root_intent_epoch
    /\ UNCHANGED << generation, position, rootVars, observed_commit_frontier,
                    retention_window, retention_policy_epoch, collectVars >>
    /\ recompute_read_floor

-----------------------------------------------------------------------------
(***************************************************************************)
(* Physical collection of history below the read floor.                    *)
(***************************************************************************)
ConfigureCollectionRoot(expected, destination_root) ==
    /\ roots[destination_root] # None
    /\ collection_root = expected
    /\ Active(collection_jobs) = {}
    /\ collection_root' = destination_root
    /\ advance_root_intent_epoch
    /\ UNCHANGED << generation, position, rootVars, floorVars, leaseVars,
                    physically_collected_through, range_map_epoch, collection_jobs,
                    issued_jobs >>

Overlaps(n, m) == Beneath[n] \subseteq Beneath[m] \/ Beneath[m] \subseteq Beneath[n]

\* Mutated form: a job may freeze a floor that is still readable.
uncollected(floor) == floor > physically_collected_through

collectable(floor) ==
    physically_collected_through < floor /\ floor <= minimum_readable_version

PrepareCollection(j, frozen_floor, input, root, epoch, expected, namespace) ==
    /\ epoch > 0
    /\ collection_jobs[j] = None
    /\ \A k \in Active(collection_jobs) :
          /\ collection_jobs[k].root # root
          /\ ~Overlaps(collection_jobs[k].namespace, namespace)
    /\ epoch = range_map_epoch
    /\ collection_root = root
    /\ expected = physically_collected_through
    /\ collectable(frozen_floor)
    /\ roots[root] = input
    /\ issue_position
    /\ collection_jobs' = [collection_jobs EXCEPT ![j] =
          [id |-> j, generation |-> generation, position |-> position',
           floor |-> frozen_floor, input |-> input, root |-> root,
           range_epoch |-> epoch, expected |-> expected,
           namespace |-> namespace]]
    /\ issued_jobs' = issued_jobs \cup {collection_jobs'[j]}
    /\ advance_root_intent_epoch
    /\ UNCHANGED << generation, rootVars, floorVars, leaseVars,
                    physically_collected_through, range_map_epoch, collection_root >>

Reserved == Active(deletion_reservations)

\* Mutated form: a receipt is matched by the name of its job alone.
same_job_name(token) == collection_jobs[token.id] # None

exact_job(token) == collection_jobs[token.id] = token

PublishCollection(token, output_manifest) ==
    /\ output_manifest # token.input
    /\ Closure[output_manifest] \subseteq Beneath[token.namespace]
    /\ exact_job(token)
    /\ token.generation = generation
    /\ token.range_epoch = range_map_epoch
    /\ collection_root = token.root
    /\ token.expected = physically_collected_through
    /\ roots[token.root] = token.input
    /\ Closure[output_manifest] \cap Reserved = {}
    /\ roots' = [roots EXCEPT ![token.root] = output_manifest]
    /\ physically_collected_through' = token.floor
    /\ collection_jobs' = [collection_jobs EXCEPT ![token.id] = None]
    /\ advance_root_intent_epoch
    /\ UNCHANGED << generation, position, intents, pins, deletion_reservations,
                    issued_permits, floorVars, leaseVars, range_map_epoch,
                    collection_root, issued_jobs >>

AbandonCollection(token) ==
    /\ exact_job(token)
    /\ token.generation = generation
    /\ collection_jobs' = [collection_jobs EXCEPT ![token.id] = None]
    /\ advance_root_intent_epoch
    /\ UNCHANGED << generation, position, rootVars, floorVars, leaseVars,
                    physically_collected_through, range_map_epoch, collection_root,
                    issued_jobs >>

-----------------------------------------------------------------------------
(***************************************************************************)
(* Publication of manifests, pins, and reserved deletion of objects.       *)
(***************************************************************************)
\* Mutated form: a publication ignores the deletion reservations.
any_keys(manifest) == TRUE

unreserved(manifest) == Closure[manifest] \cap Reserved = {}

Prepare(p, manifest, destination_root, expected_prior_root) ==
    /\ intents[p] = None
    /\ unreserved(manifest)
    /\ intents' = [intents EXCEPT ![p] =
          [manifest |-> manifest, root |-> destination_root,
           prior |-> expected_prior_root, generation |-> generation]]
    /\ advance_root_intent_epoch
    /\ UNCHANGED << generation, position, roots, pins, deletion_reservations,
                    issued_permits, floorVars, leaseVars, collectVars >>

Publish(p, destination_root, expected_prior_root, manifest) ==
    /\ intents[p] = [manifest |-> manifest, root |-> destination_root,
                     prior |-> expected_prior_root, generation |-> generation]
    /\ roots[destination_root] = expected_prior_root
    /\ roots' = [roots EXCEPT ![destination_root] = manifest]
    /\ intents' = [intents EXCEPT ![p] = None]
    /\ advance_root_intent_epoch
    /\ UNCHANGED << generation, position, pins, deletion_reservations, issued_permits,
                    floorVars, leaseVars, collectVars >>

Pin(p, expected, manifest) ==
    /\ pins[p] = expected
    /\ pins' = [pins EXCEPT ![p] = manifest]
    /\ advance_root_intent_epoch
    /\ UNCHANGED << generation, position, intents, roots, deletion_reservations,
                    issued_permits, floorVars, leaseVars, collectVars >>

Unpin(p, expected) ==
    /\ expected # None
    /\ pins[p] = expected
    /\ pins' = [pins EXCEPT ![p] = None]
    /\ advance_root_intent_epoch
    /\ UNCHANGED << generation, position, intents, roots, deletion_reservations,
                    issued_permits, floorVars, leaseVars, collectVars >>

\* Keys that an unfinished operation or a lease holds back from deletion.
NamedByIntent == UNION {Closure[intents[p].manifest] : p \in Active(intents)}
NamedByLease  == UNION {Closure[leases[l].manifest] : l \in Active(leases)}
NamedByJob    == UNION {{collection_jobs[j].input} \cup Beneath[collection_jobs[j].namespace]
                          : j \in Active(collection_jobs)}

\* Mutated form: a mark of any earlier epoch supports a reservation.
any_mark(mark_epoch) == mark_epoch <= root_intent_epoch

current_mark(mark_epoch) == mark_epoch = root_intent_epoch

ReserveDelete(plan, mark_epoch, key) ==
    /\ current_mark(mark_epoch)
    /\ key \notin NamedByIntent
    /\ key \notin NamedByLease \cup NamedByJob
    /\ deletion_reservations[key] = None
    /\ issue_position
    /\ deletion_reservations' = [deletion_reservations EXCEPT ![key] =
          [key |-> key, plan |-> plan, generation |-> generation, position |-> position']]
    /\ issued_permits' = issued_permits \cup {deletion_reservations'[key]}
    /\ UNCHANGED << generation, root_intent_epoch, intents, roots, pins, floorVars,
                    leaseVars, collectVars >>

RetireDelete(permit) ==
    /\ deletion_reservations[permit.key] = permit
    /\ permit.generation = generation
    /\ deletion_reservations' = [deletion_reservations EXCEPT ![permit.key] = None]
    /\ UNCHANGED << generation, position, root_intent_epoch, intents, roots, pins,
                    issued_permits, floorVars, leaseVars, collectVars >>

-----------------------------------------------------------------------------
LeaseNext ==
    \/ \E v \in 1..MaxVersion : ObserveCommittedFrontier(v)
    \/ \E w \in Windows : SetRetentionWindow(w)
    \/ \E l \in LeaseIds, v \in 1..MaxVersion, d \in 1..MaxTick, m \in Manifests :
          AcquireLease(l, v, d, m)
    \/ \E l \in LeaseIds, e \in 1..lease_epoch, d \in 1..MaxTick : RenewLease(l, e, d)
    \/ \E l \in LeaseIds, e \in 1..lease_epoch : ReleaseLease(l, e)
    \/ \E t \in 1..MaxTick : AdvanceLeaseClock(t)

CollectionNext ==
    \/ \E e \in 1..MaxRangeEpoch : ObserveRangeMapEpoch(e)
    \/ \E o \in Roots \cup {None}, r \in Roots : ConfigureCollectionRoot(o, r)
    \/ \E j \in JobIds, f \in 1..MaxVersion, m \in Manifests, r \in Roots,
          e \in 1..MaxRangeEpoch, x \in 0..MaxVersion, n \in Namespaces :
          PrepareCollection(j, f, m, r, e, x, n)
    \/ \E token \in issued_jobs, m \in Manifests : PublishCollection(token, m)
    \/ \E token \in issued_jobs : AbandonCollection(token)

RootNext ==
    \/ \E p \in PubIds, m \in Manifests, r \in Roots, o \in Manifests \cup {None} :
          Prepare(p, m, r, o) \/ Publish(p, r, o, m)
    \/ \E p \in PinIds, o \in Manifests \cup {None}, m \in Manifests : Pin(p, o, m)
    \/ \E p \in PinIds, o \in Manifests : Unpin(p, o)
    \/ \E g \in Plans, e \in 0..MaxEpoch, k \in Keys : ReserveDelete(g, e, k)
    \/ \E permit \in issued_permits : RetireDelete(permit)

PublicationNext == LeaseNext \/ CollectionNext \/ RootNext \/ ActivateGeneration

PublicationSpec == PublicationInit /\ [][PublicationNext]_publicationVars

-----------------------------------------------------------------------------
(***************************************************************************)
(* Properties.                                                             *)
(***************************************************************************)
RootTypes ==
    /\ intents \in [PubIds -> Intents \cup {None}]
    /\ roots \in [Roots -> Manifests \cup {None}]
    /\ pins \in [PinIds -> Manifests \cup {None}]
    /\ deletion_reservations \in [Keys -> Permits \cup {None}]
    /\ issued_permits \subseteq Permits

FloorTypes ==
    /\ observed_commit_frontier \in Nat /\ retention_policy_epoch \in Nat
    /\ policy_floor \in Nat /\ minimum_readable_version \in Nat
    /\ retention_window \in Windows \cup {None}

LeaseTypes ==
    /\ lease_clock_tick \in Nat /\ lease_epoch \in Nat
    /\ leases \in [LeaseIds -> Leases \cup {None}]

CollectTypes ==
    /\ physically_collected_through \in Nat /\ range_map_epoch \in Nat
    /\ collection_root \in Roots \cup {None}
    /\ collection_jobs \in [JobIds -> Jobs \cup {None}]
    /\ issued_jobs \subseteq Jobs

\* Every field of the authority has its type.
PublicationTypeOK ==
    /\ generation \in Nat /\ position \in Nat /\ root_intent_epoch \in Nat
    /\ RootTypes /\ FloorTypes /\ LeaseTypes /\ CollectTypes

\* RFC-0060's frontier order G <= F_job <= F <= C, with F <= P: history is
\* collected only below the read floor, a running job froze a floor that is
\* not yet collected, and the floor never passes the policy or the commits.
FrontierOrder ==
    /\ physically_collected_through <= minimum_readable_version
    /\ minimum_readable_version <= policy_floor
    /\ policy_floor <= observed_commit_frontier
    /\ \A j \in Active(collection_jobs) :
          /\ physically_collected_through < collection_jobs[j].floor
          /\ collection_jobs[j].floor <= minimum_readable_version

\* An active lease is honoured until the committed clock reaches its deadline:
\* its version stays between the read floor and the commit frontier, however
\* commits, window changes, collections and other leases interleave.
LeaseProtection ==
    \A l \in Active(leases) :
        /\ minimum_readable_version <= leases[l].version
        /\ leases[l].version <= observed_commit_frontier
        /\ lease_clock_tick < leases[l].deadline

\* A key that a publication still has to write or verify is never reserved for
\* deletion, so an unguarded delete cannot undo a publication under way.
ReservedUnnamed == Reserved \cap NamedByIntent = {}

\* Frontiers, floors, clocks and epochs never move back, not even when the
\* retention window is widened or an old lease is released.
NeverRetreats ==
    [][/\ observed_commit_frontier' >= observed_commit_frontier
       /\ policy_floor' >= policy_floor
       /\ minimum_readable_version' >= minimum_readable_version
       /\ physically_collected_through' >= physically_collected_through
       /\ lease_clock_tick' >= lease_clock_tick
       /\ lease_epoch' >= lease_epoch
       /\ root_intent_epoch' >= root_intent_epoch]_publicationVars

\* G moves only to the floor that a job still registered in this generation
\* froze, together with the replacement of the very manifest the job read: a
\* worker whose job was abandoned, or prepared again under the same name,
\* cannot move it with its old receipt.
CollectionExact ==
    [][physically_collected_through' # physically_collected_through =>
        \E j \in Active(collection_jobs) :
            /\ collection_jobs[j].generation = generation
            /\ collection_jobs[j].range_epoch = range_map_epoch
            /\ physically_collected_through' = collection_jobs[j].floor
            /\ roots[collection_jobs[j].root] = collection_jobs[j].input
            /\ roots'[collection_jobs[j].root] # collection_jobs[j].input
            /\ collection_jobs'[j] = None]_publicationVars

=============================================================================
