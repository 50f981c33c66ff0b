------------------------- MODULE ObjectPublication --------------------------
(***************************************************************************)
(* Publishers, a sweeper and a snapshot reader around the publication      *)
(* authority and one object store.                                         *)
(*                                                                         *)
(* A publisher process runs one immutable job; when it is killed a         *)
(* replacement starts with empty scratch and the same request identities,  *)
(* so the authority answers it with the outcome it retained.  The sweeper  *)
(* marks, reserves, deletes and retires.  No backend supports guarded      *)
(* delete, so a delete removes whatever object holds the key.              *)
(***************************************************************************)
EXTENDS PublicationAuthority

CONSTANTS
    Job,           \* publication id -> [manifest, root, prior]
    JobGeneration, \* the generation of every job's credential
    MaxCrashes     \* bound

ASSUME JobsWellFormed ==
    /\ Job \in [PubIds -> [manifest : Manifests, root : Roots, prior : Manifests \cup {None}]]
    /\ JobGeneration \in Nat /\ MaxCrashes \in Nat
    /\ None \notin {"accepted", "rejected"}

VARIABLES
    objects,           \* keys present in the object store
    publisher,         \* per job, the step of its process and the keys left in that step
    prepare_outcome, publish_outcome,   \* outcomes retained for each job's two requests
    sweeper,           \* step, mark, candidate and permit of the sweeper process
    in_flight,         \* keys of delete requests whose sender is dead
    snapshot_root,     \* manifest that the reader took from an authority snapshot
    crashes

storeVars     == << objects, in_flight >>
publisherVars == << publisher, prepare_outcome, publish_outcome >>
objectVars    == << publicationVars, storeVars, publisherVars, sweeper, snapshot_root, crashes >>

Idle == [step |-> "idle", epoch |-> 0, manifests |-> {}, reachable |-> {}, permit |-> None]

\* The authority after its operator set a retention window and the first commits
\* were observed; nothing is published yet.
OpenedAuthority ==
    /\ generation = 1 /\ position = 0 /\ root_intent_epoch = 0
    /\ intents = [p \in PubIds |-> None]
    /\ roots = [r \in Roots |-> None]
    /\ pins = [p \in PinIds |-> None]
    /\ deletion_reservations = [k \in Keys |-> None]
    /\ observed_commit_frontier = MaxVersion /\ retention_window \in Windows
    /\ retention_policy_epoch = 1
    /\ policy_floor = saturating_sub(MaxVersion, retention_window)
    /\ minimum_readable_version = policy_floor
    /\ physically_collected_through = 0
    /\ lease_clock_tick = 0 /\ lease_epoch = 0 /\ leases = [l \in LeaseIds |-> None]
    /\ range_map_epoch = 0 /\ collection_root = None
    /\ collection_jobs = [j \in JobIds |-> None]
    /\ issued_jobs = {} /\ issued_permits = {}

ObjectInit ==
    /\ OpenedAuthority
    /\ objects = {} /\ in_flight = {}
    /\ publisher = [p \in PubIds |-> [step |-> "prepare", left |-> {}]]
    /\ prepare_outcome = [p \in PubIds |-> None]
    /\ publish_outcome = [p \in PubIds |-> None]
    /\ sweeper = Idle
    /\ snapshot_root = None
    /\ crashes = 0

-----------------------------------------------------------------------------
(***************************************************************************)
(* The publisher process.                                                  *)
(***************************************************************************)
Goto(p, step, left) == publisher' = [publisher EXCEPT ![p] = [step |-> step, left |-> left]]

prepare_accepted(p) ==
    /\ generation = JobGeneration
    /\ intents[p] = None
    /\ unreserved(Job[p].manifest)

publish_accepted(p) ==
    /\ generation = JobGeneration
    /\ intents[p] # None
    /\ intents[p].generation = generation
    /\ roots[Job[p].root] = Job[p].prior

\* The state machine answers a repeated request with its retained outcome.
submit_prepare(p) ==
    IF prepare_outcome[p] # None THEN UNCHANGED << publicationVars, prepare_outcome >>
    ELSE IF prepare_accepted(p)
    THEN /\ Prepare(p, Job[p].manifest, Job[p].root, Job[p].prior)
         /\ prepare_outcome' = [prepare_outcome EXCEPT ![p] = "accepted"]
    ELSE /\ UNCHANGED publicationVars
         /\ prepare_outcome' = [prepare_outcome EXCEPT ![p] = "rejected"]

\* Mutated form: a repeated Publish is applied again instead of being answered.
reapply_publish(p) ==
    IF publish_accepted(p)
    THEN /\ Publish(p, Job[p].root, Job[p].prior, Job[p].manifest)
         /\ publish_outcome' = [publish_outcome EXCEPT ![p] = "accepted"]
    ELSE /\ UNCHANGED publicationVars
         /\ publish_outcome' = [publish_outcome EXCEPT ![p] = "rejected"]

submit_publish(p) ==
    IF publish_outcome[p] # None THEN UNCHANGED << publicationVars, publish_outcome >>
    ELSE IF publish_accepted(p)
    THEN /\ Publish(p, Job[p].root, Job[p].prior, Job[p].manifest)
         /\ publish_outcome' = [publish_outcome EXCEPT ![p] = "accepted"]
    ELSE /\ UNCHANGED publicationVars
         /\ publish_outcome' = [publish_outcome EXCEPT ![p] = "rejected"]

\* The process commits the intent and reads it back before it uploads.
PublisherPrepare(p) ==
    /\ publisher[p].step = "prepare"
    /\ submit_prepare(p)
    /\ IF prepare_outcome'[p] = "accepted" /\ intents'[p] # None
       THEN Goto(p, "put", Closure[Job[p].manifest])
       ELSE Goto(p, "failed", {})
    /\ UNCHANGED << storeVars, publish_outcome, sweeper, snapshot_root, crashes >>

\* Creates the object or accepts the identical one already there.
put_if_absent(k) == objects' = objects \cup {k}

\* The manifest is put last.  The read-back is part of the step: what it could
\* miss, verify_closure rereads.
PublisherPut(p) ==
    /\ publisher[p].step = "put"
    /\ \E k \in publisher[p].left :
          /\ k = Job[p].manifest => publisher[p].left = {k}
          /\ put_if_absent(k)
          /\ IF publisher[p].left = {k} THEN Goto(p, "verify", Closure[Job[p].manifest])
             ELSE Goto(p, "put", publisher[p].left \ {k})
    /\ UNCHANGED << publicationVars, in_flight, prepare_outcome, publish_outcome, sweeper,
                    snapshot_root, crashes >>

verify_closure(p, k) ==
    IF k \notin objects THEN Goto(p, "failed", {})
    ELSE IF publisher[p].left = {k} THEN Goto(p, "publish", {})
    ELSE Goto(p, "verify", publisher[p].left \ {k})

PublisherVerify(p) ==
    /\ publisher[p].step = "verify"
    /\ \E k \in publisher[p].left : verify_closure(p, k)
    /\ UNCHANGED << publicationVars, storeVars, prepare_outcome, publish_outcome, sweeper,
                    snapshot_root, crashes >>

\* The process publishes and checks the root and the intent that it reads back.
PublisherPublish(p) ==
    /\ publisher[p].step = "publish"
    /\ submit_publish(p)
    /\ IF publish_outcome'[p] = "accepted" /\ intents'[p] = None
          /\ roots'[Job[p].root] = Job[p].manifest
       THEN Goto(p, "done", {})
       ELSE Goto(p, "failed", {})
    /\ UNCHANGED << storeVars, prepare_outcome, sweeper, snapshot_root, crashes >>

\* The process dies after its request took effect and before it sees the reply.
PublishReplyLost(p) ==
    /\ publisher[p].step = "publish"
    /\ crashes < MaxCrashes
    /\ submit_publish(p)
    /\ crashes' = crashes + 1
    /\ UNCHANGED << storeVars, publisher, prepare_outcome, sweeper, snapshot_root >>

\* The process is killed while it uploads or verifies; a replacement starts over.
PublisherRestart(p) ==
    /\ publisher[p].step \in {"put", "verify"}
    /\ crashes < MaxCrashes
    /\ crashes' = crashes + 1
    /\ Goto(p, "prepare", {})
    /\ UNCHANGED << publicationVars, storeVars, prepare_outcome, publish_outcome, sweeper,
                    snapshot_root >>

\* The job of a process that ended with an error is run again.
PublisherRetry(p) ==
    /\ publisher[p].step = "failed"
    /\ Goto(p, "prepare", {})
    /\ UNCHANGED << publicationVars, storeVars, prepare_outcome, publish_outcome, sweeper,
                    snapshot_root, crashes >>

-----------------------------------------------------------------------------
(***************************************************************************)
(* The sweeper process.                                                    *)
(***************************************************************************)
sweeperOnly == << storeVars, publisherVars, snapshot_root, crashes >>

RootManifests == {roots[r] : r \in Active(roots)} \cup {pins[p] : p \in Active(pins)}

SweepMark ==
    /\ sweeper.step = "idle"
    /\ sweeper' = [Idle EXCEPT !.step = "walk", !.epoch = root_intent_epoch,
                               !.manifests = RootManifests, !.reachable = NamedByIntent]
    /\ UNCHANGED << publicationVars, sweeperOnly >>

\* An incomplete walk yields no deletion.
SweepWalk ==
    /\ sweeper.step = "walk"
    /\ LET walked == UNION {Closure[m] : m \in sweeper.manifests}
       IN sweeper' = IF walked \subseteq objects
                     THEN [sweeper EXCEPT !.step = "sweep", !.manifests = {},
                                          !.reachable = @ \cup walked]
                     ELSE Idle
    /\ UNCHANGED << publicationVars, sweeperOnly >>

\* A listed candidate outside the mark is read, then reserved; a refusal ends the sweep.
SweepReserve ==
    /\ sweeper.step = "sweep"
    /\ \E k \in objects \ sweeper.reachable, plan \in Plans :
          \/ /\ ReserveDelete(plan, sweeper.epoch, k)
             /\ sweeper' = [sweeper EXCEPT !.step = "check", !.permit = deletion_reservations'[k]]
          \/ /\ \/ ~current_mark(sweeper.epoch) \/ k \in Reserved
                \/ k \in NamedByIntent \cup NamedByLease \cup NamedByJob
             /\ sweeper' = Idle
             /\ UNCHANGED publicationVars
    /\ UNCHANGED sweeperOnly

\* delete_reserved without a guard reads the exact object, then sends the delete.
SweepCheck ==
    /\ sweeper.step = "check"
    /\ sweeper' = IF sweeper.permit.key \in objects THEN [sweeper EXCEPT !.step = "delete"]
                  ELSE [sweeper EXCEPT !.step = "failed"]
    /\ UNCHANGED << publicationVars, sweeperOnly >>

SweepDelete ==
    /\ sweeper.step = "delete"
    /\ objects' = objects \ {sweeper.permit.key}
    /\ sweeper' = [sweeper EXCEPT !.step = "retire"]
    /\ UNCHANGED << publicationVars, in_flight, publisherVars, snapshot_root, crashes >>

SweepRetire ==
    /\ sweeper.step = "retire"
    /\ IF sweeper.permit.generation = generation
       THEN RetireDelete(sweeper.permit)
            /\ sweeper' = [sweeper EXCEPT !.step = "sweep", !.permit = None]
       ELSE UNCHANGED publicationVars /\ sweeper' = [sweeper EXCEPT !.step = "failed"]
    /\ UNCHANGED sweeperOnly

\* The replacement repeats its reservation request and recovers the same permit.
SweeperRestart ==
    /\ sweeper.step # "idle"
    /\ crashes < MaxCrashes
    /\ crashes' = crashes + 1
    /\ sweeper' = IF sweeper.permit = None THEN Idle ELSE [sweeper EXCEPT !.step = "check"]
    /\ in_flight' = IF sweeper.step = "delete"
                    THEN in_flight \cup {sweeper.permit.key} ELSE in_flight
    /\ UNCHANGED << publicationVars, objects, publisherVars, snapshot_root >>

\* The store performs a delete request after its sender died.
LateDelete ==
    /\ \E k \in in_flight : objects' = objects \ {k} /\ in_flight' = in_flight \ {k}
    /\ UNCHANGED << publicationVars, publisherVars, sweeper, snapshot_root, crashes >>

-----------------------------------------------------------------------------
(***************************************************************************)
(* The snapshot reader, and the commands of operators.                     *)
(***************************************************************************)
AllButAuthority == << storeVars, publisherVars, sweeper, crashes >>

ReaderSnapshot ==
    /\ snapshot_root' \in RootManifests
    /\ snapshot_root' # snapshot_root
    /\ UNCHANGED << publicationVars, AllButAuthority >>

ReaderAcquire ==
    /\ snapshot_root # None
    /\ \E l \in LeaseIds, v \in 1..MaxVersion, d \in 1..MaxTick :
          AcquireLease(l, v, d, snapshot_root)
    /\ UNCHANGED << AllButAuthority, snapshot_root >>

OperatorCommand ==
    /\ \/ \E l \in LeaseIds, e \in 1..lease_epoch : ReleaseLease(l, e)
       \/ \E p \in PinIds, m \in RootManifests : pins[p] = None /\ Pin(p, None, m)
       \/ \E p \in PinIds, m \in Manifests : Unpin(p, m)
       \/ ActivateGeneration
    /\ UNCHANGED << AllButAuthority, snapshot_root >>

PublisherStep(p) ==
    PublisherPrepare(p) \/ PublisherPut(p) \/ PublisherVerify(p) \/ PublisherPublish(p)

SweepStep ==
    SweepMark \/ SweepWalk \/ SweepReserve \/ SweepCheck \/ SweepDelete \/ SweepRetire

ObjectNext ==
    \/ \E p \in PubIds : PublisherStep(p) \/ PublishReplyLost(p) \/ PublisherRestart(p)
                           \/ PublisherRetry(p)
    \/ SweepStep \/ SweeperRestart
    \/ ReaderSnapshot \/ ReaderAcquire \/ OperatorCommand

\* A delete request that is lost with its sender is never performed.
ObjectSpec == ObjectInit /\ [][ObjectNext]_objectVars

\* It may also be performed at any later time.
LateDeleteSpec == ObjectInit /\ [][ObjectNext \/ LateDelete]_objectVars

\* Running processes take their next step, and a failed job is run again.
ObjectFairSpec ==
    /\ ObjectSpec
    /\ WF_objectVars(SweepStep)
    /\ \A p \in PubIds : WF_objectVars(PublisherStep(p)) /\ WF_objectVars(PublisherRetry(p))

-----------------------------------------------------------------------------
(***************************************************************************)
(* Properties.                                                             *)
(***************************************************************************)
Readable(manifest) == Closure[manifest] \subseteq objects

\* Every root names a manifest whose whole closure is in the object store,
\* through uploads, sweeps, crashes of either process, lost replies and a
\* change of generation.
RootsReadable == \A r \in Active(roots) : Readable(roots[r])

\* The outcome kept for a job's Publish agrees with the roots: a job whose
\* manifest is a root was told, or will be told on a retry, that it published.
PublishedKnown ==
    \A p \in PubIds : roots[Job[p].root] = Job[p].manifest => publish_outcome[p] = "accepted"

\* A publisher that a deletion reservation turned away publishes after the
\* reservation is retired, as long as its prior root stands.
RejectedPublishes ==
    \A p \in PubIds :
        prepare_outcome[p] = "rejected" ~>
            \/ publish_outcome[p] = "accepted"
            \/ roots[Job[p].root] # Job[p].prior

\* The snapshot of an active lease can be read: its closure is in the store.
LeasedReadable == \A l \in Active(leases) : Readable(leases[l].manifest)

=============================================================================
