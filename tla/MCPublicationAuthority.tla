----------------------- MODULE MCPublicationAuthority -----------------------
(***************************************************************************)
(* An instance of the publication authority: leases, the retention window  *)
(* and one collection job over a root that is already published.  The      *)
(* publications, pins and deletion reservations are checked with the       *)
(* processes that issue them, in MCObjectPublication.                      *)
(***************************************************************************)
EXTENDS PublicationAuthority, TLC

CONSTANTS m0, m1, x

MCKeys == {m0, m1, x}
MCManifests == {m0, m1}
MCClosure == [m \in MCManifests |-> IF m = m0 THEN {m0, x} ELSE {m1}]
MCBeneath == [n \in Namespaces |-> {m1}]

\* The root names m0 and is the collection root, a window of two versions is
\* set: the state after four commands.
ReadFloorInit ==
    /\ generation = 1 /\ position = 0 /\ root_intent_epoch = 3
    /\ intents = [p \in PubIds |-> None]
    /\ roots = [r \in Roots |-> m0]
    /\ pins = [p \in PinIds |-> None]
    /\ deletion_reservations = [k \in Keys |-> None]
    /\ observed_commit_frontier = 0 /\ retention_window = 2
    /\ retention_policy_epoch = 1 /\ policy_floor = 0 /\ minimum_readable_version = 0
    /\ physically_collected_through = 0
    /\ lease_clock_tick = 0 /\ lease_epoch = 0 /\ leases = [l \in LeaseIds |-> None]
    /\ range_map_epoch = 0 /\ collection_root \in Roots
    /\ collection_jobs = [j \in JobIds |-> None]
    /\ issued_jobs = {} /\ issued_permits = {}

LeaseSymmetry == Permutations(LeaseIds)

ReadFloorSpec ==
    ReadFloorInit /\ [][LeaseNext \/ CollectionNext \/ ActivateGeneration]_publicationVars

=============================================================================
