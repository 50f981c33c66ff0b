--------------------- MODULE PublicationAuthorityProofs ---------------------
(***************************************************************************)
(* Proofs about the publication authority, for every set of keys, roots,   *)
(* leases and jobs and every bound.                                        *)
(*                                                                         *)
(* The frontier order is not inductive alone: that a running job's floor   *)
(* stays above G needs that it is the only job, and that needs every job   *)
(* to be registered at the collection root.                                *)
(***************************************************************************)
EXTENDS PublicationAuthority, TLAPS

\* Every registered job compacts the configured collection root, is filed under
\* its own name, and there is at most one.
OneJob ==
    /\ \A j \in Active(collection_jobs) :
          collection_jobs[j].root = collection_root /\ collection_jobs[j].id = j
    /\ \A j, k \in Active(collection_jobs) : j = k

\* The inductive invariant of the frontiers.
FloorInv == PublicationTypeOK /\ FrontierOrder /\ LeaseProtection /\ OneJob

\* What every command leaves of the frontier fields, before the floor is recomputed.
FloorInputs ==
    /\ observed_commit_frontier' \in Nat
    /\ observed_commit_frontier <= observed_commit_frontier'
    /\ retention_window' \in Windows \cup {None}
    /\ leases' \in [LeaseIds -> Leases \cup {None}]

\* A saturating difference of naturals is a natural and at most the minuend.
LEMMA SaturatingSub ==
    \A a, b \in Nat : saturating_sub(a, b) \in Nat /\ saturating_sub(a, b) <= a
BY DEF saturating_sub, Max2

\* recompute_read_floor raises P and F, keeps F <= P <= C, and passes no lease that
\* the old floor did not pass.
LEMMA RecomputeFloor ==
    ASSUME policy_floor \in Nat, minimum_readable_version \in Nat,
           observed_commit_frontier \in Nat,
           minimum_readable_version <= policy_floor,
           policy_floor <= observed_commit_frontier,
           FloorInputs, recompute_read_floor
    PROVE  /\ policy_floor' \in Nat /\ minimum_readable_version' \in Nat
           /\ policy_floor <= policy_floor'
           /\ policy_floor' <= observed_commit_frontier'
           /\ minimum_readable_version <= minimum_readable_version'
           /\ minimum_readable_version' <= policy_floor'
           /\ \A l \in Active(leases') :
                 minimum_readable_version <= leases'[l].version =>
                     minimum_readable_version' <= leases'[l].version
<1>1. CASE retention_window' = None
  BY <1>1 DEF recompute_read_floor, FloorInputs
<1>2. CASE retention_window' # None
  <2>1. retention_window' \in Nat
    BY <1>2, PublicationConstants DEF FloorInputs
  <2>2. policy_floor' = next_policy_floor(observed_commit_frontier', retention_window')
    BY <1>2 DEF recompute_read_floor
  <2>3. /\ policy_floor' \in Nat
        /\ policy_floor <= policy_floor'
        /\ policy_floor' <= observed_commit_frontier'
    <3>1. observed_commit_frontier' \in Nat /\ observed_commit_frontier <= observed_commit_frontier'
      BY DEF FloorInputs
    <3>2. PICK s : s = saturating_sub(observed_commit_frontier', retention_window')
      OBVIOUS
    <3>3. s \in Nat /\ s <= observed_commit_frontier'
      BY <2>1, <3>1, <3>2, SaturatingSub
    <3>4. policy_floor' = Max2(policy_floor, s)
      BY <2>2, <3>2 DEF next_policy_floor
    <3>. QED
      BY <3>1, <3>3, <3>4 DEF Max2
  <2>4. PICK candidate \in floor_candidates(leases', policy_floor') :
           /\ \A other \in floor_candidates(leases', policy_floor') : candidate <= other
           /\ minimum_readable_version' = Max2(minimum_readable_version, candidate)
    BY <1>2 DEF recompute_read_floor
  <2>5. \A l \in Active(leases') : leases'[l] \in Leases /\ leases'[l].version \in Nat
    BY DEF Active, FloorInputs, Leases
  <2>6. candidate \in Nat
    BY <2>3, <2>5 DEF floor_candidates, LeasedVersions
  <2>7. candidate <= policy_floor'
    BY <2>4 DEF floor_candidates
  <2>8. \A l \in Active(leases') : candidate <= leases'[l].version
    BY <2>4 DEF floor_candidates, LeasedVersions
  <2>. QED
    BY <2>3, <2>4, <2>5, <2>6, <2>7, <2>8 DEF Max2
<1>. QED BY <1>1, <1>2

-----------------------------------------------------------------------------
(***************************************************************************)
(* Type correctness, one lemma for each group of commands.                 *)
(***************************************************************************)
\* A group of fields that a command leaves alone keeps its types.
LEMMA TypeFrames ==
    /\ RootTypes /\ UNCHANGED rootVars => RootTypes'
    /\ FloorTypes /\ UNCHANGED floorVars => FloorTypes'
    /\ LeaseTypes /\ UNCHANGED leaseVars => LeaseTypes'
    /\ CollectTypes /\ UNCHANGED collectVars => CollectTypes'
<1>1. RootTypes /\ UNCHANGED rootVars => RootTypes'
  BY DEF RootTypes, rootVars
<1>2. FloorTypes /\ UNCHANGED floorVars => FloorTypes'
  BY DEF FloorTypes, floorVars
<1>3. LeaseTypes /\ UNCHANGED leaseVars => LeaseTypes'
  BY DEF LeaseTypes, leaseVars
<1>4. CollectTypes /\ UNCHANGED collectVars => CollectTypes'
  BY DEF CollectTypes, collectVars
<1>. QED BY <1>1, <1>2, <1>3, <1>4

\* Commands that end in recompute_read_floor keep the types of the floors.
LEMMA FloorTyped ==
    ASSUME FloorTypes, FrontierOrder, FloorInputs, recompute_read_floor,
           retention_policy_epoch' \in Nat
    PROVE  FloorTypes'
<1>1. /\ policy_floor \in Nat /\ minimum_readable_version \in Nat
      /\ observed_commit_frontier \in Nat
      /\ minimum_readable_version <= policy_floor
      /\ policy_floor <= observed_commit_frontier
  BY DEF FloorTypes, FrontierOrder
<1>2. policy_floor' \in Nat /\ minimum_readable_version' \in Nat
  BY <1>1, RecomputeFloor
<1>. QED BY <1>2 DEF FloorTypes, FloorInputs

\* The commands that recompute the floor keep the types, and give it its inputs.
LEMMA FloorCommandsTyped ==
    ASSUME PublicationTypeOK, FrontierOrder,
           \/ \E v \in 1..MaxVersion : ObserveCommittedFrontier(v)
           \/ \E w \in Windows : SetRetentionWindow(w)
           \/ \E l \in LeaseIds, v \in 1..MaxVersion, d \in 1..MaxTick, m \in Manifests :
                 AcquireLease(l, v, d, m)
           \/ \E l \in LeaseIds, e \in 1..lease_epoch : ReleaseLease(l, e)
           \/ \E t \in 1..MaxTick : AdvanceLeaseClock(t)
    PROVE  PublicationTypeOK' /\ FloorInputs /\ recompute_read_floor
<1> USE DEF PublicationTypeOK
<1>1. ASSUME NEW v \in 1..MaxVersion, ObserveCommittedFrontier(v)
      PROVE  PublicationTypeOK' /\ FloorInputs /\ recompute_read_floor
  <2>1. FloorInputs /\ recompute_read_floor /\ retention_policy_epoch' \in Nat
    BY <1>1, PublicationConstants DEF ObserveCommittedFrontier, FloorInputs, FloorTypes, LeaseTypes, leaseVars
  <2>. QED
    BY <1>1, <2>1, FloorTyped, TypeFrames DEF ObserveCommittedFrontier
<1>2. ASSUME NEW w \in Windows, SetRetentionWindow(w)
      PROVE  PublicationTypeOK' /\ FloorInputs /\ recompute_read_floor
  <2>1. FloorInputs /\ recompute_read_floor /\ retention_policy_epoch' \in Nat
    BY <1>2, PublicationConstants DEF SetRetentionWindow, FloorInputs, FloorTypes, LeaseTypes, leaseVars
  <2>. QED
    BY <1>2, <2>1, FloorTyped, TypeFrames DEF SetRetentionWindow
<1>3. ASSUME NEW l \in LeaseIds, NEW v \in 1..MaxVersion, NEW d \in 1..MaxTick,
             NEW m \in Manifests, AcquireLease(l, v, d, m)
      PROVE  PublicationTypeOK' /\ FloorInputs /\ recompute_read_floor
  <2>1. /\ position' \in Nat /\ lease_epoch' \in Nat /\ root_intent_epoch' \in Nat
        /\ v \in Nat /\ d \in Nat
    BY <1>3, PublicationConstants DEF AcquireLease, issue_position, advance_root_intent_epoch, LeaseTypes
  <2>2. leases' \in [LeaseIds -> Leases \cup {None}]
    BY <1>3, <2>1 DEF AcquireLease, LeaseTypes, Leases
  <2>3. LeaseTypes'
    BY <1>3, <2>1, <2>2 DEF AcquireLease, LeaseTypes
  <2>4. FloorInputs /\ recompute_read_floor /\ retention_policy_epoch' \in Nat
    BY <1>3, <2>2 DEF AcquireLease, FloorInputs, FloorTypes
  <2>. QED
    BY <1>3, <2>1, <2>3, <2>4, FloorTyped, TypeFrames DEF AcquireLease
<1>4. ASSUME NEW l \in LeaseIds, NEW e \in 1..lease_epoch, ReleaseLease(l, e)
      PROVE  PublicationTypeOK' /\ FloorInputs /\ recompute_read_floor
  <2>1. LeaseTypes' /\ root_intent_epoch' \in Nat
    BY <1>4 DEF ReleaseLease, LeaseTypes, advance_root_intent_epoch
  <2>2. FloorInputs /\ recompute_read_floor /\ retention_policy_epoch' \in Nat
    BY <1>4, <2>1 DEF ReleaseLease, FloorInputs, FloorTypes, LeaseTypes
  <2>. QED
    BY <1>4, <2>1, <2>2, FloorTyped, TypeFrames DEF ReleaseLease
<1>5. ASSUME NEW t \in 1..MaxTick, AdvanceLeaseClock(t)
      PROVE  PublicationTypeOK' /\ FloorInputs /\ recompute_read_floor
  <2>1. LeaseTypes' /\ root_intent_epoch' \in Nat
    BY <1>5, PublicationConstants DEF AdvanceLeaseClock, LeaseTypes, advance_root_intent_epoch
  <2>2. FloorInputs /\ recompute_read_floor /\ retention_policy_epoch' \in Nat
    BY <1>5, <2>1 DEF AdvanceLeaseClock, FloorInputs, FloorTypes, LeaseTypes
  <2>. QED
    BY <1>5, <2>1, <2>2, FloorTyped, TypeFrames DEF AdvanceLeaseClock
<1>. QED BY <1>1, <1>2, <1>3, <1>4, <1>5

\* The other commands keep the types: they leave the frontiers alone.
LEMMA OtherCommandsTyped ==
    ASSUME PublicationTypeOK,
           \/ \E l \in LeaseIds, e \in 1..lease_epoch, d \in 1..MaxTick : RenewLease(l, e, d)
           \/ CollectionNext \/ RootNext \/ ActivateGeneration
    PROVE  PublicationTypeOK'
<1> USE DEF PublicationTypeOK
<1>1. ASSUME NEW l \in LeaseIds, NEW e \in 1..lease_epoch, NEW d \in 1..MaxTick,
             RenewLease(l, e, d)
      PROVE  PublicationTypeOK'
  <2>1. /\ position' \in Nat /\ lease_epoch' \in Nat /\ root_intent_epoch' \in Nat
        /\ d \in Nat /\ leases[l] \in Leases
    BY <1>1, PublicationConstants DEF RenewLease, issue_position, advance_root_intent_epoch, LeaseTypes
  <2>2. renewed(leases[l], lease_epoch', d, position') \in Leases
    BY <2>1, Zenon DEF renewed, Leases
  <2>3. LeaseTypes'
    BY <1>1, <2>1, <2>2 DEF RenewLease, LeaseTypes
  <2>. QED
    BY <1>1, <2>1, <2>3, TypeFrames DEF RenewLease
<1>2. ASSUME NEW e \in 1..MaxRangeEpoch, ObserveRangeMapEpoch(e) PROVE PublicationTypeOK'
  <2>1. CollectTypes'
    BY <1>2, PublicationConstants DEF ObserveRangeMapEpoch, CollectTypes
  <2>. QED BY <1>2, <2>1, TypeFrames DEF ObserveRangeMapEpoch
<1>3. ASSUME NEW o \in Roots \cup {None}, NEW r \in Roots, ConfigureCollectionRoot(o, r)
      PROVE  PublicationTypeOK'
  <2>1. /\ collection_root' = r /\ advance_root_intent_epoch
        /\ UNCHANGED << generation, position, rootVars, floorVars, leaseVars >>
        /\ UNCHANGED << physically_collected_through, range_map_epoch, collection_jobs,
                        issued_jobs >>
    BY <1>3, Zenon DEF ConfigureCollectionRoot
  <2>2. CollectTypes'
    BY <2>1 DEF CollectTypes
  <2>. QED BY <2>1, <2>2, TypeFrames DEF advance_root_intent_epoch
<1>4. ASSUME NEW j \in JobIds, NEW f \in 1..MaxVersion, NEW m \in Manifests, NEW r \in Roots,
             NEW e \in 1..MaxRangeEpoch, NEW x \in 0..MaxVersion, NEW n \in Namespaces,
             PrepareCollection(j, f, m, r, e, x, n)
      PROVE  PublicationTypeOK'
  <2>1. /\ position' \in Nat /\ root_intent_epoch' \in Nat
        /\ f \in Nat /\ e \in Nat /\ x \in Nat
    BY <1>4, PublicationConstants DEF PrepareCollection, issue_position, advance_root_intent_epoch
  <2>2. PICK job : job = [id |-> j, generation |-> generation, position |-> position',
                          floor |-> f, input |-> m, root |-> r, range_epoch |-> e,
                          expected |-> x, namespace |-> n]
    BY Zenon
  <2>3. job \in Jobs
    BY <2>1, <2>2 DEF Jobs
  <2>4. /\ collection_jobs' = [collection_jobs EXCEPT ![j] = job]
        /\ issued_jobs' = issued_jobs \cup {collection_jobs'[j]}
        /\ UNCHANGED << physically_collected_through, range_map_epoch, collection_root >>
    BY <1>4, <2>2, Zenon DEF PrepareCollection
  <2>5. CollectTypes'
    BY <2>3, <2>4 DEF CollectTypes
  <2>. QED BY <1>4, <2>1, <2>5, TypeFrames DEF PrepareCollection
<1>5. ASSUME NEW token \in issued_jobs, NEW m \in Manifests, PublishCollection(token, m)
      PROVE  PublicationTypeOK'
  <2>1. token \in Jobs /\ token.floor \in Nat
    BY DEF CollectTypes, Jobs
  <2>2. /\ roots' = [roots EXCEPT ![token.root] = m]
        /\ physically_collected_through' = token.floor
        /\ collection_jobs' = [collection_jobs EXCEPT ![token.id] = None]
        /\ advance_root_intent_epoch
        /\ UNCHANGED << intents, pins, deletion_reservations, issued_permits >>
        /\ UNCHANGED << range_map_epoch, collection_root, issued_jobs >>
        /\ UNCHANGED << generation, position, floorVars, leaseVars >>
    BY <1>5, Zenon DEF PublishCollection
  <2>3. CollectTypes'
    BY <2>1, <2>2 DEF CollectTypes
  <2>4. RootTypes'
    BY <2>2 DEF RootTypes
  <2>. QED BY <2>2, <2>3, <2>4, TypeFrames DEF advance_root_intent_epoch
<1>6. ASSUME NEW token \in issued_jobs, AbandonCollection(token) PROVE PublicationTypeOK'
  <2>1. /\ collection_jobs' = [collection_jobs EXCEPT ![token.id] = None]
        /\ UNCHANGED << physically_collected_through, range_map_epoch, collection_root,
                        issued_jobs >>
        /\ UNCHANGED << generation, position, rootVars, floorVars, leaseVars >>
        /\ advance_root_intent_epoch
    BY <1>6, Zenon DEF AbandonCollection
  <2>2. CollectTypes'
    BY <2>1 DEF CollectTypes
  <2>. QED BY <2>1, <2>2, TypeFrames DEF advance_root_intent_epoch
<1>7. ASSUME NEW p \in PubIds, NEW m \in Manifests, NEW r \in Roots,
             NEW o \in Manifests \cup {None}, Prepare(p, m, r, o)
      PROVE  PublicationTypeOK'
  <2>1. [manifest |-> m, root |-> r, prior |-> o, generation |-> generation] \in Intents
    BY DEF Intents
  <2>2. RootTypes' /\ root_intent_epoch' \in Nat
    BY <1>7, <2>1 DEF Prepare, RootTypes, advance_root_intent_epoch
  <2>. QED BY <1>7, <2>2, TypeFrames DEF Prepare
<1>8. ASSUME NEW p \in PubIds, NEW m \in Manifests, NEW r \in Roots,
             NEW o \in Manifests \cup {None}, Publish(p, r, o, m)
      PROVE  PublicationTypeOK'
  <2>1. RootTypes' /\ root_intent_epoch' \in Nat
    BY <1>8 DEF Publish, RootTypes, advance_root_intent_epoch
  <2>. QED BY <1>8, <2>1, TypeFrames DEF Publish
<1>9. ASSUME NEW p \in PinIds, NEW o \in Manifests \cup {None}, NEW m \in Manifests, Pin(p, o, m)
      PROVE  PublicationTypeOK'
  <2>1. RootTypes' /\ root_intent_epoch' \in Nat
    BY <1>9 DEF Pin, RootTypes, advance_root_intent_epoch
  <2>. QED BY <1>9, <2>1, TypeFrames DEF Pin
<1>10. ASSUME NEW p \in PinIds, NEW o \in Manifests, Unpin(p, o) PROVE PublicationTypeOK'
  <2>1. RootTypes' /\ root_intent_epoch' \in Nat
    BY <1>10 DEF Unpin, RootTypes, advance_root_intent_epoch
  <2>. QED BY <1>10, <2>1, TypeFrames DEF Unpin
<1>11. ASSUME NEW g \in Plans, NEW e \in 0..MaxEpoch, NEW k \in Keys, ReserveDelete(g, e, k)
       PROVE  PublicationTypeOK'
  <2>1. position' \in Nat
    BY <1>11 DEF ReserveDelete, issue_position
  <2>2. [key |-> k, plan |-> g, generation |-> generation, position |-> position'] \in Permits
    BY <2>1 DEF Permits
  <2>3. RootTypes'
    BY <1>11, <2>2 DEF ReserveDelete, RootTypes
  <2>. QED BY <1>11, <2>1, <2>3, TypeFrames DEF ReserveDelete
<1>12. ASSUME NEW permit \in issued_permits, RetireDelete(permit) PROVE PublicationTypeOK'
  <2>1. RootTypes'
    BY <1>12 DEF RetireDelete, RootTypes
  <2>. QED BY <1>12, <2>1, TypeFrames DEF RetireDelete
<1>13. ASSUME ActivateGeneration PROVE PublicationTypeOK'
  BY <1>13, TypeFrames DEF ActivateGeneration
<1> HIDE DEF PublicationTypeOK
<1>14. CASE CollectionNext
  BY <1>2, <1>3, <1>4, <1>5, <1>6, <1>14 DEF CollectionNext
<1>15. CASE RootNext
  BY <1>7, <1>8, <1>9, <1>10, <1>11, <1>12, <1>15 DEF RootNext
<1>. QED BY <1>1, <1>13, <1>14, <1>15

-----------------------------------------------------------------------------
(***************************************************************************)
(* The frontier order and the protection of leases.                        *)
(***************************************************************************)
\* The leases that a command leaves respect the floor as it was before.
LeasesAdmitted ==
    \A l \in Active(leases') :
        /\ minimum_readable_version <= leases'[l].version
        /\ leases'[l].version <= observed_commit_frontier'
        /\ lease_clock_tick' < leases'[l].deadline

\* A command that recomputes the floor preserves the invariant when the leases
\* it leaves were admitted by the old floor and it leaves the jobs alone.
LEMMA FloorRaised ==
    ASSUME FloorInv, PublicationTypeOK', FloorInputs, recompute_read_floor,
           LeasesAdmitted, UNCHANGED collectVars
    PROVE  FloorInv'
<1>1. /\ policy_floor' \in Nat /\ minimum_readable_version' \in Nat
      /\ policy_floor' <= observed_commit_frontier'
      /\ minimum_readable_version <= minimum_readable_version'
      /\ minimum_readable_version' <= policy_floor'
      /\ \A l \in Active(leases') :
            minimum_readable_version <= leases'[l].version =>
                minimum_readable_version' <= leases'[l].version
  BY RecomputeFloor DEF FloorInv, PublicationTypeOK, FloorTypes, FrontierOrder
<1>2. LeaseProtection'
  BY <1>1 DEF LeasesAdmitted, LeaseProtection
<1>3. \A j \in Active(collection_jobs) : collection_jobs[j].floor \in Nat
  BY DEF FloorInv, PublicationTypeOK, CollectTypes, Active, Jobs
<1>4. FrontierOrder'
  BY <1>1, <1>3 DEF FloorInv, FrontierOrder, PublicationTypeOK, FloorTypes, CollectTypes, collectVars, Active
<1>5. OneJob'
  BY DEF FloorInv, OneJob, collectVars, Active
<1>. QED BY <1>2, <1>4, <1>5 DEF FloorInv

\* The commands that recompute the floor preserve the invariant.
LEMMA FloorCommandsOrdered ==
    ASSUME FloorInv,
           \/ \E v \in 1..MaxVersion : ObserveCommittedFrontier(v)
           \/ \E w \in Windows : SetRetentionWindow(w)
           \/ \E l \in LeaseIds, v \in 1..MaxVersion, d \in 1..MaxTick, m \in Manifests :
                 AcquireLease(l, v, d, m)
           \/ \E l \in LeaseIds, e \in 1..lease_epoch : ReleaseLease(l, e)
           \/ \E t \in 1..MaxTick : AdvanceLeaseClock(t)
    PROVE  FloorInv'
<1>1. PublicationTypeOK' /\ FloorInputs /\ recompute_read_floor
  BY FloorCommandsTyped DEF FloorInv
<1>2. \A l \in Active(leases) : /\ leases[l].version \in Nat /\ leases[l].deadline \in Nat
                                /\ minimum_readable_version <= leases[l].version
                                /\ leases[l].version <= observed_commit_frontier
                                /\ lease_clock_tick < leases[l].deadline
  BY DEF FloorInv, LeaseProtection, PublicationTypeOK, LeaseTypes, Active, Leases
<1>3. ASSUME NEW v \in 1..MaxVersion, ObserveCommittedFrontier(v) PROVE FloorInv'
  <2>1. LeasesAdmitted /\ UNCHANGED collectVars
    BY <1>2, <1>3, PublicationConstants DEF ObserveCommittedFrontier, LeasesAdmitted, leaseVars, FloorInv, PublicationTypeOK, FloorTypes, LeaseTypes, Active
  <2>. QED BY <1>1, <2>1, FloorRaised
<1>4. ASSUME NEW w \in Windows, SetRetentionWindow(w) PROVE FloorInv'
  <2>1. LeasesAdmitted /\ UNCHANGED collectVars
    BY <1>2, <1>4 DEF SetRetentionWindow, LeasesAdmitted, leaseVars, Active
  <2>. QED BY <1>1, <2>1, FloorRaised
<1>5. ASSUME NEW l \in LeaseIds, NEW v \in 1..MaxVersion, NEW d \in 1..MaxTick,
             NEW m \in Manifests, AcquireLease(l, v, d, m)
      PROVE  FloorInv'
  <2>1. LeasesAdmitted
    <3>1. /\ leases'[l].version = v /\ leases'[l].deadline = d
          /\ \A i \in LeaseIds \ {l} : leases'[i] = leases[i]
          /\ DOMAIN leases = LeaseIds /\ DOMAIN leases' = LeaseIds
      BY <1>5 DEF AcquireLease, FloorInv, PublicationTypeOK, LeaseTypes
    <3>2. /\ minimum_readable_version <= v /\ v <= observed_commit_frontier'
          /\ lease_clock_tick' < d
          /\ observed_commit_frontier' = observed_commit_frontier
          /\ lease_clock_tick' = lease_clock_tick
      BY <1>5, PublicationConstants DEF AcquireLease, readable_version, FloorInv, PublicationTypeOK, FloorTypes, LeaseTypes
    <3>. QED BY <1>2, <3>1, <3>2 DEF LeasesAdmitted, Active
  <2>2. UNCHANGED collectVars
    BY <1>5, Zenon DEF AcquireLease
  <2>. QED BY <1>1, <2>1, <2>2, FloorRaised
<1>6. ASSUME NEW l \in LeaseIds, NEW e \in 1..lease_epoch, ReleaseLease(l, e) PROVE FloorInv'
  <2>1. LeasesAdmitted
    BY <1>2, <1>6 DEF ReleaseLease, LeasesAdmitted, Active, FloorInv, PublicationTypeOK, LeaseTypes
  <2>2. UNCHANGED collectVars
    BY <1>6, Zenon DEF ReleaseLease
  <2>. QED BY <1>1, <2>1, <2>2, FloorRaised
<1>7. ASSUME NEW t \in 1..MaxTick, AdvanceLeaseClock(t) PROVE FloorInv'
  <2>1. \A l \in Active(leases') :
           l \in Active(leases) /\ leases'[l] = leases[l] /\ ~(leases[l].deadline <= t)
    BY <1>7 DEF AdvanceLeaseClock, expired, Active, FloorInv, PublicationTypeOK, LeaseTypes
  <2>2. /\ lease_clock_tick' = t /\ t \in Nat
        /\ observed_commit_frontier' = observed_commit_frontier
    BY <1>7, PublicationConstants DEF AdvanceLeaseClock
  <2>3. LeasesAdmitted
    BY <1>2, <2>1, <2>2 DEF LeasesAdmitted
  <2>4. UNCHANGED collectVars
    BY <1>7 DEF AdvanceLeaseClock
  <2>. QED BY <1>1, <2>3, <2>4, FloorRaised
<1>. QED BY <1>3, <1>4, <1>5, <1>6, <1>7

\* Commands that leave frontiers, leases and jobs alone preserve the invariant.
LEMMA FloorFrame ==
    ASSUME FloorInv, PublicationTypeOK', UNCHANGED floorVars, UNCHANGED leaseVars,
           UNCHANGED << physically_collected_through, collection_root, collection_jobs >>
    PROVE  FloorInv'
BY DEF FloorInv, FrontierOrder, LeaseProtection, OneJob, floorVars, leaseVars, Active

\* A renewal only moves a deadline further into the future.
LEMMA RenewLeaseOrdered ==
    ASSUME FloorInv, PublicationTypeOK', NEW l \in LeaseIds, NEW e \in 1..lease_epoch,
           NEW d \in 1..MaxTick, RenewLease(l, e, d)
    PROVE  FloorInv'
<1>1. leases[l] \in Leases
  BY DEF RenewLease, FloorInv, PublicationTypeOK, LeaseTypes
<1>2. /\ leases'[l].version = leases[l].version /\ leases'[l].deadline = d
      /\ \A i \in LeaseIds \ {l} : leases'[i] = leases[i]
      /\ DOMAIN leases = LeaseIds /\ DOMAIN leases' = LeaseIds
      /\ l \in Active(leases)
  BY <1>1 DEF RenewLease, renewed, FloorInv, PublicationTypeOK, LeaseTypes, Leases, Active
<1>3. UNCHANGED floorVars /\ UNCHANGED collectVars /\ UNCHANGED lease_clock_tick
      /\ lease_clock_tick < d
  BY DEF RenewLease
<1>4. LeaseProtection'
  BY <1>2, <1>3 DEF FloorInv, LeaseProtection, floorVars, Active
<1>5. FrontierOrder' /\ OneJob'
  BY <1>3 DEF FloorInv, FrontierOrder, OneJob, floorVars, collectVars, Active
<1>. QED BY <1>4, <1>5 DEF FloorInv

\* Preparing, publishing and abandoning collections keep the job's floor between
\* G and F: a job is prepared only when no other is registered, and publishing
\* it removes the only one.
LEMMA CollectionOrdered ==
    ASSUME FloorInv, PublicationTypeOK', CollectionNext
    PROVE  FloorInv'
<1>1. ASSUME NEW e \in 1..MaxRangeEpoch, ObserveRangeMapEpoch(e) PROVE FloorInv'
  BY <1>1, FloorFrame DEF ObserveRangeMapEpoch
<1>2. ASSUME NEW o \in Roots \cup {None}, NEW r \in Roots, ConfigureCollectionRoot(o, r)
      PROVE  FloorInv'
  <2>1. /\ Active(collection_jobs) = {} /\ collection_jobs' = collection_jobs
        /\ physically_collected_through' = physically_collected_through
        /\ UNCHANGED floorVars /\ UNCHANGED leaseVars
    BY <1>2 DEF ConfigureCollectionRoot
  <2>2. Active(collection_jobs)' = {}
    BY <2>1 DEF Active
  <2>. QED
    BY <2>1, <2>2 DEF FloorInv, FrontierOrder, LeaseProtection, OneJob, floorVars, leaseVars, Active
<1>3. ASSUME NEW j \in JobIds, NEW f \in 1..MaxVersion, NEW m \in Manifests, NEW r \in Roots,
             NEW e \in 1..MaxRangeEpoch, NEW x \in 0..MaxVersion, NEW n \in Namespaces,
             PrepareCollection(j, f, m, r, e, x, n)
      PROVE  FloorInv'
  <2>1. Active(collection_jobs) = {}
    BY <1>3 DEF PrepareCollection, FloorInv, OneJob
  <2>2. /\ collection_jobs'[j].id = j /\ collection_jobs'[j].floor = f
        /\ collection_jobs'[j].root = r
    BY <1>3 DEF PrepareCollection, FloorInv, PublicationTypeOK, CollectTypes
  <2>3. \A k \in JobIds \ {j} : collection_jobs'[k] = collection_jobs[k]
    BY <1>3 DEF PrepareCollection, FloorInv, PublicationTypeOK, CollectTypes
  <2>4. \A k \in Active(collection_jobs') : k = j
    BY <2>1, <2>3, PublicationConstants DEF Active, FloorInv, PublicationTypeOK, CollectTypes
  <2>5. /\ r = collection_root /\ collection_root' = collection_root
        /\ physically_collected_through < f /\ f <= minimum_readable_version
        /\ physically_collected_through' = physically_collected_through
        /\ UNCHANGED floorVars /\ UNCHANGED leaseVars
    BY <1>3 DEF PrepareCollection, collectable
  <2>6. FrontierOrder'
    BY <2>2, <2>4, <2>5 DEF FloorInv, FrontierOrder, floorVars
  <2>7. OneJob'
    BY <2>2, <2>4, <2>5 DEF OneJob
  <2>8. LeaseProtection'
    BY <2>5 DEF FloorInv, LeaseProtection, floorVars, leaseVars, Active
  <2>. QED BY <2>6, <2>7, <2>8 DEF FloorInv
<1>4. ASSUME NEW token \in issued_jobs, NEW m \in Manifests, PublishCollection(token, m)
      PROVE  FloorInv'
  <2>1. token \in Jobs /\ token.id \in JobIds /\ token.floor \in Nat
    BY DEF FloorInv, PublicationTypeOK, CollectTypes, Jobs
  <2>2. collection_jobs[token.id] = token /\ token.id \in Active(collection_jobs)
    BY <1>4, <2>1, PublicationConstants DEF PublishCollection, exact_job, Active, FloorInv, PublicationTypeOK, CollectTypes
  <2>3. Active(collection_jobs') = {}
    BY <1>4, <2>2 DEF PublishCollection, FloorInv, OneJob, Active, PublicationTypeOK, CollectTypes
  <2>4. /\ physically_collected_through' = token.floor
        /\ UNCHANGED floorVars /\ UNCHANGED leaseVars
    BY <1>4 DEF PublishCollection
  <2>5. token.floor <= minimum_readable_version
    BY <2>2 DEF FloorInv, FrontierOrder
  <2>6. FrontierOrder' /\ OneJob'
    BY <2>3, <2>4, <2>5 DEF FloorInv, FrontierOrder, OneJob, floorVars
  <2>7. LeaseProtection'
    BY <2>4 DEF FloorInv, LeaseProtection, floorVars, leaseVars, Active
  <2>. QED BY <2>6, <2>7 DEF FloorInv
<1>5. ASSUME NEW token \in issued_jobs, AbandonCollection(token) PROVE FloorInv'
  <2>1. \A k \in Active(collection_jobs') :
           k \in Active(collection_jobs) /\ collection_jobs'[k] = collection_jobs[k]
    BY <1>5 DEF AbandonCollection, Active, FloorInv, PublicationTypeOK, CollectTypes
  <2>2. /\ UNCHANGED << physically_collected_through, collection_root >>
        /\ UNCHANGED floorVars /\ UNCHANGED leaseVars
    BY <1>5 DEF AbandonCollection
  <2>3. FrontierOrder' /\ OneJob'
    BY <2>1, <2>2 DEF FloorInv, FrontierOrder, OneJob, floorVars
  <2>4. LeaseProtection'
    BY <2>2 DEF FloorInv, LeaseProtection, floorVars, leaseVars, Active
  <2>. QED BY <2>3, <2>4 DEF FloorInv
<1>. QED BY <1>1, <1>2, <1>3, <1>4, <1>5 DEF CollectionNext

\* Publications, pins and deletions touch no frontier.
LEMMA RootFrame ==
    ASSUME RootNext \/ ActivateGeneration
    PROVE  /\ UNCHANGED floorVars /\ UNCHANGED leaseVars /\ UNCHANGED collectVars
<1>1. CASE RootNext
  BY <1>1, Zenon DEF RootNext, Prepare, Publish, Pin, Unpin, ReserveDelete, RetireDelete
<1>. QED BY <1>1 DEF ActivateGeneration

\* The authority starts in the invariant.
LEMMA FloorInitially == PublicationInit => FloorInv
<1>1. PublicationInit => PublicationTypeOK
  BY DEF PublicationInit, PublicationTypeOK, RootTypes, FloorTypes, LeaseTypes, CollectTypes
<1>. QED
  BY <1>1 DEF PublicationInit, FloorInv, FrontierOrder, LeaseProtection, OneJob, Active

\* Every command preserves the invariant.
LEMMA FloorStep == FloorInv /\ [PublicationNext]_publicationVars => FloorInv'
<1> SUFFICES ASSUME FloorInv, [PublicationNext]_publicationVars PROVE FloorInv'
  OBVIOUS
<1>1. CASE LeaseNext
  <2>1. ASSUME NEW l \in LeaseIds, NEW e \in 1..lease_epoch, NEW d \in 1..MaxTick,
               RenewLease(l, e, d)
        PROVE  FloorInv'
    <3>1. PublicationTypeOK'
      BY <2>1, OtherCommandsTyped DEF FloorInv
    <3>. QED BY <2>1, <3>1, RenewLeaseOrdered
  <2>. QED BY <1>1, <2>1, FloorCommandsOrdered DEF LeaseNext
<1>2. CASE CollectionNext
  <2>1. PublicationTypeOK'
    BY <1>2, OtherCommandsTyped DEF FloorInv
  <2>. QED BY <1>2, <2>1, CollectionOrdered
<1>3. CASE RootNext \/ ActivateGeneration
  <2>1. PublicationTypeOK'
    BY <1>3, OtherCommandsTyped DEF FloorInv
  <2>2. UNCHANGED floorVars /\ UNCHANGED leaseVars /\ UNCHANGED collectVars
    BY <1>3, RootFrame
  <2>. QED BY <2>1, <2>2, FloorFrame DEF collectVars
<1>4. CASE UNCHANGED publicationVars
  <2>1. PublicationTypeOK'
    BY <1>4, TypeFrames DEF FloorInv, PublicationTypeOK, publicationVars
  <2>2. UNCHANGED floorVars /\ UNCHANGED leaseVars /\ UNCHANGED collectVars
    BY <1>4 DEF publicationVars
  <2>. QED BY <2>1, <2>2, FloorFrame DEF collectVars
<1>. QED BY <1>1, <1>2, <1>3, <1>4 DEF PublicationNext

\* The types, the frontier order G <= F_job <= F <= P <= C and the protection of
\* every lease hold throughout, together with the uniqueness of the job.
THEOREM FloorInvariant == PublicationSpec => []FloorInv
BY FloorInitially, FloorStep, PTL DEF PublicationSpec

\* The authority's fields keep their types.
THEOREM PublicationTypes == PublicationSpec => []PublicationTypeOK
<1>1. FloorInv => PublicationTypeOK
  BY DEF FloorInv
<1>. QED BY <1>1, FloorInvariant, PTL

\* History is never collected above the read floor, nor the floor raised above
\* the policy or the committed frontier.
THEOREM FrontiersOrdered == PublicationSpec => []FrontierOrder
<1>1. FloorInv => FrontierOrder
  BY DEF FloorInv
<1>. QED BY <1>1, FloorInvariant, PTL

\* An active lease is readable until the committed clock reaches its deadline.
THEOREM LeasesProtected == PublicationSpec => []LeaseProtection
<1>1. FloorInv => LeaseProtection
  BY DEF FloorInv
<1>. QED BY <1>1, FloorInvariant, PTL

-----------------------------------------------------------------------------
(***************************************************************************)
(* Action properties.                                                      *)
(***************************************************************************)
\* What the commands that recompute the floor do to it.
LEMMA FloorNeverRetreats ==
    ASSUME FloorInv, FloorInputs, recompute_read_floor
    PROVE  /\ observed_commit_frontier' >= observed_commit_frontier
           /\ policy_floor' >= policy_floor
           /\ minimum_readable_version' >= minimum_readable_version
<1>1. /\ policy_floor \in Nat /\ minimum_readable_version \in Nat
      /\ observed_commit_frontier \in Nat
      /\ minimum_readable_version <= policy_floor
      /\ policy_floor <= observed_commit_frontier
  BY DEF FloorInv, PublicationTypeOK, FloorTypes, FrontierOrder
<1>2. /\ policy_floor' \in Nat /\ minimum_readable_version' \in Nat
      /\ policy_floor <= policy_floor'
      /\ minimum_readable_version <= minimum_readable_version'
  BY <1>1, RecomputeFloor
<1>. QED BY <1>1, <1>2 DEF FloorInputs

\* Clocks, epochs and the collected frontier in a step of the lease commands.
LEMMA LeaseClocksAdvance ==
    ASSUME FloorInv, LeaseNext
    PROVE  /\ physically_collected_through' = physically_collected_through
           /\ lease_clock_tick' >= lease_clock_tick
           /\ lease_epoch' >= lease_epoch
           /\ root_intent_epoch' >= root_intent_epoch
<1>. lease_clock_tick \in Nat /\ lease_epoch \in Nat /\ root_intent_epoch \in Nat
  BY DEF FloorInv, PublicationTypeOK, LeaseTypes
<1>1. CASE \E v \in 1..MaxVersion : ObserveCommittedFrontier(v)
  BY <1>1 DEF ObserveCommittedFrontier, leaseVars, collectVars
<1>2. CASE \E w \in Windows : SetRetentionWindow(w)
  BY <1>2 DEF SetRetentionWindow, leaseVars, collectVars
<1>3. ASSUME NEW l \in LeaseIds, NEW v \in 1..MaxVersion, NEW d \in 1..MaxTick,
             NEW m \in Manifests, AcquireLease(l, v, d, m)
      PROVE  /\ UNCHANGED << physically_collected_through, lease_clock_tick >>
             /\ lease_epoch' = lease_epoch + 1 /\ root_intent_epoch' = root_intent_epoch + 1
  BY <1>3 DEF AcquireLease, advance_root_intent_epoch, collectVars
<1>4. ASSUME NEW l \in LeaseIds, NEW e \in 1..lease_epoch, NEW d \in 1..MaxTick,
             RenewLease(l, e, d)
      PROVE  /\ UNCHANGED << physically_collected_through, lease_clock_tick >>
             /\ lease_epoch' = lease_epoch + 1 /\ root_intent_epoch' = root_intent_epoch + 1
  BY <1>4 DEF RenewLease, advance_root_intent_epoch, collectVars
<1>5. ASSUME NEW l \in LeaseIds, NEW e \in 1..lease_epoch, ReleaseLease(l, e)
      PROVE  /\ UNCHANGED << physically_collected_through, lease_clock_tick >>
             /\ lease_epoch' = lease_epoch + 1 /\ root_intent_epoch' = root_intent_epoch + 1
  BY <1>5 DEF ReleaseLease, advance_root_intent_epoch, collectVars
<1>6. ASSUME NEW t \in 1..MaxTick, AdvanceLeaseClock(t)
      PROVE  /\ UNCHANGED physically_collected_through
             /\ lease_clock_tick' >= lease_clock_tick
             /\ lease_epoch' >= lease_epoch /\ root_intent_epoch' >= root_intent_epoch
  BY <1>6, PublicationConstants DEF AdvanceLeaseClock, clock_advances, advance_root_intent_epoch, collectVars
<1>. QED BY <1>1, <1>2, <1>3, <1>4, <1>5, <1>6 DEF LeaseNext

\* Frontiers, floors, clocks and epochs never move back.
LEMMA StepNeverRetreats ==
    ASSUME FloorInv, PublicationNext
    PROVE  /\ observed_commit_frontier' >= observed_commit_frontier
           /\ policy_floor' >= policy_floor
           /\ minimum_readable_version' >= minimum_readable_version
           /\ physically_collected_through' >= physically_collected_through
           /\ lease_clock_tick' >= lease_clock_tick
           /\ lease_epoch' >= lease_epoch
           /\ root_intent_epoch' >= root_intent_epoch
<1>1. /\ observed_commit_frontier \in Nat /\ policy_floor \in Nat
      /\ minimum_readable_version \in Nat /\ physically_collected_through \in Nat
      /\ lease_clock_tick \in Nat /\ lease_epoch \in Nat /\ root_intent_epoch \in Nat
  BY DEF FloorInv, PublicationTypeOK, FloorTypes, LeaseTypes, CollectTypes
<1>2. CASE LeaseNext
  <2>1. ASSUME NEW l \in LeaseIds, NEW e \in 1..lease_epoch, NEW d \in 1..MaxTick,
               RenewLease(l, e, d)
        PROVE  UNCHANGED floorVars
    BY <2>1 DEF RenewLease
  <2>2. UNCHANGED floorVars \/ (FloorInputs /\ recompute_read_floor)
    BY <1>2, <2>1, FloorCommandsTyped DEF LeaseNext, FloorInv
  <2>. QED BY <1>1, <1>2, <2>2, FloorNeverRetreats, LeaseClocksAdvance DEF floorVars
<1>3. CASE CollectionNext
  <2>1. UNCHANGED floorVars /\ UNCHANGED leaseVars
    BY <1>3 DEF CollectionNext, ObserveRangeMapEpoch, ConfigureCollectionRoot,
                PrepareCollection, PublishCollection, AbandonCollection
  <2>2. root_intent_epoch' = root_intent_epoch \/ root_intent_epoch' = root_intent_epoch + 1
    BY <1>3 DEF CollectionNext, ObserveRangeMapEpoch, ConfigureCollectionRoot,
                PrepareCollection, PublishCollection, AbandonCollection,
                advance_root_intent_epoch
  <2>3. ASSUME NEW token \in issued_jobs, NEW m \in Manifests, PublishCollection(token, m)
        PROVE  physically_collected_through' >= physically_collected_through
    <3>1. token \in Jobs /\ token.floor \in Nat
      BY DEF FloorInv, PublicationTypeOK, CollectTypes, Jobs
    <3>2. token.id \in Active(collection_jobs) /\ collection_jobs[token.id] = token
      BY <2>3, <3>1, PublicationConstants DEF PublishCollection, exact_job, Active, FloorInv, PublicationTypeOK, CollectTypes, Jobs
    <3>3. physically_collected_through < token.floor
      BY <3>2 DEF FloorInv, FrontierOrder
    <3>4. physically_collected_through' = token.floor
      BY <2>3, Zenon DEF PublishCollection
    <3>. QED BY <1>1, <3>1, <3>3, <3>4
  <2>4. physically_collected_through' >= physically_collected_through
    BY <1>1, <1>3, <2>3 DEF CollectionNext, ObserveRangeMapEpoch, ConfigureCollectionRoot,
                PrepareCollection, AbandonCollection
  <2>. QED BY <1>1, <2>1, <2>2, <2>4 DEF floorVars, leaseVars
<1>4. CASE RootNext \/ ActivateGeneration
  <2>1. UNCHANGED floorVars /\ UNCHANGED leaseVars /\ UNCHANGED collectVars
    BY <1>4, RootFrame
  <2>2. root_intent_epoch' = root_intent_epoch \/ root_intent_epoch' = root_intent_epoch + 1
    BY <1>4, Zenon DEF RootNext, Prepare, Publish, Pin, Unpin, ReserveDelete, RetireDelete,
                ActivateGeneration, advance_root_intent_epoch
  <2>. QED BY <1>1, <2>1, <2>2 DEF floorVars, leaseVars, collectVars
<1>. QED BY <1>2, <1>3, <1>4 DEF PublicationNext

\* No command, widened window or released lease moves a frontier, a floor, a
\* clock or an epoch back.
THEOREM NothingRetreats == PublicationSpec => NeverRetreats
<1>1. FloorInv /\ [PublicationNext]_publicationVars =>
        [/\ observed_commit_frontier' >= observed_commit_frontier
         /\ policy_floor' >= policy_floor
         /\ minimum_readable_version' >= minimum_readable_version
         /\ physically_collected_through' >= physically_collected_through
         /\ lease_clock_tick' >= lease_clock_tick
         /\ lease_epoch' >= lease_epoch
         /\ root_intent_epoch' >= root_intent_epoch]_publicationVars
  BY StepNeverRetreats
<1>. QED BY <1>1, FloorInvariant, PTL DEF PublicationSpec, NeverRetreats

\* What the publication of a collection does, read off the job it consumes.
LEMMA PublishCollectionExact ==
    ASSUME FloorInv, NEW token \in issued_jobs, NEW m \in Manifests, PublishCollection(token, m)
    PROVE  \E j \in Active(collection_jobs) :
              /\ collection_jobs[j].generation = generation
              /\ collection_jobs[j].range_epoch = range_map_epoch
              /\ physically_collected_through' = collection_jobs[j].floor
              /\ roots[collection_jobs[j].root] = collection_jobs[j].input
              /\ roots'[collection_jobs[j].root] # collection_jobs[j].input
              /\ collection_jobs'[j] = None
<1>1. token \in Jobs /\ token.id \in JobIds /\ token.root \in Roots
  BY DEF FloorInv, PublicationTypeOK, CollectTypes, Jobs
<1>2. token.id \in Active(collection_jobs) /\ collection_jobs[token.id] = token
  BY <1>1, PublicationConstants DEF PublishCollection, exact_job, Active, FloorInv, PublicationTypeOK, CollectTypes
<1>3. collection_jobs'[token.id] = None /\ roots'[token.root] = m /\ m # token.input
  BY <1>1 DEF PublishCollection, FloorInv, PublicationTypeOK, CollectTypes, RootTypes
<1>. QED BY <1>2, <1>3, Zenon DEF PublishCollection

\* A stale or foreign receipt never moves the collected frontier.
THEOREM CollectionIsExact == PublicationSpec => CollectionExact
<1>1. ASSUME FloorInv, PublicationNext,
             physically_collected_through' # physically_collected_through
      PROVE  \E token \in issued_jobs, m \in Manifests : PublishCollection(token, m)
  <2>1. ~LeaseNext
    BY <1>1, LeaseClocksAdvance
  <2>2. ~(RootNext \/ ActivateGeneration)
    BY <1>1, RootFrame DEF collectVars
  <2>. QED
    BY <1>1, <2>1, <2>2 DEF PublicationNext, CollectionNext, ObserveRangeMapEpoch,
         ConfigureCollectionRoot, PrepareCollection, AbandonCollection
<1>2. FloorInv /\ [PublicationNext]_publicationVars =>
        [physically_collected_through' # physically_collected_through =>
          \E j \in Active(collection_jobs) :
            /\ collection_jobs[j].generation = generation
            /\ collection_jobs[j].range_epoch = range_map_epoch
            /\ physically_collected_through' = collection_jobs[j].floor
            /\ roots[collection_jobs[j].root] = collection_jobs[j].input
            /\ roots'[collection_jobs[j].root] # collection_jobs[j].input
            /\ collection_jobs'[j] = None]_publicationVars
  BY <1>1, PublishCollectionExact
<1>. QED BY <1>2, FloorInvariant, PTL DEF PublicationSpec, CollectionExact

-----------------------------------------------------------------------------
(***************************************************************************)
(* Deletion reservations and publication intents.                          *)
(***************************************************************************)
\* ReservedUnnamed, key by key.
ReservedApart ==
    \A k \in Active(deletion_reservations), p \in Active(intents) :
        k \notin Closure[intents[p].manifest]

\* The two forms agree.
LEMMA ReservedForms == ReservedUnnamed <=> ReservedApart
BY DEF ReservedUnnamed, ReservedApart, Reserved, NamedByIntent

\* Preparing refuses reserved keys and reserving refuses prepared ones.
LEMMA ReservedStep ==
    ASSUME PublicationTypeOK, ReservedApart, [PublicationNext]_publicationVars
    PROVE  ReservedApart'
<1>1. CASE UNCHANGED << intents, deletion_reservations >>
  BY <1>1 DEF ReservedApart, Active
<1>2. ASSUME NEW p \in PubIds, NEW m \in Manifests, NEW r \in Roots,
             NEW o \in Manifests \cup {None}, Prepare(p, m, r, o)
      PROVE  ReservedApart'
  <2>1. /\ intents'[p].manifest = m
        /\ \A q \in PubIds \ {p} : intents'[q] = intents[q]
        /\ DOMAIN intents' = PubIds /\ DOMAIN intents = PubIds
    BY <1>2 DEF Prepare, PublicationTypeOK, RootTypes
  <2>2. /\ \A k \in Active(deletion_reservations) : k \notin Closure[m]
        /\ deletion_reservations' = deletion_reservations
    BY <1>2, Zenon DEF Prepare, unreserved, Reserved
  <2>. QED BY <2>1, <2>2 DEF ReservedApart, Active
<1>3. ASSUME NEW p \in PubIds, NEW m \in Manifests, NEW r \in Roots,
             NEW o \in Manifests \cup {None}, Publish(p, r, o, m)
      PROVE  ReservedApart'
  BY <1>3 DEF Publish, ReservedApart, Active, PublicationTypeOK, RootTypes
<1>4. ASSUME NEW g \in Plans, NEW e \in 0..MaxEpoch, NEW k \in Keys, ReserveDelete(g, e, k)
      PROVE  ReservedApart'
  <2>1. /\ \A i \in Keys \ {k} : deletion_reservations'[i] = deletion_reservations[i]
        /\ DOMAIN deletion_reservations' = Keys /\ DOMAIN deletion_reservations = Keys
        /\ intents' = intents
    BY <1>4 DEF ReserveDelete, PublicationTypeOK, RootTypes
  <2>2. \A p \in Active(intents) : k \notin Closure[intents[p].manifest]
    BY <1>4, Zenon DEF ReserveDelete, NamedByIntent
  <2>. QED BY <2>1, <2>2 DEF ReservedApart, Active
<1>5. ASSUME NEW permit \in issued_permits, RetireDelete(permit) PROVE ReservedApart'
  BY <1>5 DEF RetireDelete, ReservedApart, Active, PublicationTypeOK, RootTypes
<1>6. CASE LeaseNext
  <2>1. UNCHANGED rootVars
    BY <1>6, Zenon DEF LeaseNext, ObserveCommittedFrontier, SetRetentionWindow, AcquireLease,
         RenewLease, ReleaseLease, AdvanceLeaseClock
  <2>. QED BY <1>1, <2>1 DEF rootVars
<1>7. CASE CollectionNext
  <2>1. ASSUME NEW e, ObserveRangeMapEpoch(e)
        PROVE  UNCHANGED << intents, deletion_reservations >>
    BY <2>1, Zenon DEF ObserveRangeMapEpoch, rootVars
  <2>2. ASSUME NEW o, NEW r, ConfigureCollectionRoot(o, r)
        PROVE  UNCHANGED << intents, deletion_reservations >>
    BY <2>2, Zenon DEF ConfigureCollectionRoot, rootVars
  <2>3. ASSUME NEW j, NEW f, NEW m, NEW r, NEW e, NEW x, NEW n,
               PrepareCollection(j, f, m, r, e, x, n)
        PROVE  UNCHANGED << intents, deletion_reservations >>
    BY <2>3, Zenon DEF PrepareCollection, rootVars
  <2>4. ASSUME NEW token, NEW m, PublishCollection(token, m)
        PROVE  UNCHANGED << intents, deletion_reservations >>
    BY <2>4, Zenon DEF PublishCollection
  <2>5. ASSUME NEW token, AbandonCollection(token)
        PROVE  UNCHANGED << intents, deletion_reservations >>
    BY <2>5, Zenon DEF AbandonCollection, rootVars
  <2>. QED BY <1>1, <1>7, <2>1, <2>2, <2>3, <2>4, <2>5 DEF CollectionNext
<1>8. CASE ActivateGeneration \/ UNCHANGED publicationVars
  BY <1>1, <1>8 DEF ActivateGeneration, publicationVars, rootVars
<1>9. CASE RootNext
  BY <1>1, <1>2, <1>3, <1>4, <1>5, <1>9 DEF RootNext, Pin, Unpin
<1>. QED BY <1>6, <1>7, <1>8, <1>9 DEF PublicationNext

\* A key that a publication under way names is never reserved for deletion.
THEOREM ReservationsUnnamed == PublicationSpec => []ReservedUnnamed
<1>1. PublicationInit => ReservedApart
  BY DEF PublicationInit, ReservedApart, Active
<1>2. PublicationTypeOK /\ ReservedApart /\ [PublicationNext]_publicationVars => ReservedApart'
  BY ReservedStep
<1>3. PublicationSpec => []ReservedApart
  BY <1>1, <1>2, PublicationTypes, PTL DEF PublicationSpec
<1>. QED BY <1>3, ReservedForms, PTL

=============================================================================
