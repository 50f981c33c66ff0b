---------------------- MODULE ObjectPublicationProofs -----------------------
(***************************************************************************)
(* Theorems about publishers and a sweeper over one object store, for      *)
(* every set of keys, manifests, roots and jobs, any number of crashes and *)
(* every bound.                                                            *)
(*                                                                         *)
(* That roots stay readable needs the whole protocol: what a process       *)
(* uploaded is kept from deletion by its intent, a root is kept by the     *)
(* mark's epoch, which every change of a root or an intent advances, and   *)
(* the sweeper deletes only under a reservation that still stands.         *)
(***************************************************************************)
EXTENDS ObjectPublication, TLAPS

\* Every step of a publisher and of the sweeper.
PublisherSteps == {"prepare", "put", "verify", "publish", "done", "failed"}
PermitSteps    == {"check", "delete", "retire", "failed"}
SweeperSteps   == {"idle", "walk", "sweep"} \cup PermitSteps
Outcomes       == {"accepted", "rejected", None}

\* The types that the argument uses.
ObjectTypes ==
    /\ generation \in Nat /\ position \in Nat /\ root_intent_epoch \in Nat
    /\ RootTypes /\ objects \subseteq Keys
    /\ publisher \in [PubIds -> [step : PublisherSteps, left : SUBSET Keys]]
    /\ prepare_outcome \in [PubIds -> Outcomes]
    /\ publish_outcome \in [PubIds -> Outcomes]
    /\ sweeper \in [step : SweeperSteps, epoch : Nat, manifests : SUBSET Manifests,
                    reachable : SUBSET Keys, permit : Permits \cup {None}]

\* While a job's intent is active, what its process uploaded stays in the store.
UploadsKept ==
    \A p \in Active(intents) :
       LET wanted == Closure[Job[p].manifest] IN
       /\ intents[p].manifest = Job[p].manifest
       /\ publisher[p].step = "put" => wanted \ publisher[p].left \subseteq objects
       /\ publisher[p].step \in {"verify", "publish"} => wanted \subseteq objects

\* A mark of the current epoch covers every root.
MarkCoversRoots ==
    /\ sweeper.epoch <= root_intent_epoch
    /\ sweeper.epoch = root_intent_epoch =>
          \A r \in Active(roots) :
             /\ sweeper.step = "walk" => roots[r] \in sweeper.manifests
             /\ sweeper.step \in {"sweep"} \cup PermitSteps =>
                   Closure[roots[r]] \subseteq sweeper.reachable

\* The sweeper deletes only under a reservation that still stands.
PermitStands ==
    /\ sweeper.permit # None <=> sweeper.step \in PermitSteps
    /\ sweeper.permit # None => deletion_reservations[sweeper.permit.key] = sweeper.permit

\* A key that a root reaches is not reserved.
ReservedUnrooted ==
    \A r \in Active(roots) : Closure[roots[r]] \cap Reserved = {}

\* The inductive invariant of the object store and its processes.
ObjectInv ==
    /\ ObjectTypes /\ UploadsKept /\ MarkCoversRoots /\ PermitStands
    /\ ReservedUnnamed /\ ReservedUnrooted /\ RootsReadable

-----------------------------------------------------------------------------
(***************************************************************************)
(* Steps that leave the roots, intents and reservations alone.             *)
(***************************************************************************)
\* What the tables of the authority say is named and reserved.
LEMMA NamedUnchanged ==
  ASSUME UNCHANGED << intents, roots, deletion_reservations >>
  PROVE  /\ Active(intents)' = Active(intents) /\ Active(roots)' = Active(roots)
         /\ NamedByIntent' = NamedByIntent /\ Reserved' = Reserved
         /\ ReservedUnnamed => ReservedUnnamed'
         /\ ReservedUnrooted => ReservedUnrooted'
  BY DEF Active, NamedByIntent, Reserved, ReservedUnnamed, ReservedUnrooted

\* Commands about leases, pins and generations, and the reader's snapshot.
LEMMA AuthorityMoves ==
  ASSUME ObjectInv, UNCHANGED << intents, roots, deletion_reservations, issued_permits >>,
         pins' \in [PinIds -> Manifests \cup {None}],
         generation' \in Nat, position' \in Nat, root_intent_epoch' \in Nat,
         root_intent_epoch <= root_intent_epoch',
         UNCHANGED << objects, publisher, prepare_outcome, publish_outcome, sweeper >>
  PROVE  ObjectInv'
  <1>1. /\ Active(intents)' = Active(intents) /\ Active(roots)' = Active(roots)
        /\ ReservedUnnamed' /\ ReservedUnrooted'
    BY NamedUnchanged DEF ObjectInv
  <1>2. ObjectTypes'
    BY DEF ObjectInv, ObjectTypes, RootTypes
  <1>3. UploadsKept'
    BY <1>1 DEF ObjectInv, UploadsKept
  <1>4. MarkCoversRoots'
    <2>1. /\ sweeper.epoch \in Nat /\ root_intent_epoch \in Nat
          /\ sweeper.epoch <= root_intent_epoch
      BY DEF ObjectInv, ObjectTypes, MarkCoversRoots
    <2>2. /\ sweeper.epoch <= root_intent_epoch'
          /\ sweeper.epoch = root_intent_epoch' => sweeper.epoch = root_intent_epoch
      BY <2>1
    <2> QED
      BY <1>1, <2>2 DEF ObjectInv, MarkCoversRoots
  <1>5. PermitStands'
    BY DEF ObjectInv, PermitStands
  <1>6. RootsReadable'
    BY <1>1 DEF ObjectInv, RootsReadable, Readable
  <1> QED
    BY <1>1, <1>2, <1>3, <1>4, <1>5, <1>6 DEF ObjectInv

\* Steps of a publisher process that leave the authority alone.
LEMMA PublisherMoves ==
  ASSUME ObjectInv, UNCHANGED << publicationVars, sweeper >>, objects \subseteq objects',
         objects' \subseteq Keys,
         publisher' \in [PubIds -> [step : PublisherSteps, left : SUBSET Keys]],
         prepare_outcome' \in [PubIds -> Outcomes], publish_outcome' \in [PubIds -> Outcomes],
         UploadsKept'
  PROVE  ObjectInv'
  <1>1. UNCHANGED << generation, position, root_intent_epoch, intents, roots, pins,
                     deletion_reservations, issued_permits >>
    BY DEF publicationVars, rootVars
  <1>2. /\ Active(intents)' = Active(intents) /\ Active(roots)' = Active(roots)
        /\ ReservedUnnamed' /\ ReservedUnrooted'
    BY <1>1, NamedUnchanged DEF ObjectInv
  <1>3. ObjectTypes'
    BY <1>1 DEF ObjectInv, ObjectTypes, RootTypes
  <1>4. MarkCoversRoots' /\ PermitStands'
    BY <1>1, <1>2 DEF ObjectInv, MarkCoversRoots, PermitStands
  <1>5. RootsReadable'
    BY <1>1, <1>2 DEF ObjectInv, RootsReadable, Readable
  <1> QED
    BY <1>2, <1>3, <1>4, <1>5 DEF ObjectInv

\* Steps of the sweeper process that leave the authority and the store alone.
LEMMA SweeperMoves ==
  ASSUME ObjectInv, UNCHANGED << publicationVars, objects, publisherVars >>,
         sweeper' \in [step : SweeperSteps, epoch : Nat, manifests : SUBSET Manifests,
                       reachable : SUBSET Keys, permit : Permits \cup {None}],
         MarkCoversRoots', PermitStands'
  PROVE  ObjectInv'
  <1>1. UNCHANGED << generation, position, root_intent_epoch, intents, roots, pins,
                     deletion_reservations, issued_permits, publisher, prepare_outcome,
                     publish_outcome >>
    BY DEF publicationVars, rootVars, publisherVars
  <1>2. /\ Active(intents)' = Active(intents) /\ Active(roots)' = Active(roots)
        /\ ReservedUnnamed' /\ ReservedUnrooted'
    BY <1>1, NamedUnchanged DEF ObjectInv
  <1>3. ObjectTypes'
    BY <1>1 DEF ObjectInv, ObjectTypes, RootTypes
  <1>4. UploadsKept' /\ RootsReadable'
    BY <1>1, <1>2 DEF ObjectInv, UploadsKept, RootsReadable, Readable
  <1> QED
    BY <1>2, <1>3, <1>4 DEF ObjectInv

-----------------------------------------------------------------------------
(***************************************************************************)
(* The publisher process.                                                  *)
(***************************************************************************)
\* A process goes to a step with some keys left.
LEMMA GotoTyped ==
  ASSUME ObjectInv, NEW p \in PubIds, NEW step \in PublisherSteps, NEW left \in SUBSET Keys,
         Goto(p, step, left)
  PROVE  /\ publisher' \in [PubIds -> [step : PublisherSteps, left : SUBSET Keys]]
         /\ publisher'[p].step = step /\ publisher'[p].left = left
         /\ \A q \in PubIds \ {p} : publisher'[q] = publisher[q]
  BY DEF ObjectInv, ObjectTypes, Goto

\* The closure of a job's manifest is a set of keys.
LEMMA WantedTyped ==
  ASSUME NEW p \in PubIds
  PROVE  /\ Job[p].manifest \in Manifests /\ Job[p].root \in Roots
         /\ Job[p].prior \in Manifests \cup {None}
         /\ Closure[Job[p].manifest] \in SUBSET Keys
  BY JobsWellFormed, PublicationConstants

\* One process moves while the intents stand and no object is deleted: what is
\* said of the other processes' uploads still holds.
LEMMA OneProcess ==
  ASSUME ObjectInv, NEW p \in PubIds, UNCHANGED intents, objects \subseteq objects',
         \A q \in PubIds \ {p} : publisher'[q] = publisher[q],
         LET wanted == Closure[Job[p].manifest] IN
           p \in Active(intents) =>
             /\ publisher'[p].step = "put" => wanted \ publisher'[p].left \subseteq objects'
             /\ publisher'[p].step \in {"verify", "publish"} => wanted \subseteq objects'
  PROVE  UploadsKept'
  <1>1. Active(intents)' = Active(intents) /\ Active(intents) \subseteq PubIds
    BY DEF Active, ObjectInv, ObjectTypes, RootTypes
  <1> QED
    BY <1>1 DEF ObjectInv, UploadsKept

LEMMA PutStep ==
  ASSUME ObjectInv, NEW p \in PubIds, PublisherPut(p)
  PROVE  ObjectInv'
  <1> DEFINE wanted == Closure[Job[p].manifest]
             rest   == publisher[p].left
  <1>1. PICK k \in rest :
           /\ objects' = objects \cup {k}
           /\ IF rest = {k} THEN Goto(p, "verify", wanted) ELSE Goto(p, "put", rest \ {k})
    BY DEF PublisherPut, put_if_absent
  <1>2. /\ publisher[p].step = "put"
        /\ UNCHANGED << publicationVars, sweeper >> /\ UNCHANGED intents
        /\ UNCHANGED << prepare_outcome, publish_outcome >>
    BY DEF PublisherPut, publicationVars, rootVars
  <1>3. rest \in SUBSET Keys /\ objects \subseteq Keys
    BY DEF ObjectInv, ObjectTypes
  <1>4. p \in Active(intents) => wanted \ rest \subseteq objects
    BY <1>2 DEF ObjectInv, UploadsKept
  <1>5. wanted \in SUBSET Keys
    BY WantedTyped
  <1>6. /\ publisher' \in [PubIds -> [step : PublisherSteps, left : SUBSET Keys]]
        /\ \A q \in PubIds \ {p} : publisher'[q] = publisher[q]
        /\ \/ rest = {k} /\ publisher'[p].step = "verify"
           \/ publisher'[p].step = "put" /\ publisher'[p].left = rest \ {k}
    <2> HIDE DEF wanted, rest
    <2>1. CASE rest = {k}
      BY <1>1, <1>5, <2>1, GotoTyped DEF PublisherSteps
    <2>2. CASE rest # {k}
      <3>1. Goto(p, "put", rest \ {k}) /\ rest \ {k} \in SUBSET Keys
        BY <1>1, <1>3, <2>2
      <3> QED
        BY <3>1, GotoTyped DEF PublisherSteps
    <2> QED
      BY <2>1, <2>2
  <1>7. UploadsKept'
    BY <1>1, <1>2, <1>4, <1>6, OneProcess
  <1>8. /\ objects' \subseteq Keys /\ prepare_outcome' \in [PubIds -> Outcomes]
        /\ publish_outcome' \in [PubIds -> Outcomes]
    BY <1>1, <1>2, <1>3 DEF ObjectInv, ObjectTypes
  <1> QED
    BY <1>1, <1>2, <1>6, <1>7, <1>8, PublisherMoves

\* Steps of a process that only read the store or start over.
LEMMA LocalStep ==
  ASSUME ObjectInv, NEW p \in PubIds,
         PublisherVerify(p) \/ PublisherRestart(p) \/ PublisherRetry(p)
  PROVE  ObjectInv'
  <1> DEFINE wanted == Closure[Job[p].manifest]
  <1>1. UNCHANGED << publicationVars, sweeper, objects, intents, prepare_outcome, publish_outcome >>
    BY DEF PublisherVerify, PublisherRestart, PublisherRetry, publicationVars, rootVars, storeVars
  <1>2. \/ Goto(p, "failed", {}) \/ Goto(p, "prepare", {})
        \/ publisher[p].step = "verify" /\ \/ Goto(p, "publish", {})
                                           \/ \E k \in Keys : Goto(p, "verify", publisher[p].left \ {k})
    <2>1. CASE PublisherVerify(p)
      <3>1. publisher[p].left \in SUBSET Keys
        BY DEF ObjectInv, ObjectTypes
      <3> QED
        BY <2>1, <3>1 DEF PublisherVerify, verify_closure
    <2>2. CASE PublisherRestart(p) \/ PublisherRetry(p)
      BY <2>2 DEF PublisherRestart, PublisherRetry
    <2> QED
      BY <2>1, <2>2
  <1>3. p \in Active(intents) /\ publisher[p].step = "verify" => wanted \subseteq objects
    BY DEF ObjectInv, UploadsKept
  <1>4. /\ publisher' \in [PubIds -> [step : PublisherSteps, left : SUBSET Keys]]
        /\ \A q \in PubIds \ {p} : publisher'[q] = publisher[q]
        /\ \/ publisher'[p].step \in {"failed", "prepare"}
           \/ publisher[p].step = "verify" /\ publisher'[p].step \in {"verify", "publish"}
    <2>1. CASE Goto(p, "failed", {})
      BY <2>1, GotoTyped DEF PublisherSteps
    <2>2. CASE Goto(p, "prepare", {})
      BY <2>2, GotoTyped DEF PublisherSteps
    <2>3. CASE publisher[p].step = "verify" /\ Goto(p, "publish", {})
      BY <2>3, GotoTyped DEF PublisherSteps
    <2>4. CASE /\ publisher[p].step = "verify"
               /\ \E k \in Keys : Goto(p, "verify", publisher[p].left \ {k})
      <3>1. PICK k \in Keys : Goto(p, "verify", publisher[p].left \ {k})
        BY <2>4
      <3>2. publisher[p].left \ {k} \in SUBSET Keys
        BY DEF ObjectInv, ObjectTypes
      <3> QED
        BY <2>4, <3>1, <3>2, GotoTyped DEF PublisherSteps
    <2> QED
      BY <1>2, <2>1, <2>2, <2>3, <2>4
  <1>5. UploadsKept'
    BY <1>1, <1>3, <1>4, OneProcess
  <1>6. /\ objects' \subseteq Keys /\ prepare_outcome' \in [PubIds -> Outcomes]
        /\ publish_outcome' \in [PubIds -> Outcomes]
    BY <1>1 DEF ObjectInv, ObjectTypes
  <1> QED
    BY <1>1, <1>4, <1>5, <1>6, PublisherMoves

\* The authority answers a Prepare from its retained outcomes or refuses it.
LEMMA PrepareAnswered ==
  ASSUME ObjectInv, NEW p \in PubIds, PublisherPrepare(p),
         prepare_outcome[p] # None \/ ~prepare_accepted(p)
  PROVE  ObjectInv'
  <1> DEFINE wanted == Closure[Job[p].manifest]
  <1>1. /\ UNCHANGED << publicationVars, sweeper, objects, intents, publish_outcome >>
        /\ \/ UNCHANGED prepare_outcome
           \/ prepare_outcome' = [prepare_outcome EXCEPT ![p] = "rejected"]
    BY DEF PublisherPrepare, submit_prepare, publicationVars, rootVars, storeVars
  <1>2. Goto(p, "put", wanted) \/ Goto(p, "failed", {})
    BY DEF PublisherPrepare
  <1>3. wanted \in SUBSET Keys
    BY WantedTyped
  <1>4. /\ publisher' \in [PubIds -> [step : PublisherSteps, left : SUBSET Keys]]
        /\ \A q \in PubIds \ {p} : publisher'[q] = publisher[q]
        /\ \/ publisher'[p].step = "failed"
           \/ publisher'[p].step = "put" /\ publisher'[p].left = wanted
    <2> HIDE DEF wanted
    <2> QED
      BY <1>2, <1>3, GotoTyped DEF PublisherSteps
  <1>5. UploadsKept'
    BY <1>1, <1>4, OneProcess
  <1>6. /\ objects' \subseteq Keys /\ prepare_outcome' \in [PubIds -> Outcomes]
        /\ publish_outcome' \in [PubIds -> Outcomes]
    BY <1>1 DEF ObjectInv, ObjectTypes, Outcomes
  <1> QED
    BY <1>1, <1>4, <1>5, <1>6, PublisherMoves

\* An accepted Prepare names keys that no reservation holds, before any upload.
LEMMA PrepareAccepted ==
  ASSUME ObjectInv, NEW p \in PubIds, PublisherPrepare(p),
         prepare_outcome[p] = None, prepare_accepted(p)
  PROVE  ObjectInv'
  <1> DEFINE wanted == Closure[Job[p].manifest]
             intent == [manifest |-> Job[p].manifest, root |-> Job[p].root,
                        prior |-> Job[p].prior, generation |-> generation]
  <1>1. /\ unreserved(Job[p].manifest)
        /\ intents' = [intents EXCEPT ![p] = intent]
        /\ root_intent_epoch' = root_intent_epoch + 1
        /\ UNCHANGED << generation, position, roots, pins, deletion_reservations,
                        issued_permits, objects, publish_outcome, sweeper >>
        /\ prepare_outcome' = [prepare_outcome EXCEPT ![p] = "accepted"]
    BY DEF PublisherPrepare, submit_prepare, Prepare, advance_root_intent_epoch, storeVars
  <1>2. Goto(p, "put", wanted) \/ Goto(p, "failed", {})
    BY DEF PublisherPrepare
  <1>3. wanted \in SUBSET Keys
    BY WantedTyped
  <1>4. /\ publisher' \in [PubIds -> [step : PublisherSteps, left : SUBSET Keys]]
        /\ \A q \in PubIds \ {p} : publisher'[q] = publisher[q]
        /\ \/ publisher'[p].step = "failed"
           \/ publisher'[p].step = "put" /\ publisher'[p].left = wanted
    <2> HIDE DEF wanted
    <2> QED
      BY <1>2, <1>3, GotoTyped DEF PublisherSteps
  <1>5. /\ intent \in Intents /\ intent # None
        /\ intents \in [PubIds -> Intents \cup {None}]
    BY WantedTyped, PublicationConstants DEF Intents, ObjectInv, ObjectTypes, RootTypes
  <1>6. /\ Active(intents)' = Active(intents) \cup {p}
        /\ intents'[p].manifest = Job[p].manifest
        /\ \A q \in PubIds \ {p} : intents'[q] = intents[q]
        /\ Active(intents) \subseteq PubIds
    BY <1>1, <1>5 DEF Active
  <1>7. ObjectTypes'
    <2>1. intents' \in [PubIds -> Intents \cup {None}]
      BY <1>1, <1>5
    <2>2. RootTypes'
      BY <1>1, <2>1 DEF ObjectInv, ObjectTypes, RootTypes
    <2>3. prepare_outcome' \in [PubIds -> Outcomes]
      BY <1>1 DEF ObjectInv, ObjectTypes, Outcomes
    <2>4. root_intent_epoch' \in Nat
      BY <1>1 DEF ObjectInv, ObjectTypes
    <2> QED
      BY <1>1, <1>4, <2>2, <2>3, <2>4 DEF ObjectInv, ObjectTypes
  <1>8. UploadsKept'
    BY <1>1, <1>4, <1>6 DEF ObjectInv, UploadsKept
  <1>9. MarkCoversRoots'
    BY <1>1 DEF ObjectInv, ObjectTypes, MarkCoversRoots
  <1>10. Reserved' = Reserved /\ Active(roots)' = Active(roots)
    BY <1>1 DEF Reserved, Active
  <1>11. ReservedUnnamed'
    <2>1. wanted \cap Reserved = {}
      BY <1>1 DEF unreserved
    <2>2. NamedByIntent' \subseteq NamedByIntent \cup wanted
      <3>1. ASSUME NEW k \in NamedByIntent'
            PROVE  k \in NamedByIntent \cup wanted
        <4>1. PICK q \in Active(intents)' : k \in Closure[intents'[q].manifest]
          BY <3>1 DEF NamedByIntent
        <4> QED
          BY <1>6, <4>1 DEF NamedByIntent
      <3> QED
        BY <3>1
    <2> QED
      BY <1>10, <2>1, <2>2 DEF ObjectInv, ReservedUnnamed
  <1>12. PermitStands' /\ ReservedUnrooted' /\ RootsReadable'
    BY <1>1, <1>10 DEF ObjectInv, PermitStands, ReservedUnrooted, RootsReadable, Readable
  <1> QED
    BY <1>7, <1>8, <1>9, <1>11, <1>12 DEF ObjectInv

\* An accepted Publish moves the root to a manifest whose closure is uploaded.
LEMMA PublishAccepted ==
  ASSUME ObjectInv, NEW p \in PubIds, publisher[p].step = "publish",
         Publish(p, Job[p].root, Job[p].prior, Job[p].manifest),
         publish_outcome' = [publish_outcome EXCEPT ![p] = "accepted"],
         UNCHANGED << objects, prepare_outcome, sweeper >>,
         publisher' \in [PubIds -> [step : PublisherSteps, left : SUBSET Keys]],
         \A q \in PubIds \ {p} : publisher'[q] = publisher[q]
  PROVE  ObjectInv'
  <1> DEFINE wanted == Closure[Job[p].manifest]
  <1>1. /\ intents[p] = [manifest |-> Job[p].manifest, root |-> Job[p].root,
                         prior |-> Job[p].prior, generation |-> generation]
        /\ roots' = [roots EXCEPT ![Job[p].root] = Job[p].manifest]
        /\ intents' = [intents EXCEPT ![p] = None]
        /\ root_intent_epoch' = root_intent_epoch + 1
        /\ UNCHANGED << generation, position, pins, deletion_reservations, issued_permits >>
    BY DEF Publish, advance_root_intent_epoch
  <1>2. /\ Job[p].root \in Roots /\ Job[p].manifest \in Manifests /\ Job[p].manifest # None
        /\ Job[p].prior \in Manifests \cup {None}
    BY WantedTyped, PublicationConstants
  <1>3. /\ intents \in [PubIds -> Intents \cup {None}] /\ roots \in [Roots -> Manifests \cup {None}]
        /\ generation \in Nat
    BY DEF ObjectInv, ObjectTypes, RootTypes
  <1>4. p \in Active(intents)
    <2>1. intents[p] \in Intents
      BY <1>1, <1>2, <1>3 DEF Intents
    <2> QED
      BY <1>3, <2>1, PublicationConstants DEF Active
  <1>5. /\ Active(intents)' = Active(intents) \ {p} /\ Active(intents) \subseteq PubIds
        /\ \A q \in Active(intents)' : intents'[q] = intents[q] /\ publisher'[q] = publisher[q]
    BY <1>1, <1>3 DEF Active
  <1>6. /\ Active(roots)' = Active(roots) \cup {Job[p].root}
        /\ \A r \in Active(roots)' : \/ roots'[r] = Job[p].manifest
                                     \/ r \in Active(roots) /\ roots'[r] = roots[r]
    BY <1>1, <1>2, <1>3 DEF Active
  <1>7. Reserved' = Reserved
    BY <1>1 DEF Reserved, Active
  <1>8. wanted \subseteq objects
    BY <1>4 DEF ObjectInv, UploadsKept
  <1>9. wanted \cap Reserved = {}
    <2>1. wanted \subseteq NamedByIntent
      BY <1>1, <1>4 DEF NamedByIntent
    <2> QED
      BY <2>1 DEF ObjectInv, ReservedUnnamed
  <1>10. ObjectTypes'
    <2>1. /\ intents' \in [PubIds -> Intents \cup {None}]
          /\ roots' \in [Roots -> Manifests \cup {None}]
      BY <1>1, <1>2, <1>3
    <2>2. RootTypes'
      BY <1>1, <2>1 DEF ObjectInv, ObjectTypes, RootTypes
    <2>3. publish_outcome' \in [PubIds -> Outcomes]
      BY DEF ObjectInv, ObjectTypes, Outcomes
    <2>4. root_intent_epoch' \in Nat
      BY <1>1 DEF ObjectInv, ObjectTypes
    <2> QED
      BY <1>1, <2>2, <2>3, <2>4 DEF ObjectInv, ObjectTypes
  <1>11. UploadsKept'
    BY <1>5 DEF ObjectInv, UploadsKept
  <1>12. MarkCoversRoots'
    BY <1>1 DEF ObjectInv, ObjectTypes, MarkCoversRoots
  <1>13. ReservedUnnamed'
    <2>1. NamedByIntent' \subseteq NamedByIntent
      BY <1>5 DEF NamedByIntent
    <2> QED
      BY <1>7, <2>1 DEF ObjectInv, ReservedUnnamed
  <1>14. ReservedUnrooted' /\ RootsReadable'
    BY <1>6, <1>7, <1>8, <1>9 DEF ObjectInv, ReservedUnrooted, RootsReadable, Readable
  <1>15. PermitStands'
    BY <1>1 DEF ObjectInv, PermitStands
  <1> QED
    BY <1>10, <1>11, <1>12, <1>13, <1>14, <1>15 DEF ObjectInv

\* A publisher sends its Publish and sees the reply, or dies before it does.
LEMMA PublishStep ==
  ASSUME ObjectInv, NEW p \in PubIds, PublisherPublish(p) \/ PublishReplyLost(p)
  PROVE  ObjectInv'
  <1>1. /\ publisher[p].step = "publish" /\ submit_publish(p)
        /\ UNCHANGED << objects, prepare_outcome, sweeper >>
        /\ UNCHANGED publisher \/ Goto(p, "done", {}) \/ Goto(p, "failed", {})
    BY DEF PublisherPublish, PublishReplyLost, storeVars
  <1>2. /\ publisher' \in [PubIds -> [step : PublisherSteps, left : SUBSET Keys]]
        /\ \A q \in PubIds \ {p} : publisher'[q] = publisher[q]
        /\ publisher'[p] = publisher[p] \/ publisher'[p].step \in {"done", "failed"}
    <2>1. CASE UNCHANGED publisher
      BY <2>1 DEF ObjectInv, ObjectTypes
    <2>2. CASE Goto(p, "done", {})
      BY <2>2, GotoTyped DEF PublisherSteps
    <2>3. CASE Goto(p, "failed", {})
      BY <2>3, GotoTyped DEF PublisherSteps
    <2> QED
      BY <1>1, <2>1, <2>2, <2>3
  <1>3. CASE publish_outcome[p] # None \/ ~publish_accepted(p)
    <2>1. /\ UNCHANGED << publicationVars, intents >>
          /\ \/ UNCHANGED publish_outcome
             \/ publish_outcome' = [publish_outcome EXCEPT ![p] = "rejected"]
      BY <1>1, <1>3 DEF submit_publish, publicationVars, rootVars
    <2>2. p \in Active(intents) => Closure[Job[p].manifest] \subseteq objects
      BY <1>1 DEF ObjectInv, UploadsKept
    <2>3. UploadsKept'
      BY <1>1, <1>2, <2>1, <2>2, OneProcess
    <2>4. /\ objects' \subseteq Keys /\ prepare_outcome' \in [PubIds -> Outcomes]
          /\ publish_outcome' \in [PubIds -> Outcomes]
      BY <1>1, <2>1 DEF ObjectInv, ObjectTypes, Outcomes
    <2> QED
      BY <1>1, <1>2, <2>1, <2>3, <2>4, PublisherMoves
  <1>4. CASE publish_outcome[p] = None /\ publish_accepted(p)
    <2>1. /\ Publish(p, Job[p].root, Job[p].prior, Job[p].manifest)
          /\ publish_outcome' = [publish_outcome EXCEPT ![p] = "accepted"]
      BY <1>1, <1>4 DEF submit_publish
    <2> QED
      BY <1>1, <1>2, <2>1, PublishAccepted
  <1> QED
    BY <1>3, <1>4

-----------------------------------------------------------------------------
(***************************************************************************)
(* The sweeper process.                                                    *)
(***************************************************************************)
\* The mark and the walk take no permit and cover every root they saw.
LEMMA MarkStep ==
  ASSUME ObjectInv, SweepMark \/ SweepWalk
  PROVE  ObjectInv'
  <1>1. /\ UNCHANGED << publicationVars, objects, publisherVars >>
        /\ UNCHANGED << roots, pins, intents, root_intent_epoch, deletion_reservations >>
    BY DEF SweepMark, SweepWalk, sweeperOnly, storeVars, publicationVars, rootVars
  <1>2. Active(roots)' = Active(roots)
    BY <1>1 DEF Active
  <1>3. /\ RootManifests \in SUBSET Manifests /\ NamedByIntent \in SUBSET Keys
        /\ root_intent_epoch \in Nat
    BY PublicationConstants
       DEF RootManifests, NamedByIntent, Active, Intents, ObjectInv, ObjectTypes, RootTypes
  <1>4. sweeper.permit = None
    BY DEF SweepMark, SweepWalk, ObjectInv, PermitStands, PermitSteps
  <1>5. CASE sweeper' = Idle
    BY <1>1, <1>3, <1>5, SweeperMoves
       DEF Idle, SweeperSteps, PermitSteps, MarkCoversRoots, PermitStands
  <1>6. CASE SweepMark
    <2>1. sweeper' = [Idle EXCEPT !.step = "walk", !.epoch = root_intent_epoch,
                                  !.manifests = RootManifests, !.reachable = NamedByIntent]
      BY <1>6 DEF SweepMark
    <2>2. /\ sweeper' \in [step : SweeperSteps, epoch : Nat, manifests : SUBSET Manifests,
                           reachable : SUBSET Keys, permit : Permits \cup {None}]
          /\ sweeper'.step = "walk" /\ sweeper'.epoch = root_intent_epoch
          /\ sweeper'.manifests = RootManifests /\ sweeper'.permit = None
      BY <1>3, <2>1 DEF Idle, SweeperSteps
    <2>3. \A r \in Active(roots) : roots[r] \in RootManifests
      BY DEF RootManifests
    <2>4. MarkCoversRoots' /\ PermitStands'
      BY <1>1, <1>2, <1>3, <2>2, <2>3 DEF MarkCoversRoots, PermitStands, PermitSteps
    <2> QED
      BY <1>1, <2>2, <2>4, SweeperMoves
  <1>7. CASE SweepWalk /\ sweeper' # Idle
    <2> DEFINE walked == UNION {Closure[m] : m \in sweeper.manifests}
    <2>1. /\ sweeper.step = "walk"
          /\ sweeper' = [sweeper EXCEPT !.step = "sweep", !.manifests = {},
                                        !.reachable = @ \cup walked]
      BY <1>7 DEF SweepWalk
    <2>2. walked \in SUBSET Keys
      BY PublicationConstants DEF ObjectInv, ObjectTypes
    <2>3. \A m \in sweeper.manifests : Closure[m] \subseteq walked
      OBVIOUS
    <2> HIDE DEF walked
    <2>4. /\ sweeper' \in [step : SweeperSteps, epoch : Nat, manifests : SUBSET Manifests,
                           reachable : SUBSET Keys, permit : Permits \cup {None}]
          /\ sweeper'.step = "sweep" /\ sweeper'.epoch = sweeper.epoch
          /\ walked \subseteq sweeper'.reachable /\ sweeper'.permit = None
      BY <1>4, <2>1, <2>2 DEF ObjectInv, ObjectTypes, SweeperSteps
    <2>5. MarkCoversRoots' /\ PermitStands'
      BY <1>1, <1>2, <2>1, <2>3, <2>4
         DEF ObjectInv, MarkCoversRoots, PermitStands, PermitSteps
    <2> QED
      BY <1>1, <2>4, <2>5, SweeperMoves
  <1> QED
    BY <1>5, <1>6, <1>7

\* The sweeper goes on under the permit it holds, or gives up without one.
LEMMA PermitStep ==
  ASSUME ObjectInv, UNCHANGED << publicationVars, objects, publisherVars >>,
         \/ sweeper' = Idle
         \/ /\ sweeper.permit # None
            /\ \E step \in PermitSteps : sweeper' = [sweeper EXCEPT !.step = step]
  PROVE  ObjectInv'
  <1>1. UNCHANGED << roots, root_intent_epoch, deletion_reservations >>
    BY DEF publicationVars, rootVars
  <1>2. Active(roots)' = Active(roots) /\ root_intent_epoch \in Nat
    BY <1>1 DEF Active, ObjectInv, ObjectTypes
  <1>3. CASE sweeper' = Idle
    BY <1>1, <1>2, <1>3, SweeperMoves
       DEF Idle, SweeperSteps, PermitSteps, MarkCoversRoots, PermitStands
  <1>4. CASE /\ sweeper.permit # None
             /\ \E step \in PermitSteps : sweeper' = [sweeper EXCEPT !.step = step]
    <2>1. PICK step \in PermitSteps : sweeper' = [sweeper EXCEPT !.step = step]
      BY <1>4
    <2>2. sweeper.step \in PermitSteps
      BY <1>4 DEF ObjectInv, PermitStands
    <2>3. /\ sweeper' \in [step : SweeperSteps, epoch : Nat, manifests : SUBSET Manifests,
                           reachable : SUBSET Keys, permit : Permits \cup {None}]
          /\ sweeper'.step = step /\ sweeper'.epoch = sweeper.epoch
          /\ sweeper'.reachable = sweeper.reachable /\ sweeper'.permit = sweeper.permit
      BY <2>1 DEF ObjectInv, ObjectTypes, SweeperSteps
    <2>4. MarkCoversRoots'
      BY <1>1, <1>2, <2>2, <2>3 DEF ObjectInv, MarkCoversRoots, PermitSteps
    <2>5. PermitStands'
      BY <1>1, <2>2, <2>3 DEF ObjectInv, PermitStands
    <2> QED
      BY <2>3, <2>4, <2>5, SweeperMoves
  <1> QED
    BY <1>3, <1>4

\* A reservation taken under the mark of the current epoch is of a key that no
\* root reaches.
LEMMA ReserveAccepted ==
  ASSUME ObjectInv, NEW k \in objects \ sweeper.reachable, NEW plan \in Plans,
         sweeper.step = "sweep", ReserveDelete(plan, sweeper.epoch, k),
         sweeper' = [sweeper EXCEPT !.step = "check", !.permit = deletion_reservations'[k]],
         UNCHANGED << objects, publisherVars >>
  PROVE  ObjectInv'
  <1> DEFINE permit == [key |-> k, plan |-> plan, generation |-> generation,
                        position |-> position']
  <1>1. /\ sweeper.epoch = root_intent_epoch /\ k \notin NamedByIntent
        /\ deletion_reservations' = [deletion_reservations EXCEPT ![k] = permit]
        /\ issued_permits' = issued_permits \cup {deletion_reservations'[k]}
        /\ position' = position + 1
        /\ UNCHANGED << generation, root_intent_epoch, intents, roots, pins, publisher,
                        prepare_outcome, publish_outcome >>
    BY DEF ReserveDelete, current_mark, issue_position, publisherVars
  <1>2. /\ k \in Keys /\ position' \in Nat /\ permit \in Permits /\ permit # None
        /\ permit.key = k
        /\ deletion_reservations \in [Keys -> Permits \cup {None}]
    BY <1>1, PublicationConstants DEF ObjectInv, ObjectTypes, RootTypes, Permits
  <1> HIDE DEF permit
  <1>3. /\ deletion_reservations' \in [Keys -> Permits \cup {None}]
        /\ deletion_reservations'[k] = permit /\ issued_permits' \subseteq Permits
        /\ Reserved' = Reserved \cup {k}
    <2>1. Reserved' = Reserved \cup {k}
      BY <1>1, <1>2 DEF Reserved, Active
    <2> QED
      BY <1>1, <1>2, <2>1 DEF ObjectInv, ObjectTypes, RootTypes
  <1>4. /\ sweeper' \in [step : SweeperSteps, epoch : Nat, manifests : SUBSET Manifests,
                         reachable : SUBSET Keys, permit : Permits \cup {None}]
        /\ sweeper'.step = "check" /\ sweeper'.epoch = sweeper.epoch
        /\ sweeper'.reachable = sweeper.reachable /\ sweeper'.permit = permit
    BY <1>2, <1>3 DEF ObjectInv, ObjectTypes, SweeperSteps, PermitSteps
  <1>5. /\ Active(intents)' = Active(intents) /\ Active(roots)' = Active(roots)
        /\ NamedByIntent' = NamedByIntent
    BY <1>1 DEF Active, NamedByIntent
  <1>6. \A r \in Active(roots) : k \notin Closure[roots[r]]
    BY <1>1 DEF ObjectInv, MarkCoversRoots
  <1>7. ObjectTypes'
    <2>1. RootTypes'
      BY <1>1, <1>3 DEF ObjectInv, ObjectTypes, RootTypes
    <2> QED
      BY <1>1, <1>2, <1>4, <2>1 DEF ObjectInv, ObjectTypes
  <1>8. UploadsKept' /\ RootsReadable'
    BY <1>1, <1>5 DEF ObjectInv, UploadsKept, RootsReadable, Readable
  <1>9. MarkCoversRoots' /\ PermitStands'
    BY <1>1, <1>2, <1>3, <1>4, <1>5
       DEF ObjectInv, MarkCoversRoots, PermitStands, PermitSteps
  <1>10. ReservedUnnamed' /\ ReservedUnrooted'
    BY <1>1, <1>3, <1>5, <1>6 DEF ObjectInv, ReservedUnnamed, ReservedUnrooted
  <1> QED
    BY <1>7, <1>8, <1>9, <1>10 DEF ObjectInv

\* The key of the permit that the sweeper holds is reserved.
LEMMA PermitReserved ==
  ASSUME ObjectInv, sweeper.permit # None
  PROVE  /\ sweeper.permit \in Permits /\ sweeper.permit.key \in Keys
         /\ sweeper.permit.key \in Reserved
  BY DEF ObjectInv, ObjectTypes, RootTypes, PermitStands, Permits, Reserved, Active

\* The delete removes an object that neither a root nor an intent names.
LEMMA DeleteStep ==
  ASSUME ObjectInv, SweepDelete
  PROVE  ObjectInv'
  <1> DEFINE k == sweeper.permit.key
  <1>1. /\ sweeper.step = "delete" /\ objects' = objects \ {k} /\ sweeper' = [sweeper EXCEPT !.step = "retire"]
        /\ UNCHANGED << generation, position, root_intent_epoch, intents, roots, pins,
                        deletion_reservations, issued_permits, publisher, prepare_outcome,
                        publish_outcome >>
    BY DEF SweepDelete, publicationVars, rootVars, publisherVars
  <1>2. k \in Reserved /\ sweeper.permit # None
    BY <1>1, PermitReserved DEF ObjectInv, PermitStands, PermitSteps
  <1>3. /\ Active(intents)' = Active(intents) /\ Active(roots)' = Active(roots)
        /\ ReservedUnnamed' /\ ReservedUnrooted'
    BY <1>1, NamedUnchanged DEF ObjectInv
  <1>4. /\ \A p \in Active(intents) : k \notin Closure[intents[p].manifest]
        /\ \A r \in Active(roots) : k \notin Closure[roots[r]]
    BY <1>2 DEF ObjectInv, ReservedUnnamed, ReservedUnrooted, NamedByIntent
  <1>5. UploadsKept' /\ RootsReadable'
    BY <1>1, <1>3, <1>4 DEF ObjectInv, UploadsKept, RootsReadable, Readable
  <1>6. ObjectTypes'
    <2>1. RootTypes'
      BY <1>1 DEF ObjectInv, ObjectTypes, RootTypes
    <2>2. sweeper' \in [step : SweeperSteps, epoch : Nat, manifests : SUBSET Manifests,
                       reachable : SUBSET Keys, permit : Permits \cup {None}]
      BY <1>1 DEF ObjectInv, ObjectTypes, SweeperSteps, PermitSteps
    <2> QED
      BY <1>1, <2>1, <2>2 DEF ObjectInv, ObjectTypes
  <1>7. /\ sweeper'.step = "retire" /\ sweeper'.epoch = sweeper.epoch
        /\ sweeper'.reachable = sweeper.reachable /\ sweeper'.permit = sweeper.permit
    BY <1>1 DEF ObjectInv, ObjectTypes
  <1>8. MarkCoversRoots' /\ PermitStands'
    BY <1>1, <1>2, <1>3, <1>7 DEF ObjectInv, MarkCoversRoots, PermitStands, PermitSteps
  <1> QED
    BY <1>3, <1>5, <1>6, <1>8 DEF ObjectInv

\* The reservation is given back after the delete, in the permit's generation.
LEMMA RetireAccepted ==
  ASSUME ObjectInv, sweeper.step = "retire", RetireDelete(sweeper.permit),
         sweeper' = [sweeper EXCEPT !.step = "sweep", !.permit = None],
         UNCHANGED << objects, publisherVars >>
  PROVE  ObjectInv'
  <1> DEFINE k == sweeper.permit.key
  <1>1. /\ deletion_reservations' = [deletion_reservations EXCEPT ![k] = None]
        /\ UNCHANGED << generation, position, root_intent_epoch, intents, roots, pins,
                        issued_permits, publisher, prepare_outcome, publish_outcome >>
    BY DEF RetireDelete, publisherVars
  <1>2. k \in Keys
    BY PermitReserved DEF ObjectInv, PermitStands, PermitSteps
  <1>3. Reserved' \subseteq Reserved
    BY <1>1, <1>2 DEF Reserved, Active, ObjectInv, ObjectTypes, RootTypes
  <1>4. /\ Active(intents)' = Active(intents) /\ Active(roots)' = Active(roots)
        /\ NamedByIntent' = NamedByIntent
    BY <1>1 DEF Active, NamedByIntent
  <1>5. /\ sweeper' \in [step : SweeperSteps, epoch : Nat, manifests : SUBSET Manifests,
                         reachable : SUBSET Keys, permit : Permits \cup {None}]
        /\ sweeper'.step = "sweep" /\ sweeper'.epoch = sweeper.epoch
        /\ sweeper'.reachable = sweeper.reachable /\ sweeper'.permit = None
    BY DEF ObjectInv, ObjectTypes, SweeperSteps
  <1>6. ObjectTypes'
    <2>1. deletion_reservations' \in [Keys -> Permits \cup {None}]
      BY <1>1, <1>2 DEF ObjectInv, ObjectTypes, RootTypes
    <2>2. RootTypes'
      BY <1>1, <2>1 DEF ObjectInv, ObjectTypes, RootTypes
    <2> QED
      BY <1>1, <1>5, <2>2 DEF ObjectInv, ObjectTypes
  <1>7. UploadsKept' /\ RootsReadable'
    BY <1>1, <1>4 DEF ObjectInv, UploadsKept, RootsReadable, Readable
  <1>8. MarkCoversRoots' /\ PermitStands'
    BY <1>1, <1>4, <1>5 DEF ObjectInv, MarkCoversRoots, PermitStands, PermitSteps
  <1>9. ReservedUnnamed' /\ ReservedUnrooted'
    BY <1>1, <1>3, <1>4 DEF ObjectInv, ReservedUnnamed, ReservedUnrooted
  <1> QED
    BY <1>6, <1>7, <1>8, <1>9 DEF ObjectInv

LEMMA SweeperStep ==
  ASSUME ObjectInv, SweepStep \/ SweeperRestart
  PROVE  ObjectInv'
  <1>1. CASE SweepReserve
    <2>1. PICK k \in objects \ sweeper.reachable, plan \in Plans :
             \/ /\ ReserveDelete(plan, sweeper.epoch, k)
                /\ sweeper' = [sweeper EXCEPT !.step = "check",
                                              !.permit = deletion_reservations'[k]]
             \/ sweeper' = Idle /\ UNCHANGED publicationVars
      BY <1>1 DEF SweepReserve
    <2>2. sweeper.step = "sweep" /\ UNCHANGED << objects, publisherVars >>
      BY <1>1 DEF SweepReserve, sweeperOnly, storeVars
    <2> QED
      BY <2>1, <2>2, ReserveAccepted, PermitStep
  <1>2. CASE SweepCheck
    <2>1. /\ UNCHANGED << publicationVars, objects, publisherVars >>
          /\ \E step \in PermitSteps : sweeper' = [sweeper EXCEPT !.step = step]
      BY <1>2 DEF SweepCheck, sweeperOnly, storeVars, PermitSteps
    <2>2. sweeper.permit # None
      BY <1>2 DEF SweepCheck, ObjectInv, PermitStands, PermitSteps
    <2> QED
      BY <2>1, <2>2, PermitStep
  <1>3. CASE SweepRetire
    <2>1. /\ sweeper.step = "retire" /\ UNCHANGED << objects, publisherVars >>
          /\ \/ /\ RetireDelete(sweeper.permit)
                /\ sweeper' = [sweeper EXCEPT !.step = "sweep", !.permit = None]
             \/ UNCHANGED publicationVars /\ sweeper' = [sweeper EXCEPT !.step = "failed"]
      BY <1>3 DEF SweepRetire, sweeperOnly, storeVars
    <2>2. sweeper.permit # None
      BY <2>1 DEF ObjectInv, PermitStands, PermitSteps
    <2> QED
      BY <2>1, <2>2, RetireAccepted, PermitStep DEF PermitSteps
  <1>4. CASE SweeperRestart
    <2>1. /\ UNCHANGED << publicationVars, objects, publisherVars >>
          /\ sweeper.permit = None => sweeper' = Idle
          /\ sweeper.permit # None => sweeper' = [sweeper EXCEPT !.step = "check"]
      BY <1>4 DEF SweeperRestart
    <2> QED
      BY <2>1, PermitStep DEF PermitSteps
  <1> QED
    BY <1>1, <1>2, <1>3, <1>4, MarkStep, DeleteStep DEF SweepStep

-----------------------------------------------------------------------------
(***************************************************************************)
(* Every step, and the theorems.                                           *)
(***************************************************************************)
LEMMA ObjectInitInv == ObjectInit => ObjectInv
  <1> SUFFICES ASSUME ObjectInit PROVE ObjectInv
    OBVIOUS
  <1>0. /\ generation = 1 /\ position = 0 /\ root_intent_epoch = 0
        /\ intents = [p \in PubIds |-> None] /\ roots = [r \in Roots |-> None]
        /\ pins = [p \in PinIds |-> None] /\ deletion_reservations = [k \in Keys |-> None]
        /\ issued_permits = {} /\ objects = {} /\ sweeper = Idle
        /\ publisher = [p \in PubIds |-> [step |-> "prepare", left |-> {}]]
        /\ prepare_outcome = [p \in PubIds |-> None]
        /\ publish_outcome = [p \in PubIds |-> None]
    BY DEF ObjectInit, OpenedAuthority
  <1>1. Active(intents) = {} /\ Active(roots) = {} /\ Reserved = {}
    BY <1>0 DEF Active, Reserved
  <1>2. ObjectTypes
    <2>1. RootTypes
      BY <1>0 DEF RootTypes
    <2>2. publisher \in [PubIds -> [step : PublisherSteps, left : SUBSET Keys]]
      BY <1>0 DEF PublisherSteps
    <2>3. sweeper \in [step : SweeperSteps, epoch : Nat, manifests : SUBSET Manifests,
                      reachable : SUBSET Keys, permit : Permits \cup {None}]
      BY <1>0 DEF Idle, SweeperSteps
    <2> QED
      BY <1>0, <2>1, <2>2, <2>3 DEF ObjectTypes, Outcomes
  <1>3. UploadsKept /\ ReservedUnnamed /\ ReservedUnrooted /\ RootsReadable
    BY <1>1 DEF UploadsKept, ReservedUnnamed, ReservedUnrooted, RootsReadable
  <1>4. /\ sweeper.step = "idle" /\ sweeper.epoch = 0 /\ sweeper.permit = None
        /\ root_intent_epoch = 0
    BY <1>0 DEF Idle
  <1>5. MarkCoversRoots
    BY <1>1, <1>4 DEF MarkCoversRoots
  <1>6. PermitStands
    BY <1>4 DEF PermitStands, PermitSteps
  <1> QED
    BY <1>2, <1>3, <1>5, <1>6 DEF ObjectInv

\* The reader's and the operators' commands move no root and no intent.
LEMMA CommandStep ==
  ASSUME ObjectInv, ReaderSnapshot \/ ReaderAcquire \/ OperatorCommand
                    \/ UNCHANGED objectVars
  PROVE  ObjectInv' /\ UNCHANGED << roots, publish_outcome >>
  <1>1. UNCHANGED << objects, publisher, prepare_outcome, publish_outcome, sweeper >>
    BY DEF ReaderSnapshot, ReaderAcquire, OperatorCommand, AllButAuthority, objectVars,
           storeVars, publisherVars
  <1>2. /\ generation \in Nat /\ position \in Nat /\ root_intent_epoch \in Nat
        /\ pins \in [PinIds -> Manifests \cup {None}]
        /\ RootManifests \subseteq Manifests
    BY DEF ObjectInv, ObjectTypes, RootTypes, RootManifests, Active
  <1> DEFINE Kept == UNCHANGED << intents, roots, deletion_reservations, issued_permits >>
             Moved == /\ pins' \in [PinIds -> Manifests \cup {None}]
                      /\ generation' \in Nat /\ position' \in Nat
                      /\ root_intent_epoch' \in Nat
                      /\ root_intent_epoch <= root_intent_epoch'
  <1>3. CASE ReaderSnapshot \/ UNCHANGED objectVars
    <2>1. UNCHANGED publicationVars
      BY <1>3 DEF ReaderSnapshot, objectVars
    <2>2. Kept /\ Moved
      BY <1>2, <2>1 DEF publicationVars, rootVars
    <2> QED
      BY <1>1, <2>2, AuthorityMoves
  <1>4. CASE ReaderAcquire
    <2>1. /\ UNCHANGED << generation, rootVars >> /\ position' = position + 1
          /\ root_intent_epoch' = root_intent_epoch + 1
      BY <1>4 DEF ReaderAcquire, AcquireLease, issue_position, advance_root_intent_epoch
    <2>2. Kept /\ Moved
      BY <1>2, <2>1 DEF rootVars
    <2> QED
      BY <1>1, <2>2, AuthorityMoves
  <1>5. CASE OperatorCommand
    <2>1. Kept /\ Moved
      <3>1. CASE \E l \in LeaseIds, e \in 1..lease_epoch : ReleaseLease(l, e)
        BY <1>2, <3>1 DEF ReleaseLease, advance_root_intent_epoch, rootVars
      <3>2. CASE \/ \E p \in PinIds, m \in RootManifests : pins[p] = None /\ Pin(p, None, m)
                 \/ \E p \in PinIds, m \in Manifests : Unpin(p, m)
        BY <1>2, <3>2 DEF Pin, Unpin, advance_root_intent_epoch
      <3>3. CASE ActivateGeneration
        BY <1>2, <3>3 DEF ActivateGeneration, rootVars
      <3> QED
        BY <1>5, <3>1, <3>2, <3>3 DEF OperatorCommand
    <2> QED
      BY <1>1, <2>1, AuthorityMoves
  <1> QED
    BY <1>3, <1>4, <1>5

LEMMA ObjectStep == ObjectInv /\ [ObjectNext]_objectVars => ObjectInv'
  <1> SUFFICES ASSUME ObjectInv, [ObjectNext]_objectVars PROVE ObjectInv'
    OBVIOUS
  <1>1. ASSUME NEW p \in PubIds,
               PublisherStep(p) \/ PublishReplyLost(p) \/ PublisherRestart(p) \/ PublisherRetry(p)
        PROVE  ObjectInv'
    BY <1>1, PrepareAnswered, PrepareAccepted, PutStep, LocalStep, PublishStep
       DEF PublisherStep
  <1> QED
    BY <1>1, SweeperStep, CommandStep DEF ObjectNext

\* The state of the object store, its two kinds of process and the authority is
\* always one that ObjectInv describes.
THEOREM ObjectInvariance == ObjectSpec => []ObjectInv
  BY ObjectInitInv, ObjectStep, PTL DEF ObjectSpec

\* However uploads, sweeps, crashes and changes of generation interleave, every
\* root names a manifest whose whole closure can be read, for any closures, jobs
\* and number of crashes, when a delete request dies with its sender.
THEOREM RootsStayReadable == ObjectSpec => []RootsReadable
  <1>1. ObjectInv => RootsReadable
    BY DEF ObjectInv
  <1> QED
    BY <1>1, ObjectInvariance, PTL

\* No key that a publication under way still needs is reserved for deletion.
THEOREM ReservationsSpareUploads == ObjectSpec => []ReservedUnnamed
  <1>1. ObjectInv => ReservedUnnamed
    BY DEF ObjectInv
  <1> QED
    BY <1>1, ObjectInvariance, PTL

-----------------------------------------------------------------------------
\* Two jobs for one root publish different manifests.
JobsDistinct ==
    \A p, q \in PubIds :
       p # q /\ Job[p].root = Job[q].root => Job[p].manifest # Job[q].manifest

\* A step changes a root together with the outcome of the job that published it.
LEMMA RootOutcomeStep ==
  ASSUME ObjectInv, [ObjectNext]_objectVars
  PROVE  \/ UNCHANGED << roots, publish_outcome >>
         \/ \E p \in PubIds :
               \/ /\ publish_outcome[p] = None /\ UNCHANGED roots
                  /\ publish_outcome' = [publish_outcome EXCEPT ![p] = "rejected"]
               \/ /\ roots' = [roots EXCEPT ![Job[p].root] = Job[p].manifest]
                  /\ publish_outcome' = [publish_outcome EXCEPT ![p] = "accepted"]
  <1>1. ASSUME NEW p \in PubIds, PublisherPublish(p) \/ PublishReplyLost(p)
        PROVE  \/ UNCHANGED << roots, publish_outcome >>
               \/ /\ publish_outcome[p] = None /\ UNCHANGED roots
                  /\ publish_outcome' = [publish_outcome EXCEPT ![p] = "rejected"]
               \/ /\ roots' = [roots EXCEPT ![Job[p].root] = Job[p].manifest]
                  /\ publish_outcome' = [publish_outcome EXCEPT ![p] = "accepted"]
    <2>1. submit_publish(p)
      BY <1>1 DEF PublisherPublish, PublishReplyLost
    <2> QED
      BY <2>1 DEF submit_publish, Publish, publicationVars, rootVars
  <1>2. ASSUME NEW p \in PubIds, PublisherPrepare(p)
        PROVE  UNCHANGED << roots, publish_outcome >>
    BY <1>2 DEF PublisherPrepare, submit_prepare, Prepare, publicationVars, rootVars
  <1>3. ASSUME NEW p \in PubIds, PublisherPut(p) \/ PublisherVerify(p)
                                 \/ PublisherRestart(p) \/ PublisherRetry(p)
        PROVE  UNCHANGED << roots, publish_outcome >>
    BY <1>3 DEF PublisherPut, PublisherVerify, PublisherRestart, PublisherRetry,
                publicationVars, rootVars
  <1>4. ASSUME SweepStep \/ SweeperRestart
        PROVE  UNCHANGED << roots, publish_outcome >>
    BY <1>4 DEF SweepStep, SweepMark, SweepWalk, SweepReserve, SweepCheck, SweepDelete,
                SweepRetire, SweeperRestart, ReserveDelete, RetireDelete, sweeperOnly,
                publisherVars, publicationVars, rootVars
  <1> QED
    BY <1>1, <1>2, <1>3, <1>4, CommandStep DEF ObjectNext, PublisherStep

\* When no two jobs publish the same manifest to one root, a job whose manifest
\* is the root has its accepted outcome on record, so a retry after a lost reply
\* learns that it published.
THEOREM PublishersLearn == ASSUME JobsDistinct PROVE ObjectSpec => []PublishedKnown
  <1>1. ObjectInit => PublishedKnown
    <2> SUFFICES ASSUME ObjectInit, NEW p \in PubIds
                 PROVE  roots[Job[p].root] # Job[p].manifest
      BY DEF PublishedKnown
    <2>1. roots = [r \in Roots |-> None]
      BY DEF ObjectInit, OpenedAuthority
    <2> QED
      BY <2>1, WantedTyped, PublicationConstants
  <1>2. ObjectInv /\ PublishedKnown /\ [ObjectNext]_objectVars => PublishedKnown'
    <2> SUFFICES ASSUME ObjectInv, PublishedKnown, [ObjectNext]_objectVars,
                        NEW q \in PubIds, roots'[Job[q].root] = Job[q].manifest
                 PROVE  publish_outcome'[q] = "accepted"
      BY DEF PublishedKnown
    <2>1. roots[Job[q].root] = Job[q].manifest => publish_outcome[q] = "accepted"
      BY DEF PublishedKnown
    <2>2. /\ roots \in [Roots -> Manifests \cup {None}]
          /\ publish_outcome \in [PubIds -> Outcomes] /\ Job[q].root \in Roots
          /\ None # "accepted"
      BY WantedTyped, JobsWellFormed DEF ObjectInv, ObjectTypes, RootTypes
    <2> QED
      BY <2>1, <2>2, RootOutcomeStep, WantedTyped DEF JobsDistinct
  <1> QED
    BY <1>1, <1>2, ObjectInvariance, PTL DEF ObjectSpec
=============================================================================
