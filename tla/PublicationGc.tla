----------------------------- MODULE PublicationGc -----------------------------
(* The reference model of publication and reachability collection of            *)
(* okv-model/src/publication_gc.rs: roots, intents and an epoch, objects with   *)
(* children, marks over roots and intents, and the scripted contract under each *)
(* unsafe mode.  In the free part publishers that share blocks and a collector  *)
(* interleave over the same operations.  Byte counts are left out.              *)
EXTENDS Integers, Sequences, FiniteSets, FiniteSetsExt

CONSTANTS
  Publications,   \* publications of the free part
  MaxEpoch,       \* bound on the authority's epoch
  NULL

VARIABLES part, mode,
  authority,    \* [roots, intents, epoch]
  store,        \* stored objects
  progress,     \* publication -> "idle" | "put" | "verified"
  plan,         \* the collector's mark; NULL
  step, failed  \* script: checks executed, checks failed

vars == <<part, mode, authority, store, progress, plan, step, failed>>

Modes == {"Correct", "PublishPointerBeforeBlocks", "OmitPublicationIntent", "TrustAccountingCounter",
          "TrustListForLiveness", "ContinueIncompleteMark", "DeleteWithoutRevalidation"}

\* Children of a manifest: frozen in the script; in the free part every
\* publication shares one block.
Children(o) ==
  CASE o = "manifest-1" -> {"block-a", "block-b"}
    [] o = "manifest-2" -> {"block-c"}
    [] o = "snapshot-manifest" -> {"orphan-o"}
    [] o \in Publications -> {"shared"}
    [] OTHER -> {}

\* Two levels: a manifest and its blocks.
closure(o) == {o} \cup Children(o)
collect_closure(objects, o) == closure(o) \subseteq objects

EmptyAuthority == [roots |-> <<>>, intents |-> <<>>, epoch |-> 0]
With(f, k, v) == [x \in DOMAIN f \cup {k} |-> IF x = k THEN v ELSE f[x]]
Without(f, k) == [x \in DOMAIN f \ {k} |-> f[x]]

prepare(a, p, objects) == [a EXCEPT !.intents = With(@, p, objects), !.epoch = @ + 1]
publish(a, p, root, manifest) ==
  [a EXCEPT !.roots = With(@, root, manifest), !.intents = Without(@, p), !.epoch = @ + 1]

\* A walk that fails stops where it fails; what it reached stays reached.
Reached(objects, o) == IF o \in objects THEN closure(o) ELSE {o}

\* Mutated form: intents are not marked.
mark_roots_only(a, objects, skip) ==
  LET walked == {a.roots[r] : r \in DOMAIN a.roots \ skip}
  IN [epoch |-> a.epoch, reachable |-> UNION {Reached(objects, o) : o \in walked},
      complete |-> DOMAIN a.roots \cap skip = {} /\ \A o \in walked : collect_closure(objects, o)]

mark(a, objects, skip) ==
  LET walked   == {a.roots[r] : r \in DOMAIN a.roots \ skip}
      intended == UNION {a.intents[p] : p \in DOMAIN a.intents}
  IN [epoch |-> a.epoch,
      reachable |-> UNION {Reached(objects, o) : o \in walked \cup intended},
      complete |-> DOMAIN a.roots \cap skip = {} /\ \A o \in walked : collect_closure(objects, o)]
candidates(objects, m) == objects \ m.reachable

root_is_readable(a, objects, r) == r \in DOMAIN a.roots /\ collect_closure(objects, a.roots[r])
all_roots_are_readable(a, objects) == \A r \in DOMAIN a.roots : root_is_readable(a, objects, r)

(***************************************************************************)
(* Scenario: each step yields [a, o, passed].                              *)
(***************************************************************************)
Outcome(a, o, passed) == [a |-> a, o |-> o, passed |-> passed]

primary_publication(a, o) ==
  LET intended  == prepare(a, "p1", {"block-a", "block-b", "manifest-1"})
      published == publish(intended, "p1", "orders", "manifest-1")
      stored    == o \cup {"block-a", "block-b", "manifest-1"}
      seen      == IF mode = "PublishPointerBeforeBlocks" THEN o ELSE stored
  IN Outcome(published, stored, root_is_readable(published, seen, "orders"))

inflight_publication_race(a, o) ==
  LET omit      == mode = "OmitPublicationIntent"
      intended  == IF omit THEN a ELSE prepare(a, "p2", {"block-c", "manifest-2"})
      stored    == o \cup {"block-c", "manifest-2", "orphan-o", "orphan-z"}
      left      == IF omit THEN stored \ candidates(stored, mark(intended, stored, {})) ELSE stored
      published == publish(intended, "p2", "inventory", "manifest-2")
  IN Outcome(published, left, root_is_readable(published, left, "inventory"))

counter_drift(a, o) ==
  LET left == IF mode = "TrustAccountingCounter" THEN o \ {"block-a"} ELSE o
  IN Outcome(a, left, root_is_readable(a, left, "orders"))

stale_listing(a, o) ==
  LET left == IF mode = "TrustListForLiveness" THEN o \ {"block-b"} ELSE o
  IN Outcome(a, left, root_is_readable(a, left, "orders"))

incomplete_walk(a, o) ==
  LET m    == mark(a, o, {"orders"})
      left == IF mode = "ContinueIncompleteMark" THEN o \ candidates(o, m) ELSE o
  IN Outcome(a, left, ~m.complete /\ all_roots_are_readable(a, left))

delete_revalidation(a, o) ==
  LET restored  == o \cup {"orphan-o", "orphan-z"}
      m         == mark(a, restored, {})
      published == publish(prepare(a, "snapshot-p", {"orphan-o", "snapshot-manifest"}),
                           "snapshot-p", "snapshot", "snapshot-manifest")
      stored    == restored \cup {"snapshot-manifest"}
      left      == IF mode = "DeleteWithoutRevalidation" THEN stored \ candidates(restored, m) ELSE stored
  IN Outcome(published, left, root_is_readable(published, left, "snapshot"))

final_complete_collection(a, o) ==
  LET m    == mark(a, o, {})
      gone == IF m.complete THEN candidates(o, m) ELSE {}
  IN Outcome(a, o \ gone, all_roots_are_readable(a, o \ gone) /\ gone # {})

scripted(k, a, o) ==
  CASE k = 1 -> primary_publication(a, o) [] k = 2 -> inflight_publication_race(a, o)
    [] k = 3 -> counter_drift(a, o) [] k = 4 -> stale_listing(a, o) [] k = 5 -> incomplete_walk(a, o)
    [] k = 6 -> delete_revalidation(a, o) [] k = 7 -> final_complete_collection(a, o)

RunScript ==
  /\ part = "script" /\ step < 7
  /\ step' = step + 1
  /\ LET r == scripted(step', authority, store)
     IN /\ authority' = r.a /\ store' = r.o
        /\ failed' = IF r.passed THEN failed ELSE failed \cup {step'}
  /\ UNCHANGED <<part, mode, progress, plan>>

(***************************************************************************)
(* Free part.                                                              *)
(***************************************************************************)
Free == part = "free" /\ UNCHANGED <<part, mode, step, failed>>

Prepare(p) ==
  /\ Free /\ progress[p] = "idle" /\ authority.epoch < MaxEpoch
  /\ authority' = prepare(authority, p, closure(p))
  /\ progress' = [progress EXCEPT ![p] = "put"]
  /\ UNCHANGED <<store, plan>>

Put(p, o) ==
  /\ Free /\ progress[p] = "put" /\ o \in closure(p) /\ (o = p => Children(p) \subseteq store)
  /\ store' = store \cup {o}
  /\ UNCHANGED <<authority, progress, plan>>

\* Every object is verified by name before the root names it.
VerifyNamed(p) ==
  /\ Free /\ progress[p] = "put" /\ closure(p) \subseteq store
  /\ progress' = [progress EXCEPT ![p] = "verified"]
  /\ UNCHANGED <<authority, store, plan>>

Publish(p) ==
  /\ Free /\ progress[p] = "verified"
  /\ authority' = publish(authority, p, "range", p)
  /\ progress' = [progress EXCEPT ![p] = "idle"]
  /\ UNCHANGED <<store, plan>>

Mark ==
  /\ Free /\ plan = NULL
  /\ plan' = mark(authority, store, {})
  /\ UNCHANGED <<authority, store, progress>>

\* The plan is revalidated against the epoch, then its candidates are deleted.
Collect ==
  /\ Free /\ plan # NULL
  /\ plan' = NULL
  /\ store' = IF plan.complete /\ plan.epoch = authority.epoch THEN store \ candidates(store, plan) ELSE store
  /\ UNCHANGED <<authority, progress>>

GcInit ==
  /\ part \in {"free", "script"} /\ mode \in IF part = "free" THEN {"Correct"} ELSE Modes
  /\ authority = EmptyAuthority /\ store = {} /\ plan = NULL
  /\ progress = [p \in Publications |-> "idle"] /\ step = 0 /\ failed = {}

GcNext ==
  \/ RunScript \/ Mark \/ Collect
  \/ \E p \in Publications : Prepare(p) \/ VerifyNamed(p) \/ Publish(p) \/ \E o \in closure(p) : Put(p, o)

GcSpec == GcInit /\ [][GcNext]_vars

-----------------------------------------------------------------------------
\* Every root stays readable while publishers that reuse each other's blocks
\* and a collector interleave ("inflight_publication_is_rooted",
\* "delete_plan_is_revalidated").
RootsReadable == part = "free" => all_roots_are_readable(authority, store)

\* The script fails a check exactly under a control
\* (every_negative_control_has_a_bounded_failure).
GcDetects == part = "script" /\ step = 7 => ((failed = {}) <=> (mode = "Correct"))
=============================================================================
