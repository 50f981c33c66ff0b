-------------------------- MODULE PublicationAdapter --------------------------
(* The publication adapter of okv-object/src/publication_adapter.rs: its        *)
(* authority (intents, roots, pins, delete reservations, outcomes by request)   *)
(* persisted as whole states in a log, mark and sweep over an object store, and *)
(* the two contract drivers over them.  `part` selects the sixteen-check        *)
(* script, the root-graph script, or publishers, pinners and a sweeper that     *)
(* interleave freely over the same operations.                                  *)
(* An object is <<kind, name>>; bytes and digests are abstracted to presence.   *)
EXTENDS Integers, Sequences, FiniteSets, FiniteSetsExt

CONSTANTS
  Names,     \* publications of the free part
  MaxPins,   \* pins taken in the free part
  MaxMarks,  \* marks of its sweeper
  NULL

VARIABLES
  part, mode,
  s,          \* [ram, disk, objects]: authority in memory and on disk, object store
  failed,     \* numbers of the failed checks
  step,       \* checks executed
  publisher,  \* name -> [pc, left]
  sweeper,    \* [pc, epoch, reachable, left, key]
  pinned, marks

vars == <<part, mode, s, failed, step, publisher, sweeper, pinned, marks>>

Data(n) == <<"data", n>>
Manifest(n) == <<"manifest", n>>
RootTypes == {"checkpoint", "clone", "backup", "analytical-lease", "tenant-move"}

Children(m) ==
  CASE m[2] = "primary" -> {Data("left"), Data("right")}
    [] m[2] \in RootTypes \cup Names -> {Data("shared"), Data(m[2])}
    [] OTHER -> {Data(m[2])}
Closure(m) == Children(m) \cup {m}

(***************************************************************************)
(* LocalDurableAuthority.                                                  *)
(***************************************************************************)
EmptyAuthority ==
  [revision |-> 0, epoch |-> 0, outcomes |-> <<>>, intents |-> <<>>, roots |-> <<>>,
   pins |-> <<>>, reservations |-> <<>>]

With(f, k, x) == [y \in DOMAIN f \cup {k} |-> IF y = k THEN x ELSE f[y]]
Without(f, k) == [y \in DOMAIN f \ {k} |-> f[y]]
Values(f) == {f[x] : x \in DOMAIN f}

Prepare(p, m) == [op |-> "Prepare", id |-> p, manifest |-> m]
Publish(p, r, m) == [op |-> "Publish", id |-> p, root |-> r, manifest |-> m]
Pin(p, m) == [op |-> "Pin", id |-> p, manifest |-> m]
Unpin(p) == [op |-> "Unpin", id |-> p]
ReserveDelete(plan, epoch, key) == [op |-> "ReserveDelete", id |-> plan, epoch |-> epoch, key |-> key]
RetireDelete(plan, key) == [op |-> "RetireDelete", id |-> plan, key |-> key]

Intended(a) == UNION {Closure(m) : m \in Values(a.intents)}

\* Pin and Unpin are never refused.
conflicts(a, c) ==
  CASE c.op = "Prepare" -> c.id \in DOMAIN a.intents \/ Closure(c.manifest) \cap DOMAIN a.reservations # {}
    [] c.op = "Publish" -> c.id \notin DOMAIN a.intents \/ a.intents[c.id] # c.manifest
    [] c.op = "ReserveDelete" ->
         c.epoch # a.epoch \/ c.key \in Intended(a) \/ c.key \in DOMAIN a.reservations
    [] c.op = "RetireDelete" -> c.key \notin DOMAIN a.reservations \/ a.reservations[c.key] # c.id
    [] OTHER -> FALSE

apply_authority_command(a, c) ==
  CASE c.op = "Prepare" -> [a EXCEPT !.intents = With(@, c.id, c.manifest), !.epoch = @ + 1]
    [] c.op = "Publish" -> [a EXCEPT !.roots = With(@, c.root, c.manifest),
                                     !.intents = Without(@, c.id), !.epoch = @ + 1]
    [] c.op = "Pin"     -> [a EXCEPT !.pins = With(@, c.id, c.manifest), !.epoch = @ + 1]
    [] c.op = "Unpin"   -> [a EXCEPT !.pins = Without(@, c.id), !.epoch = @ + 1]
    [] c.op = "ReserveDelete" -> [a EXCEPT !.reservations = With(@, c.key, c.id)]
    [] c.op = "RetireDelete"  -> [a EXCEPT !.reservations = Without(@, c.key)]

\* A request is answered from its retained outcome; a conflict leaves no trace.
refuses(t, r, c) == r \notin DOMAIN t.ram.outcomes /\ conflicts(t.ram, c)
apply(t, r, c) ==
  IF r \in DOMAIN t.ram.outcomes \/ conflicts(t.ram, c) THEN t
  ELSE LET next == [apply_authority_command(t.ram, c) EXCEPT
                      !.revision = @ + 1, !.outcomes = With(@, r, c.op)]
       IN [t EXCEPT !.ram = next, !.disk = IF mode = "RamOnlyAuthority" THEN @ ELSE next]
open(t) == [t EXCEPT !.ram = t.disk]

(***************************************************************************)
(* Object store, mark and sweep.                                           *)
(***************************************************************************)
put(t, keys) == [t EXCEPT !.objects = @ \cup keys]
delete(t, key) == [t EXCEPT !.objects = @ \ {key}]
walk_closure(t, m) == Closure(m) \subseteq t.objects

snapshot(a) == [epoch |-> a.epoch, manifests |-> Values(a.roots) \cup Values(a.pins), intended |-> Intended(a)]
mark_snapshot(t, snap) ==
  [epoch |-> snap.epoch, complete |-> \A m \in snap.manifests : walk_closure(t, m),
   reachable |-> snap.intended \cup UNION {Closure(m) : m \in snap.manifests}]
mark(t) == mark_snapshot(t, snapshot(t.ram))

\* Every object the mark did not reach is reserved, deleted and retired.
sweep_root_graph_candidates(t, marked, phase) ==
  LET one(key, u) ==
        LET plan == <<phase, key>>
        IN apply(delete(apply(u, <<"reserve", plan>>, ReserveDelete(plan, marked.epoch, key)), key),
                 <<"retire", plan>>, RetireDelete(plan, key))
  IN IF marked.complete THEN FoldSet(one, t, t.objects \ marked.reachable) ELSE t

(***************************************************************************)
(* run_publication_adapter_contract: sixteen checks.                       *)
(***************************************************************************)
AdapterModes == {"Correct", "PublishRootBeforeVerify", "OmitDurableIntent", "ForgetUnknownObjectOutcome",
                 "RamOnlyAuthority", "TrustListForLiveness", "DeleteWithoutRevalidation", "DeleteWithoutReservation"}
Primary == Manifest("primary")
Race == Manifest("race")
Pinned == Manifest("pinned")
skip_reservation == mode = "DeleteWithoutReservation"
root_before_verify == mode = "PublishRootBeforeVerify"

Result(t, passed) == [s |-> t, passed |-> passed]

durable_intent(t) ==
  LET a == IF mode = "OmitDurableIntent" THEN t ELSE apply(t, "prepare-primary", Prepare("primary", Primary))
      durable == "primary" \in DOMAIN a.disk.intents
  IN Result(IF durable THEN open(a)
            ELSE IF mode = "OmitDurableIntent" THEN apply(a, "late-prepare-primary", Prepare("primary", Primary))
            ELSE a, durable)

\* The put whose response is lost took place; only its verification differs.
unknown_object_outcome(t) ==
  Result(put(t, {Data("left"), Data("right")}), mode # "ForgetUnknownObjectOutcome")

closure_before_root(t) ==
  LET uploaded  == IF root_before_verify THEN t ELSE put(t, {Primary})
      published == apply(uploaded, "publish-primary", Publish("primary", "range-main", Primary))
  IN Result(put(published, {Primary}), ~root_before_verify /\ walk_closure(uploaded, Primary))

unknown_authority_outcome(t) ==
  LET recovered == "publish-primary" \in DOMAIN t.disk.outcomes
  IN Result(IF recovered THEN open(t) ELSE t, recovered)

reopened_exact(t) ==
  Result(t, /\ "publish-primary" \in DOMAIN t.disk.outcomes
            /\ "range-main" \in DOMAIN t.ram.roots /\ t.ram.roots["range-main"] = Primary
            /\ "primary" \notin DOMAIN t.ram.intents)

root_reads(t) == Result(t, walk_closure(t, Primary))

\* One corrupt read makes the mark of any manifest incomplete.
incomplete_mark(t) == Result(t, snapshot(t.ram).manifests # {})

list_not_liveness(t) ==
  IF mode = "TrustListForLiveness"
  THEN LET swept == delete(t, Data("left"))
       IN Result(put(swept, {Data("left")}), walk_closure(swept, Primary))
  ELSE Result(t, mark(t).complete /\ Data("left") \in mark(t).reachable /\ walk_closure(t, Primary))

epoch_defers(t) ==
  LET uploaded == put(t, Closure(Pinned))
      marked   == mark(uploaded)
      pin      == apply(uploaded, "pin-after-mark", Pin("snapshot-pin", Pinned))
      reserve  == ReserveDelete("stale-plan", marked.epoch, Data("pinned"))
  IN IF mode = "DeleteWithoutRevalidation" THEN Result(delete(pin, Data("pinned")), FALSE)
     ELSE Result(apply(pin, "reserve-stale-plan", reserve), refuses(pin, "reserve-stale-plan", reserve))

pin_readable(t) ==
  Result(apply(put(t, {Data("pinned")}), "unpin-after-mark", Unpin("snapshot-pin")), walk_closure(t, Pinned))

reservation_survives(t) ==
  LET uploaded == put(t, {Data("race")})
      reserved == IF skip_reservation THEN uploaded
                  ELSE apply(uploaded, "reserve-delete-race",
                             ReserveDelete("delete-race-plan", mark(uploaded).epoch, Data("race")))
      reopened == Data("race") \in DOMAIN reserved.disk.reservations
  IN Result(IF reopened THEN open(reserved) ELSE reserved, reopened)

reservation_blocks(t) ==
  LET c == Prepare("race-publication", Race)
  IN Result(apply(t, "prepare-race", c), refuses(t, "prepare-race", c))

unknown_delete(t) == Result(delete(t, Data("race")), TRUE)

recreated(t) ==
  IF skip_reservation THEN Result(t, FALSE)
  ELSE LET retired == apply(t, "retire-delete-race", RetireDelete("delete-race-plan", Data("race")))
           again   == apply(retired, "prepare-race", Prepare("race-publication", Race))
       IN Result(put(again, {Data("race")}), Data("race") \notin again.objects)

race_root_reads(t) ==
  LET published == apply(put(t, {Race}), "publish-race-root", Publish("race-publication", "range-race", Race))
  IN Result(published, walk_closure(published, Race))

ScriptedChecks == 16
check_at(n, t) ==
  CASE n = 1 -> durable_intent(t)             [] n = 2 -> unknown_object_outcome(t)
    [] n = 3 -> closure_before_root(t)        [] n = 4 -> unknown_authority_outcome(t)
    [] n = 5 -> reopened_exact(t)             [] n \in {6, 16} -> root_reads(t)
    [] n = 7 -> incomplete_mark(t)            [] n = 8 -> list_not_liveness(t)
    [] n = 9 -> epoch_defers(t)               [] n = 10 -> pin_readable(t)
    [] n = 11 -> reservation_survives(t)      [] n = 12 -> reservation_blocks(t)
    [] n = 13 -> unknown_delete(t)            [] n = 14 -> recreated(t)
    [] n = 15 -> race_root_reads(t)

RunCheck ==
  /\ part = "script" /\ step < ScriptedChecks
  /\ LET r == check_at(step + 1, s)
     IN /\ s' = r.s
        /\ failed' = IF r.passed THEN failed ELSE failed \cup {step + 1}
  /\ step' = step + 1
  /\ UNCHANGED <<part, mode, publisher, sweeper, pinned, marks>>

(***************************************************************************)
(* run_publication_root_graph_contract: nine checks over five pinned roots  *)
(* that share an object.                                                   *)
(***************************************************************************)
registered == IF mode = "OmitAnalyticalLeaseRoot" THEN RootTypes \ {"analytical-lease"} ELSE RootTypes

pin_roots(t) ==
  LET uploaded == put(t, UNION {Closure(Manifest(n)) : n \in RootTypes})
      one(n, u) == apply(u, <<"pin", n>>, Pin(n, Manifest(n)))
  IN open(FoldSet(one, uploaded, registered))

all_manifests_readable(t, names) == \A n \in names : walk_closure(t, Manifest(n))

RunRootGraph ==
  LET pins    == pin_roots(s)
      first   == sweep_root_graph_candidates(pins, mark(pins), "initial")
      unpin   == apply(first, <<"unpin", "clone">>, Unpin("clone"))
      second  == sweep_root_graph_candidates(unpin, mark(unpin), "clone")
      race    == put(second, Closure(Race))
      lease   == apply(race, <<"pin", "race">>, Pin("analytical-lease-race", Race))
      reserve == ReserveDelete("racing-lease-plan", mark(race).epoch, Data("race"))
      last    == apply(lease, <<"reserve-racing-lease">>, reserve)
      passed(c) ==
        CASE c = 1 -> Cardinality(registered) = 5
          [] c = 2 -> Cardinality(DOMAIN pins.ram.pins) = 5
          [] c = 3 -> mark(pins).complete
          [] c = 4 -> all_manifests_readable(first, RootTypes)
          [] c = 5 -> /\ Cardinality(first.objects) - Cardinality(second.objects) = 2
                      /\ ~walk_closure(second, Manifest("clone"))
          [] c = 6 -> all_manifests_readable(second, RootTypes \ {"clone"})
          [] c = 7 -> walk_closure(second, Manifest("checkpoint"))
          [] c = 8 -> refuses(lease, <<"reserve-racing-lease">>, reserve)
          [] c = 9 -> walk_closure(last, Race)
  IN /\ part = "graph" /\ step = 0
     /\ s' = last /\ failed' = {c \in 1..9 : ~passed(c)} /\ step' = 9
     /\ UNCHANGED <<part, mode, publisher, sweeper, pinned, marks>>

(***************************************************************************)
(* Free part.  All the publications go to one root, so each garbages the    *)
(* one before it.                                                          *)
(***************************************************************************)
Goto(p, pc, left) == publisher' = [publisher EXCEPT ![p] = [pc |-> pc, left |-> left]]
Free == part = "free"

\* A refused Prepare may be repeated.
PublisherPrepare(p) ==
  /\ Free /\ publisher[p].pc = "prepare"
  /\ ~refuses(s, <<"prepare", p>>, Prepare(p, Manifest(p)))
  /\ s' = apply(s, <<"prepare", p>>, Prepare(p, Manifest(p)))
  /\ Goto(p, "put", Closure(Manifest(p)))
  /\ UNCHANGED <<part, mode, failed, step, sweeper, pinned, marks>>

PublisherPut(p) ==
  /\ Free /\ publisher[p].pc = "put"
  /\ \E key \in publisher[p].left :
       /\ key = Manifest(p) => publisher[p].left = {key}
       /\ s' = put(s, {key})
       /\ Goto(p, IF publisher[p].left = {key} THEN "publish" ELSE "put", publisher[p].left \ {key})
  /\ UNCHANGED <<part, mode, failed, step, sweeper, pinned, marks>>

\* Publishes only a closure it has just walked.
PublisherPublish(p) ==
  /\ Free /\ publisher[p].pc = "publish"
  /\ IF walk_closure(s, Manifest(p)) /\ ~refuses(s, <<"publish", p>>, Publish(p, "range-main", Manifest(p)))
     THEN /\ s' = apply(s, <<"publish", p>>, Publish(p, "range-main", Manifest(p)))
          /\ Goto(p, "done", {})
     ELSE s' = s /\ Goto(p, "failed", {})
  /\ UNCHANGED <<part, mode, failed, step, sweeper, pinned, marks>>

TakePin(n) ==
  /\ Free /\ pinned < MaxPins /\ walk_closure(s, Manifest(n))
  /\ s' = apply(s, <<"pin", pinned>>, Pin("snapshot-pin", Manifest(n)))
  /\ pinned' = pinned + 1
  /\ UNCHANGED <<part, mode, failed, step, publisher, sweeper, marks>>

DropPin ==
  /\ Free /\ "snapshot-pin" \in DOMAIN s.ram.pins
  /\ s' = apply(s, <<"unpin", pinned>>, Unpin("snapshot-pin"))
  /\ UNCHANGED <<part, mode, failed, step, publisher, sweeper, pinned, marks>>

Idle == [pc |-> "idle", epoch |-> 0, reachable |-> {}, left |-> {}, key |-> NULL]

\* An incomplete mark sweeps nothing.
SweeperMark ==
  /\ Free /\ sweeper.pc = "idle" /\ marks < MaxMarks /\ mark(s).complete
  /\ sweeper' = [Idle EXCEPT !.pc = "list", !.epoch = mark(s).epoch, !.reachable = mark(s).reachable]
  /\ marks' = marks + 1
  /\ UNCHANGED <<part, mode, s, failed, step, publisher, pinned>>

\* The candidates are listed after the mark was taken.
SweeperList ==
  /\ Free /\ sweeper.pc = "list"
  /\ LET candidates == s.objects \ sweeper.reachable
     IN sweeper' = IF candidates = {} THEN Idle ELSE [sweeper EXCEPT !.pc = "sweep", !.left = candidates]
  /\ UNCHANGED <<part, mode, s, failed, step, publisher, pinned, marks>>

Plan(key) == <<"plan", marks, key>>

\* A conflict, or a candidate that is gone, ends the sweep.
SweeperReserve(key) ==
  LET c == ReserveDelete(Plan(key), sweeper.epoch, key)
      refused == key \notin s.objects \/ refuses(s, <<"reserve", Plan(key)>>, c)
  IN /\ Free /\ sweeper.pc = "sweep" /\ key \in sweeper.left
     /\ s' = IF refused THEN s ELSE apply(s, <<"reserve", Plan(key)>>, c)
     /\ sweeper' = IF refused THEN Idle ELSE [sweeper EXCEPT !.pc = "delete", !.left = @ \ {key}, !.key = key]
     /\ UNCHANGED <<part, mode, failed, step, publisher, pinned, marks>>

SweeperDelete ==
  /\ Free /\ sweeper.pc = "delete"
  /\ s' = delete(s, sweeper.key)
  /\ sweeper' = [sweeper EXCEPT !.pc = "retire"]
  /\ UNCHANGED <<part, mode, failed, step, publisher, pinned, marks>>

SweeperRetire ==
  /\ Free /\ sweeper.pc = "retire"
  /\ s' = apply(s, <<"retire", Plan(sweeper.key)>>, RetireDelete(Plan(sweeper.key), sweeper.key))
  /\ sweeper' = IF sweeper.left = {} THEN Idle ELSE [sweeper EXCEPT !.pc = "sweep"]
  /\ UNCHANGED <<part, mode, failed, step, publisher, pinned, marks>>

AdapterInit ==
  /\ \/ part = "script" /\ mode \in AdapterModes
     \/ part = "graph" /\ mode \in {"Correct", "OmitAnalyticalLeaseRoot"}
     \/ part = "free" /\ mode = "Correct"
  /\ s = [ram |-> EmptyAuthority, disk |-> EmptyAuthority, objects |-> {}]
  /\ failed = {} /\ step = 0
  /\ publisher = [p \in Names |-> [pc |-> "prepare", left |-> {}]]
  /\ sweeper = Idle /\ pinned = 0 /\ marks = 0

AdapterNext ==
  \/ RunCheck \/ RunRootGraph \/ DropPin \/ SweeperMark \/ SweeperList \/ SweeperDelete \/ SweeperRetire
  \/ \E p \in Names : PublisherPrepare(p) \/ PublisherPut(p) \/ PublisherPublish(p) \/ TakePin(p)
  \/ \E key \in sweeper.left : SweeperReserve(key)

AdapterSpec == AdapterInit /\ [][AdapterNext]_vars

-----------------------------------------------------------------------------
\* A published root reads its exact closure whatever the sweeper deleted with a
\* mark of an earlier epoch ("published root reads exact closure").
RootReadable ==
  part = "free" => \A r \in DOMAIN s.ram.roots : walk_closure(s, s.ram.roots[r])

\* "new pin remains readable after stale sweep" (publication_adapter.rs:950): a
\* pin taken over a stored closure keeps it readable.
PinReadable ==
  part = "free" => \A p \in DOMAIN s.ram.pins : walk_closure(s, s.ram.pins[p])

\* Each driver fails a check exactly under a control
\* (every_negative_subject_has_a_bounded_anomaly).
AdapterDetects ==
  (part = "script" /\ step = ScriptedChecks) \/ (part = "graph" /\ step = 9) =>
    ((failed = {}) <=> (mode = "Correct"))
=============================================================================
