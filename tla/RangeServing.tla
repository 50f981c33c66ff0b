---------------------------- MODULE RangeServing ----------------------------
(* Range Engine serving.  A published root names an immutable base and its   *)
(* object closure.  A disposable worker reads the publication authority,     *)
(* checks the root it was told to serve and its snapshot lease, reads the    *)
(* closure through a persistent cache, and opens a view: the base plus the   *)
(* certified commits after it.  A process serves one view at a time behind   *)
(* an atomic pointer; readers keep the view they started with.  Meanwhile    *)
(* the controller publishes the replacement root, releases the lease of the  *)
(* old one and reclaims the objects only the old root names.                 *)
EXTENDS Integers, Sequences, SequencesExt, FiniteSets

CONSTANTS History,   \* version v writes the mutations History[v], a set of <<key, value>>
          Keys,      \* the keys, small naturals in key order
          Bases,     \* the published roots, numbered in publication order
          Covered,   \* covered_through of a base
          Closure,   \* the objects of a base: its outer root, its manifest, its tables
          Workers,   \* disposable worker processes
          Readers,   \* reader tasks of the serving process
          Limits     \* row limits of scans

None == 0            \* no root, and a cleared key
MinimumReadable == 1 \* minimum_readable_version of every published root

VARIABLES authority, \* the publication authority: root, leases, reserved
          committed, \* the last version the transaction log has certified
          objects,   \* objects in the object store
          cache,     \* objects in the workers' persistent cache
          worker,    \* worker processes
          current,   \* the view the serving process publishes
          retained   \* the view a reader holds

servingVars == <<authority, committed, objects, cache, worker, current, retained>>

-----------------------------------------------------------------------------
(* Views.  The tail of a view is a function of its base and its target, as   *)
(* open refuses every other sequence of records.                             *)

View(base, target) == [base |-> base, target |-> target]
NoView == View(None, 0)

\* The last of the versions in W that writes key, and what it writes.
writers(key, W) == {v \in W : \E x \in History[v] : x[1] = key}
MaxOf(S) == CHOOSE x \in S : \A y \in S : y <= x
written(key, v) == (CHOOSE x \in History[v] : x[1] = key)[2]

\* What the history says of a key at a version: the reference of every read.
ValueAt(key, v) ==
  LET W == writers(key, 1 .. v) IN IF W = {} THEN None ELSE written(key, MaxOf(W))

\* The immutable base answers from the versions it covers.
base_value(view, key, v) == ValueAt(key, IF v < Covered[view.base] THEN v ELSE Covered[view.base])

\* The records a worker collects: every version after the base, up to the
\* target, that a quorum of its log set returned and attested.
certified_tail(base, target) == (Covered[base] + 1) .. target

TailVersions(view, v) == {u \in certified_tail(view.base, view.target) : u <= v}

Untouched == -1
tail_value(view, key, v) ==
  LET W == writers(key, TailVersions(view, v))
  IN  IF W = {} THEN Untouched ELSE written(key, MaxOf(W))

require_readable(view, v) == MinimumReadable <= v /\ v <= view.target

\* A cleared tail entry that falls through to the base.
get_at_tombstone_lost(view, key, v) ==
  LET t == tail_value(view, key, v)
  IN  IF v > Covered[view.base] /\ t \notin {Untouched, None} THEN t
      ELSE base_value(view, key, v)

get_at(view, key, v) ==
  LET t == tail_value(view, key, v)
  IN  IF v > Covered[view.base] /\ t # Untouched THEN t ELSE base_value(view, key, v)

Sorted(S) == SetToSortSeq(S, <)

\* The ordered cursors of a scan of [start, end).
base_cursor(view, start, end, v) ==
  Sorted({k \in Keys : start <= k /\ k < end /\ base_value(view, k, v) # None})
tail_iter(view, start, end, v) ==
  Sorted({k \in Keys : start <= k /\ k < end /\ tail_value(view, k, v) # Untouched})

(* One turn of the merge: the smaller of the two next keys is consumed, on   *)
(* equal keys both are, and a cleared tail entry yields no row.              *)
merge_step_keeps_base(view, v, c) ==
  LET b == Head(c.base)
      t == Head(c.tail)
      x == IF c.tail = << >> THEN Untouched ELSE tail_value(view, t, v)
  IN  IF c.tail = << >> \/ (c.base # << >> /\ b < t)
      THEN [base |-> Tail(c.base), tail |-> c.tail, rows |-> Append(c.rows, <<b, base_value(view, b, v)>>)]
      ELSE [base |-> c.base, tail |-> Tail(c.tail),
            rows |-> IF x = None THEN c.rows ELSE Append(c.rows, <<t, x>>)]

merge_step(view, v, c) ==
  LET b == Head(c.base)
      t == Head(c.tail)
      x == IF c.tail = << >> THEN Untouched ELSE tail_value(view, t, v)
  IN  IF c.tail = << >> \/ (c.base # << >> /\ b < t)
      THEN [base |-> Tail(c.base), tail |-> c.tail, rows |-> Append(c.rows, <<b, base_value(view, b, v)>>)]
      ELSE [base |-> IF c.base # << >> /\ b = t THEN Tail(c.base) ELSE c.base, tail |-> Tail(c.tail),
            rows |-> IF x = None THEN c.rows ELSE Append(c.rows, <<t, x>>)]

merged(view, v, limit, start, end) ==
  LET f[n \in 0 .. 2 * Cardinality(Keys)] ==
        IF n = 0
        THEN [base |-> base_cursor(view, start, end, v),
              tail |-> tail_iter(view, start, end, v), rows |-> << >>]
        ELSE LET c == f[n - 1] IN
             IF Len(c.rows) = limit \/ (c.base = << >> /\ c.tail = << >>) THEN c
             ELSE merge_step(view, v, c)
  IN  f[2 * Cardinality(Keys)]

scan_at(view, start, end, v, limit) == merged(view, v, limit, start, end).rows

-----------------------------------------------------------------------------
(* The controller and the publication authority.                             *)

Idle == [at |-> "idle", expected |-> None, historical |-> FALSE, target |-> 0, lease |-> FALSE]

ServingInit ==
  /\ authority = [root |-> 1, leases |-> {}, reserved |-> {}]
  /\ committed = Covered[1] + 1
  /\ objects = Closure[1]
  /\ cache = {}
  /\ worker = [w \in Workers |-> Idle]
  /\ current = View(1, Covered[1])
  /\ retained = [r \in Readers |-> NoView]

\* The transaction system certifies one more commit.
CommitNext ==
  /\ committed < Len(History)
  /\ committed' = committed + 1
  /\ UNCHANGED <<authority, objects, cache, worker, current, retained>>

\* A lease names the base's outer root and every object of its closure.
acquire_old_root_lease(b) ==
  /\ authority.root = b
  /\ b \notin authority.leases
  /\ authority' = [authority EXCEPT !.leases = @ \cup {b}]
  /\ UNCHANGED <<committed, objects, cache, worker, current, retained>>

ReleaseLease(b) ==
  /\ b \in authority.leases
  /\ authority' = [authority EXCEPT !.leases = @ \ {b}]
  /\ UNCHANGED <<committed, objects, cache, worker, current, retained>>

\* The next root is written and published over the one it expects.
publish_root(b) ==
  /\ b \in Bases
  /\ authority.root = b - 1
  /\ Covered[b] <= committed
  /\ Closure[b] \cap authority.reserved = {}
  /\ objects' = objects \cup Closure[b]
  /\ authority' = [authority EXCEPT !.root = b]
  /\ UNCHANGED <<committed, cache, worker, current, retained>>

\* A reservation that looks at the published root only.
NamedByRoot == Closure[authority.root]
Named == Closure[authority.root] \cup UNION {Closure[b] : b \in authority.leases}

reclamation_objects == UNION {Closure[b] : b \in {c \in Bases : c < authority.root}} \ Closure[authority.root]

ReserveDelete(o) ==
  /\ o \in reclamation_objects \cap objects
  /\ o \notin Named \cup authority.reserved
  /\ authority' = [authority EXCEPT !.reserved = @ \cup {o}]
  /\ UNCHANGED <<committed, objects, cache, worker, current, retained>>

\* The object is deleted, then its permit is retired.
DeleteReserved(o) ==
  /\ o \in authority.reserved
  /\ o \in objects
  /\ objects' = objects \ {o}
  /\ UNCHANGED <<authority, committed, cache, worker, current, retained>>

RetireDelete(o) ==
  /\ o \in authority.reserved \ objects
  /\ authority' = [authority EXCEPT !.reserved = @ \ {o}]
  /\ UNCHANGED <<committed, objects, cache, worker, current, retained>>

-----------------------------------------------------------------------------
(* Workers.                                                                  *)

set_worker(w, record) == worker' = [worker EXCEPT ![w] = record]

(* A live read of the authority.  The worker refuses a root other than the   *)
(* one it was told to serve, and a lease that is not active for that root.   *)
validate_snapshot_lease_for_root(b) == b \in authority.leases

ReadAuthority(w, b, historical) ==
  /\ worker[w].at = "idle"
  /\ authority.root = b
  /\ historical => validate_snapshot_lease_for_root(b)
  /\ set_worker(w, [at |-> "resolved", expected |-> b, historical |-> historical, target |-> committed,
                    lease |-> historical])
  /\ UNCHANGED <<authority, committed, objects, cache, current, retained>>

\* The root differs, the lease is not active, or the authority does not answer
\* within the deadline: a receipt that opened nothing.
RefuseBeforeStorage(w) ==
  /\ worker[w].at = "idle"
  /\ set_worker(w, [Idle EXCEPT !.at = "refused"])
  /\ UNCHANGED <<authority, committed, objects, cache, current, retained>>

(* read_exact_object over the outer root and the physical closure: every     *)
(* object comes from the cache or from the store, and is then cached.        *)
read_exact_object(o) == o \in cache \cup objects

VerifyClosure(w) ==
  LET b == worker[w].expected IN
  /\ worker[w].at = "resolved"
  /\ \A o \in Closure[b] : read_exact_object(o)
  /\ cache' = cache \cup Closure[b]
  /\ set_worker(w, [worker[w] EXCEPT !.at = "verified"])
  /\ UNCHANGED <<authority, committed, objects, current, retained>>

MissingObject(w) ==
  /\ worker[w].at = "resolved"
  /\ \E o \in Closure[worker[w].expected] : ~read_exact_object(o)
  /\ set_worker(w, [Idle EXCEPT !.at = "refused"])
  /\ UNCHANGED <<authority, committed, objects, cache, current, retained>>

\* The bounded cache evicts.
Evict(o) ==
  /\ o \in cache
  /\ cache' = cache \ {o}
  /\ UNCHANGED <<authority, committed, objects, worker, current, retained>>

\* The view opens on the base and the certified records up to the target.
OpenView(w) ==
  LET b == worker[w].expected IN
  /\ worker[w].at = "verified"
  /\ set_worker(w, [worker[w] EXCEPT !.at = "open", !.lease = b \in authority.leases])
  /\ UNCHANGED <<authority, committed, objects, cache, current, retained>>

-----------------------------------------------------------------------------
(* The serving process.                                                      *)

(* A controller captures the token of the current view, opens a replacement  *)
(* for a later target on the same or on a later root, and installs it if the *)
(* current token is still the captured one.                                  *)
same_manifest(expected, observed) == expected.base = observed.base
same_token(expected, observed) == expected = observed

StartReplacement(w) ==
  /\ worker[w].at = "open"
  /\ worker[w].target >= current.target
  /\ worker[w].expected >= current.base
  /\ set_worker(w, [at |-> "install", view |-> View(worker[w].expected, worker[w].target), token |-> current,
                    expected |-> worker[w].expected])
  /\ UNCHANGED <<authority, committed, objects, cache, current, retained>>

install_if_current(w) ==
  /\ worker[w].at = "install"
  /\ current' = IF same_token(worker[w].token, current) THEN worker[w].view ELSE current
  /\ set_worker(w, Idle)
  /\ UNCHANGED <<authority, committed, objects, cache, retained>>

Exit(w) ==
  /\ worker[w].at \in {"open", "refused"}
  /\ set_worker(w, Idle)
  /\ UNCHANGED <<authority, committed, objects, cache, current, retained>>

\* A reader takes the pointer once and reads through that view.
Retain(r) ==
  /\ retained[r] = NoView
  /\ retained' = [retained EXCEPT ![r] = current]
  /\ UNCHANGED <<authority, committed, objects, cache, worker, current>>

base_readable(view) == \A o \in Closure[view.base] : read_exact_object(o)

\* The answer is get_at(view, key, v); the reader then drops its view.
ReadPoint(r, key, v) ==
  LET view == retained[r] IN
  /\ view # NoView
  /\ require_readable(view, v)
  /\ base_readable(view) \/ tail_value(view, key, v) # Untouched
  /\ retained' = [retained EXCEPT ![r] = NoView]
  /\ UNCHANGED <<authority, committed, objects, cache, worker, current>>

\* The answer is scan_at(view, start, end, v, limit).
ReadScan(r, v) ==
  LET view == retained[r] IN
  /\ view # NoView
  /\ require_readable(view, v)
  /\ base_readable(view)
  /\ retained' = [retained EXCEPT ![r] = NoView]
  /\ UNCHANGED <<authority, committed, objects, cache, worker, current>>

\* Expired or unavailable snapshot, or a base object that is gone.
RefuseRead(r) ==
  /\ retained[r] # NoView
  /\ retained' = [retained EXCEPT ![r] = NoView]
  /\ UNCHANGED <<authority, committed, objects, cache, worker, current>>

ControllerNext ==
  \/ CommitNext
  \/ \E b \in Bases : acquire_old_root_lease(b) \/ ReleaseLease(b) \/ publish_root(b)
  \/ \E o \in UNION {Closure[b] : b \in Bases} :
       ReserveDelete(o) \/ DeleteReserved(o) \/ RetireDelete(o) \/ Evict(o)

WorkerNext(w) ==
  \/ \E b \in Bases, h \in BOOLEAN : ReadAuthority(w, b, h)
  \/ RefuseBeforeStorage(w) \/ VerifyClosure(w) \/ MissingObject(w) \/ OpenView(w)
  \/ StartReplacement(w) \/ install_if_current(w) \/ Exit(w)

ReaderNext(r) ==
  \/ Retain(r) \/ RefuseRead(r)
  \/ \E k \in Keys, v \in 1 .. Len(History) : ReadPoint(r, k, v)
  \/ \E v \in 1 .. Len(History) : ReadScan(r, v)

ServingNext ==
  \/ ControllerNext
  \/ \E w \in Workers : WorkerNext(w)
  \/ \E r \in Readers : ReaderNext(r)

ServingSpec == ServingInit /\ [][ServingNext]_servingVars

-----------------------------------------------------------------------------
(* Properties.                                                               *)

RowsAt(start, end, v) ==
  LET K == Sorted({k \in Keys : start <= k /\ k < end /\ ValueAt(k, v) # None})
  IN  [i \in 1 .. Len(K) |-> <<K[i], ValueAt(K[i], v)>>]

\* The views all of whose admitted reads answer with the committed history.
ExactViews ==
  {view \in {View(b, t) : b \in Bases, t \in 1 .. Len(History)} :
    \A v \in {u \in 1 .. Len(History) : require_readable(view, u)} :
      /\ \A k \in Keys : get_at(view, k, v) = ValueAt(k, v)
      /\ \A start \in Keys, end \in {k + 1 : k \in Keys}, limit \in Limits :
           start < end =>
             LET all == RowsAt(start, end, v)
             IN  scan_at(view, start, end, v, limit)
                   = SubSeq(all, 1, IF Len(all) < limit THEN Len(all) ELSE limit)}

(* A read at a version a view admits answers with the committed history at   *)
(* exactly that version, whatever part of it the base and the tail hold, and *)
(* a scan returns its first rows in key order: AuthorityBoundRangeView       *)
(* get_at and scan_at, in the published view and in every retained one.      *)
ReadsExact ==
  /\ current \in ExactViews
  /\ \A r \in Readers : retained[r] \in ExactViews \cup {NoView}

(* The closure of a leased root stays in the object store: a worker that     *)
(* passed validate_snapshot_lease_for_root can read every base object, cache *)
(* or no cache, until the lease is released.                                 *)
LeasedClosureStored ==
  \A w \in Workers : worker[w].at \in {"resolved", "verified", "open"}
                        /\ worker[w].historical /\ worker[w].expected \in authority.leases
                      => Closure[worker[w].expected] \subseteq objects

(* install_if_current never moves the published view back to an earlier      *)
(* frontier or root, whatever replacement was built against an older token.  *)
NoRollbackStep == current'.target >= current.target /\ current'.base >= current.base

\* The same of every step.
NoRollback == [][NoRollbackStep]_servingVars

(* A historical view opens only while its lease is active.  It does not hold *)
(* of the code: the worker checks the lease in the authority state it read   *)
(* first, and a release between that read and the open goes unseen.          *)
OpenedUnderLease ==
  \A w \in Workers : worker[w].at = "open" /\ worker[w].historical => worker[w].lease

=============================================================================
