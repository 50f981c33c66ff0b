------------------------------ MODULE MvccModel ------------------------------
(* The reference MVCC model of okv-model/src/lib.rs (Model, TransactionView)   *)
(* and the differential runner of okv-model/src/history.rs that compares it    *)
(* with a naive oracle under poison controls.                                  *)
(*                                                                             *)
(* A version is generation * Width + sequence; the subject keeps the canonical *)
(* mutations of every commit and computes visibility from them, the oracle     *)
(* keeps one snapshot per commit.  The runner's fixed prelude is followed by   *)
(* its operations in any order (the code draws them from the step number and a *)
(* seed).                                                                      *)
EXTENDS Integers, Sequences, FiniteSets, FiniteSetsExt

CONSTANTS
  Keys,      \* 0..n, in key order
  Values,
  MaxSeq,    \* sequences per generation
  MaxSteps,  \* requested_steps
  Modes,     \* controls to run
  MaxPending,\* mutations of a transaction view
  NULL

VARIABLES
  mode,
  subject,    \* Model: [commits, latest, oldest]
  oracle,     \* NaiveOracle: [commits, snapshots, latest, oldest]
  version,    \* [generation, sequence] of the runner
  first, last,\* first_version and last_batch
  steps,      \* executed_steps
  mismatch,
  pending     \* mutations of an open TransactionView, or NULL

vars == <<mode, subject, oracle, version, first, last, steps, mismatch, pending>>

Width == MaxSeq + 2
V(g, s) == g * Width + s

Set(k, v) == [op |-> "set", key |-> k, val |-> v]
Clear(k) == [op |-> "clear", key |-> k]
ClearRange(a, b) == [op |-> "range", from |-> a, to |-> b]
Covers(m, k) == m.op = "range" /\ m.from <= k /\ k < m.to
IsPoint(m, k) == m.op # "range" /\ m.key = k

Mutations == {Set(k, v) : k \in Keys, v \in Values} \cup {Clear(k) : k \in Keys}
             \cup {ClearRange(r[1], r[2]) : r \in {x \in Keys \X (Keys \cup {Max(Keys) + 1}) : x[1] < x[2]}}

\* generated_mutations: one mutation, or a range clear with a point inside it.
Generated == {{x} : x \in Mutations}
             \cup {{x, Set(x.from, v)} : x \in {y \in Mutations : y.op = "range"}, v \in Values}

Error(e) == [error |-> e]
Found(v) == [value |-> v]

(***************************************************************************)
(* Model.                                                                  *)
(***************************************************************************)
\* Two distinct point mutations of one key are ambiguous.
ambiguous(muts) ==
  \E x, y \in muts : x # y /\ x.op # "range" /\ y.op # "range" /\ x.key = y.key

fingerprint(b) == <<b.version, b.id, b.muts>>

check_read_version(m, v) ==
  CASE v > m.latest -> "VersionNotApplied"
    [] v < m.oldest -> "VersionTooOld"
    [] OTHER        -> "ok"

apply_outcome(m, b) ==
  CASE b.version = 0 -> "ZeroVersion"
    [] ambiguous(b.muts) -> "AmbiguousPointMutations"
    [] b.version \in DOMAIN m.commits ->
         IF fingerprint(m.commits[b.version]) = fingerprint(b)
         THEN "AlreadyApplied" ELSE "ConflictingReplay"
    [] b.version <= m.latest -> "NonMonotonicVersion"
    [] OTHER -> "Applied"

With(f, k, x) == [y \in DOMAIN f \cup {k} |-> IF y = k THEN x ELSE f[y]]

apply(m, b) ==
  IF apply_outcome(m, b) = "Applied"
  THEN [m EXCEPT !.commits = With(@, b.version, b), !.latest = b.version]
  ELSE m

\* The newest point mutation at or below the version, unless a newer range
\* clear covers the key; at one version the point wins.
point_versions(m, k, v) ==
  {x \in DOMAIN m.commits : x <= v /\ \E y \in m.commits[x].muts : IsPoint(y, k)}
clear_versions(m, k, v) ==
  {x \in DOMAIN m.commits : x <= v /\ \E y \in m.commits[x].muts : Covers(y, k)}

\* Mutated form: a point at the version of a range clear counts as cleared.
visible_clear_wins(m, k, v) ==
  LET points == point_versions(m, k, v)
      clears == clear_versions(m, k, v)
      point  == CHOOSE y \in m.commits[Max(points)].muts : IsPoint(y, k)
  IN IF points = {} \/ (clears # {} /\ Max(points) <= Max(clears)) \/ point.op = "clear"
     THEN NULL ELSE point.val

visible(m, k, v) ==
  LET points == point_versions(m, k, v)
      clears == clear_versions(m, k, v)
      point  == CHOOSE y \in m.commits[Max(points)].muts : IsPoint(y, k)
  IN IF points = {} \/ (clears # {} /\ Max(points) < Max(clears)) \/ point.op = "clear"
     THEN NULL ELSE point.val

get(m, k, v) ==
  IF check_read_version(m, v) = "ok" THEN Found(visible(m, k, v))
  ELSE Error(check_read_version(m, v))

scan(m, v) ==
  IF check_read_version(m, v) = "ok"
  THEN Found({<<k, visible(m, k, v)>> : k \in {x \in Keys : visible(m, x, v) # NULL}})
  ELSE Error(check_read_version(m, v))

retain_from(m, v) ==
  IF check_read_version(m, v) = "ok" THEN [m EXCEPT !.oldest = v] ELSE m

(***************************************************************************)
(* NaiveOracle.                                                            *)
(***************************************************************************)
EmptySnapshot == [k \in Keys |-> NULL]
snapshot_at(o, v) ==
  LET upto == {x \in DOMAIN o.snapshots : x <= v}
  IN IF upto = {} THEN EmptySnapshot ELSE o.snapshots[Max(upto)]

\* Range clears first, then points.
next_snapshot(o, muts) ==
  [k \in Keys |->
     IF \E x \in muts : IsPoint(x, k)
     THEN LET p == CHOOSE x \in muts : IsPoint(x, k)
          IN IF p.op = "set" THEN p.val ELSE NULL
     ELSE IF \E x \in muts : Covers(x, k) THEN NULL
     ELSE snapshot_at(o, o.latest)[k]]

oracle_outcome(o, b) ==
  CASE b.version \in DOMAIN o.commits ->
         IF o.commits[b.version] = <<b.id, b.muts>> THEN "AlreadyApplied" ELSE "ConflictingReplay"
    [] b.version = 0 -> "ZeroVersion"
    [] b.version <= o.latest -> "NonMonotonicVersion"
    [] OTHER -> "Applied"

oracle_apply(o, b) ==
  IF oracle_outcome(o, b) = "Applied"
  THEN [o EXCEPT !.commits = With(@, b.version, <<b.id, b.muts>>),
                 !.snapshots = With(@, b.version, next_snapshot(o, b.muts)),
                 !.latest = b.version]
  ELSE o

oracle_get(o, k, v) ==
  IF check_read_version(o, v) = "ok" THEN Found(snapshot_at(o, v)[k])
  ELSE Error(check_read_version(o, v))

oracle_scan(o, v) ==
  IF check_read_version(o, v) = "ok"
  THEN Found({<<k, snapshot_at(o, v)[k]>> : k \in {x \in Keys : snapshot_at(o, v)[x] # NULL}})
  ELSE Error(check_read_version(o, v))

(***************************************************************************)
(* Runner.                                                                 *)
(***************************************************************************)
subject_batch(b) ==
  IF mode = "IgnoreRangeClears"
  THEN [b EXCEPT !.muts = {x \in @ : x.op # "range"}] ELSE b

\* What the control makes of a subject read.
controlled(answer, fallback, expired, v, m) ==
  CASE mode = "FutureReadFallsBack" /\ answer = Error("VersionNotApplied") -> fallback
    [] mode = "ServeExpiredRead" /\ answer = Error("VersionTooOld")        -> expired
    [] mode = "RejectRetentionBoundary" /\ v = m.oldest -> Error("VersionTooOld")
    [] OTHER -> answer

subject_get(m, k, v) == controlled(get(m, k, v), get(m, k, m.latest), Found(NULL), v, m)
subject_scan(m, v) == controlled(scan(m, v), scan(m, m.latest), Found({}), v, m)

snapshot_differs(m, o, v) ==
  \/ \E k \in Keys : oracle_get(o, k, v) # subject_get(m, k, v)
  \/ oracle_scan(o, v) # subject_scan(m, v)

can_continue == steps < MaxSteps /\ mismatch = NULL /\ pending = NULL
Judge(differs, what) ==
  /\ steps' = steps + 1
  /\ mismatch' = IF differs THEN what ELSE NULL

next_version(by) ==
  IF version.seq + by > MaxSeq THEN [gen |-> version.gen + 1, seq |-> 1]
  ELSE [version EXCEPT !.seq = @ + by]

Commit(muts, by) ==
  LET v == next_version(by)
      b == [version |-> V(v.gen, v.seq), id |-> steps + 1, muts |-> muts]
      m == apply(subject, subject_batch(b))
      o == oracle_apply(oracle, b)
  IN /\ subject' = m /\ oracle' = o /\ version' = v /\ last' = b
     /\ first' = IF first = NULL THEN b.version ELSE first
     /\ Judge(\/ oracle_outcome(oracle, b) # apply_outcome(subject, subject_batch(b))
              \/ snapshot_differs(m, o, b.version), "commit")
     /\ UNCHANGED <<mode, pending>>

\* The last batch again, its mutations reversed.
ExactReplay ==
  /\ last # NULL
  /\ LET actual == IF mode = "MutationOrderAffectsReplay" /\ Cardinality(last.muts) > 1
                   THEN "ConflictingReplay" ELSE apply_outcome(subject, subject_batch(last))
     IN Judge(oracle_outcome(oracle, last) # actual, "exact replay")
  /\ UNCHANGED <<mode, subject, oracle, version, first, last, pending>>

ConflictingReplay ==
  /\ last # NULL
  /\ LET b == [last EXCEPT !.id = @ + 1]
         a == apply_outcome(subject, subject_batch(b))
         actual == IF mode = "AcceptConflictingReplay" /\ a = "ConflictingReplay"
                   THEN "AlreadyApplied" ELSE a
     IN Judge(oracle_outcome(oracle, b) # actual, "conflicting replay")
  /\ UNCHANGED <<mode, subject, oracle, version, first, last, pending>>

FutureRead ==
  /\ LET v == subject.latest + 1
     IN Judge(oracle_get(oracle, Min(Keys), v) # subject_get(subject, Min(Keys), v), "future read")
  /\ UNCHANGED <<mode, subject, oracle, version, first, last, pending>>

RetainLatest ==
  /\ subject' = retain_from(subject, subject.latest)
  /\ oracle' = retain_from(oracle, subject.latest)
  /\ Judge(check_read_version(subject, subject.latest)
             # check_read_version(oracle, subject.latest), "retention")
  /\ UNCHANGED <<mode, version, first, last, pending>>

CompareAt(v, what) ==
  /\ Judge(snapshot_differs(subject, oracle, v), what)
  /\ UNCHANGED <<mode, subject, oracle, version, first, last, pending>>

BoundaryRead == CompareAt(subject.oldest, "boundary read")

previous == LET p == subject.latest - 1 IN IF p >= subject.oldest THEN p ELSE subject.oldest
HistoricalRead == CompareAt(previous, "historical read")

TooOldRead ==
  /\ first # NULL
  /\ \/ first >= subject.oldest /\ HistoricalRead
     \/ /\ first < subject.oldest
        /\ LET k == Min(Keys) + 1
           IN Judge(oracle_get(oracle, k, first) # subject_get(subject, k, first), "expired read")
        /\ UNCHANGED <<mode, subject, oracle, version, first, last, pending>>

StaleGenerationApply ==
  /\ LET stale == V((subject.latest \div Width) - 1, Width - 1)
         b == [version |-> stale, id |-> steps + 1, muts |-> {Set(Max(Keys), CHOOSE v \in Values : TRUE)}]
         a == apply_outcome(subject, b)
         actual == IF mode = "AcceptStaleGeneration" /\ a = "NonMonotonicVersion"
                   THEN "Applied" ELSE a
     IN /\ Judge(oracle_outcome(oracle, b) # actual, "stale generation")
        /\ subject' = apply(subject, b) /\ oracle' = oracle_apply(oracle, b)
  /\ UNCHANGED <<mode, version, first, last, pending>>

\* The nine fixed steps every history begins with.
Prelude ==
  \E v \in Values :
    CASE steps = 0 -> Commit({Set(0, v), Set(1, v)}, 1)
      [] steps = 1 -> Commit({ClearRange(0, 2), Set(1, v)}, 1)
      [] steps = 2 -> ExactReplay
      [] steps = 3 -> ConflictingReplay
      [] steps = 4 -> FutureRead
      [] steps = 5 -> RetainLatest
      [] steps = 6 -> BoundaryRead
      [] steps = 7 -> TooOldRead
      [] steps = 8 -> StaleGenerationApply

PreludeSteps == 9

(***************************************************************************)
(* TransactionView: reads of the snapshot with the pending mutations        *)
(* applied in call order, then their commit as one batch.                   *)
(***************************************************************************)
ViewValue[n \in 0..MaxPending, k \in Keys] ==
  IF n = 0 THEN visible(subject, k, subject.latest)
  ELSE LET x == pending[n]
       IN CASE x.op = "set" /\ x.key = k -> x.val
            [] x.op = "clear" /\ x.key = k -> NULL
            [] Covers(x, k) -> NULL
            [] OTHER -> ViewValue[n - 1, k]

view_get(k) == ViewValue[Len(pending), k]

Begin ==
  /\ can_continue /\ steps >= PreludeSteps /\ mode = "Correct"
  /\ pending' = <<>>
  /\ UNCHANGED <<mode, subject, oracle, version, first, last, steps, mismatch>>

Mutate(x) ==
  /\ pending # NULL /\ Len(pending) < MaxPending
  /\ pending' = Append(pending, x)
  /\ UNCHANGED <<mode, subject, oracle, version, first, last, steps, mismatch>>

batch_of(p) == {p[i] : i \in DOMAIN p}

CommitView ==
  /\ pending # NULL /\ ~ambiguous(batch_of(pending))
  /\ LET v == next_version(1)
         b == [version |-> V(v.gen, v.seq), id |-> steps + 1, muts |-> batch_of(pending)]
     IN /\ subject' = apply(subject, b) /\ oracle' = oracle_apply(oracle, b)
        /\ version' = v /\ last' = b
  /\ pending' = NULL /\ steps' = steps + 1
  /\ UNCHANGED <<mode, first, mismatch>>

RunnerInit ==
  /\ mode \in Modes
  /\ subject = [commits |-> <<>>, latest |-> 0, oldest |-> 0]
  /\ oracle = [commits |-> <<>>, snapshots |-> <<>>, latest |-> 0, oldest |-> 0]
  /\ version = [gen |-> 1, seq |-> 0]
  /\ first = NULL /\ last = NULL /\ steps = 0 /\ mismatch = NULL /\ pending = NULL

RunnerNext ==
  \/ can_continue /\ steps < PreludeSteps /\ Prelude
  \/ /\ can_continue /\ steps >= PreludeSteps
     /\ \/ \E muts \in Generated, by \in 1..2 : Commit(muts, by)
        \/ ExactReplay \/ ConflictingReplay \/ FutureRead \/ RetainLatest
        \/ HistoricalRead \/ TooOldRead \/ StaleGenerationApply
  \/ Begin \/ CommitView
  \/ \E x \in Mutations : Mutate(x)

RunnerSpec == RunnerInit /\ [][RunnerNext]_vars

-----------------------------------------------------------------------------
\* The subject and the oracle agree on every outcome and every read at any point
\* of any history (Model::get against NaiveOracle::get).
SubjectExact == mode = "Correct" => mismatch = NULL

\* The reads agree at every readable version, not only at the compared one.
AllSnapshotsAgree ==
  mode = "Correct" => \A v \in subject.oldest..subject.latest :
                        \A k \in Keys : get(subject, k, v) = oracle_get(oracle, k, v)

\* "every_negative_control_has_a_bounded_failing_prefix" (history.rs): the prelude
\* already exposes each control.
ControlsFailInPrelude == mode # "Correct" /\ steps >= PreludeSteps => mismatch # NULL

\* "Read from the snapshot, then apply pending mutations in call order." (lib.rs):
\* what a view reads is what its commit makes visible.
ViewMatchesCommit ==
  [][pending # NULL /\ pending' = NULL =>
       \A k \in Keys : view_get(k) = visible(subject', k, subject'.latest)]_vars
=============================================================================
