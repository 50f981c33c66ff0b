--------------------------- MODULE SnapshotOverlay ---------------------------
(* Exact analytical snapshots: a base per physical partition at its own         *)
(* watermark, overlaid with the row changes after it, up to a target version.   *)
(* The model crate's overlay (okv-model/src/htap.rs), the materializing         *)
(* operator (okv-htap/src/lib.rs) and the streaming merge                       *)
(* (okv-htap/src/streaming.rs) are checked against the row history itself; a    *)
(* client may suspend a streamed scan and continue it from its token over       *)
(* bases that have advanced.  `part` selects that or one of the three contract  *)
(* drivers.  Priorities and buffer statistics are left out; SQL filters and     *)
(* orders the operator's rows (external).                                       *)
EXTENDS Integers, Sequences, FiniteSets, FiniteSetsExt, SequencesExt

CONSTANTS
  Ids,               \* primary keys of the free part
  Partitions,        \* physical partitions, as integers in name order
  MaxVersion,        \* bound on the history
  MaxGroup,          \* MAXIMUM_GROUP_ROWS
  OutputRows,        \* OUTPUT_BATCH_ROWS
  NULL

VARIABLES
  part, mode,
  history,    \* committed changes, in version order
  scan,       \* NULL or the identity of the scan: [target, marks]
  merge,      \* the StreamingMergeState and what it emitted
  token,      \* NULL or a continuation token
  failed      \* checks a driver failed; NULL before it ran

vars == <<part, mode, history, scan, merge, token, failed>>

Row(i, p, status, amount) == [id |-> i, partition |-> p, status |-> status, amount |-> amount]
Change(v, i, prev, after) == [version |-> v, id |-> i, prev |-> prev, after |-> after]

(***************************************************************************)
(* History: the oracle.                                                    *)
(***************************************************************************)
writer_rows_at(initial, changes, v) ==
  LET step(rows, c) ==
        IF c.version > v THEN rows
        ELSE {r \in rows : r.id # c.id} \cup (IF c.after = NULL THEN {} ELSE {c.after})
  IN FoldLeft(step, initial, changes)

\* The rows of each partition at that partition's watermark.
base(initial, changes, marks) ==
  UNION {{r \in writer_rows_at(initial, changes, marks[p]) : r.partition = p} : p \in DOMAIN marks}

(***************************************************************************)
(* okv-model: overlay.                                                     *)
(***************************************************************************)
after_watermark(marks, p, v) == p # NULL /\ p \in DOMAIN marks /\ v > marks[p]
after_partition(c) == IF c.after = NULL THEN NULL ELSE c.after.partition

\* Mutated form: a change is applied only where its after-image lands.
previous_needed_by_after(marks, c) == after_watermark(marks, after_partition(c), c.version)

previous_needed(marks, c) == after_watermark(marks, c.prev, c.version)
next_needed(marks, c) == after_watermark(marks, after_partition(c), c.version)

poisoned(query, c) ==
  mode = "PushdownPoison" /\ query.status # NULL /\ (c.after = NULL \/ c.after.status # query.status)

overlay(bases, marks, changes, target, query) ==
  LET at(rows, p, i) == {r \in rows : r.partition = p /\ r.id = i}
      moved(c) == c.after # NULL /\ c.prev # c.after.partition
      step(rows, c) ==
        IF c.version > target \/ (~previous_needed(marks, c) /\ ~next_needed(marks, c)) \/ poisoned(query, c)
        THEN rows
        ELSE LET kept == IF previous_needed(marks, c) /\ ~(mode = "SchemaPartitionMove" /\ moved(c))
                         THEN rows \ at(rows, c.prev, c.id) ELSE rows
             IN IF next_needed(marks, c)
                THEN (kept \ at(kept, c.after.partition, c.id)) \cup {c.after} ELSE kept
  IN FoldLeft(step, bases, changes)

(***************************************************************************)
(* okv-htap: overlay_batches over a single watermark.                      *)
(***************************************************************************)
\* decode_tail_batch keeps the newest effect of each id at or below the target.
latest(tail, target) ==
  {c \in ToSet(tail) : c.version <= target
                       /\ \A d \in ToSet(tail) : d.id = c.id /\ d.version <= target => d.version <= c.version}

overlay_batches(rows, tail, target) ==
  LET effects == {c \in latest(tail, target) :
                    ~(mode = "PushdownBeforeInvalidation" /\ (c.after = NULL \/ c.after.status # "OPEN"
                                                              \/ c.after.partition # 2))}
      hidden(r, c) ==
        /\ r.id = c.id
        /\ mode = "PartitionLocalReduction" => r.partition = (IF c.after = NULL THEN c.prev ELSE c.after.partition)
  IN IF mode = "ProjectPrimaryKeyEarly" THEN rows
     ELSE {r \in rows : \A c \in effects : ~hidden(r, c)} \cup {c.after : c \in {d \in effects : d.after # NULL}}

(***************************************************************************)
(* okv-htap: the streaming merge over ordered base rows and ordered tail   *)
(* rows, the latter in batches.                                            *)
(***************************************************************************)
snapshot_available(marks, target, coverage) ==
  \A p \in DOMAIN marks : marks[p] <= target /\ target <= coverage

MarkValues(marks) == {marks[p] : p \in DOMAIN marks}

lower_bound(marks) ==
  IF mode = "StartTailAtMaximumWatermark" THEN Max(MarkValues(marks)) ELSE Min(MarkValues(marks))

\* The cursors refuse a row that sorts before the one it follows.
base_ordered(rows) ==
  \A k \in 1..(Len(rows) - 1) :
    rows[k].id < rows[k + 1].id \/ (rows[k].id = rows[k + 1].id /\ rows[k].partition <= rows[k + 1].partition)
tail_ordered(tail) ==
  \A k \in 1..(Len(tail) - 1) :
    tail[k].id < tail[k + 1].id \/ (tail[k].id = tail[k + 1].id /\ tail[k].version <= tail[k + 1].version)
input_refused(rows, tail) == mode # "AcceptUnsortedInput" /\ ~(base_ordered(rows) /\ tail_ordered(tail))

\* A tail row carries the number of its batch.
next_rows(tail, low, target) == SelectSeq(tail, LAMBDA c : c.version > low /\ c.version <= target)

MergeState(rows, tail, marks, target) ==
  [base |-> rows, tail |-> next_rows(tail, lower_bound(marks), target),
   pending |-> <<>>, emitted |-> <<>>, batches |-> 0, done |-> FALSE,
   error |-> input_refused(rows, tail)]

\* How many leading elements belong to the group of `id`.
leading(s, id) == Cardinality({k \in 1..Len(s) : \A j \in 1..k : s[j].id = id})
group_tail(tail, id) ==
  IF mode = "ResetGroupAtBatchBoundary"
  THEN Cardinality({k \in 1..Len(tail) : \A j \in 1..k : tail[j].id = id /\ tail[j].batch = tail[1].batch})
  ELSE leading(tail, id)

\* The smaller of the two lookahead ids is one group: its newest effect, or the
\* base rows when it has none.
next_group(m) ==
  LET heads == (IF m.base = <<>> THEN {} ELSE {Head(m.base).id}) \cup (IF m.tail = <<>> THEN {} ELSE {Head(m.tail).id})
      id    == Min(heads)
      nb    == leading(m.base, id)
      nt    == group_tail(m.tail, id)
      own   == SubSeq(m.base, 1, nb)
      rows  == IF nt = 0 THEN own ELSE IF m.tail[nt].after = NULL THEN <<>> ELSE <<m.tail[nt].after>>
      twice == nt = 0 /\ \E j, k \in 1..nb : j # k /\ own[j].partition = own[k].partition
  IN [m EXCEPT !.base = SubSeq(@, nb + 1, Len(@)), !.tail = SubSeq(@, nt + 1, Len(@)),
               !.pending = rows, !.error = @ \/ nb + nt > MaxGroup \/ twice]

exhausted(m) == m.base = <<>> /\ m.tail = <<>>

RECURSIVE fill_output(_, _)
fill_output(m, output) ==
  IF m.error \/ Len(output) = OutputRows \/ (m.pending = <<>> /\ exhausted(m))
  THEN [state |-> m, output |-> output]
  ELSE IF m.pending # <<>> THEN fill_output([m EXCEPT !.pending = Tail(@)], Append(output, Head(m.pending)))
  ELSE fill_output(next_group(m), output)

next_output_batch(m) ==
  LET f == fill_output(m, <<>>)
  IN IF f.state.error THEN f.state
     ELSE IF f.output = <<>> THEN [f.state EXCEPT !.done = TRUE]
     ELSE [f.state EXCEPT !.emitted = @ \o f.output, !.batches = @ + 1]

RECURSIVE drained(_)
drained(m) == IF m.done \/ m.error THEN m ELSE drained(next_output_batch(m))

\* The materializing control runs the same merge to the end and emits one batch.
executed(rows, tail, marks, target) ==
  LET m == drained(MergeState(rows, tail, marks, target))
  IN IF mode = "MaterializeInputs" THEN [m EXCEPT !.batches = 1] ELSE m

(***************************************************************************)
(* Free part: changes are committed, a scan is opened and streamed, its    *)
(* client suspends it and continues it elsewhere.                          *)
(***************************************************************************)
before(a, b) == a.id < b.id \/ (a.id = b.id /\ a.partition < b.partition)
sorted_base(rows) == SortSeq(SetToSeq(rows), before)
rows_now == writer_rows_at({}, history, Len(history))

\* Effects of one id in version order, cut into batches at `cuts`.
sorted_tail(cuts) ==
  LET indexed == SortSeq([k \in 1..Len(history) |-> history[k]],
                         LAMBDA a, b : a.id < b.id \/ (a.id = b.id /\ a.version < b.version))
  IN [k \in 1..Len(indexed) |->
        [version |-> indexed[k].version, id |-> indexed[k].id, after |-> indexed[k].after,
         batch |-> Cardinality({c \in cuts : c < k})]]

Write(i, after) ==
  LET old == {r \in rows_now : r.id = i}
      v   == Len(history) + 1
  IN /\ part = "free" /\ v <= MaxVersion
     /\ old = {} => after # NULL
     /\ history' = Append(history, Change(v, i, IF old = {} THEN NULL ELSE (CHOOSE r \in old : TRUE).partition,
                                          IF after = NULL THEN NULL ELSE Row(i, after, "OPEN", v)))
     /\ UNCHANGED <<part, mode, scan, merge, token, failed>>

Marks == [Partitions -> 0..Len(history)]

Scan(marks, target, cuts) ==
  /\ part = "free" /\ scan = NULL /\ token = NULL
  /\ snapshot_available(marks, target, Len(history))
  /\ scan' = [target |-> target, marks |-> marks]
  /\ merge' = MergeState(sorted_base(base({}, history, marks)), sorted_tail(cuts), marks, target)
  /\ UNCHANGED <<part, mode, history, token, failed>>

NextOutputBatch ==
  /\ part = "free" /\ scan # NULL /\ ~merge.done /\ ~merge.error
  /\ merge' = next_output_batch(merge)
  /\ UNCHANGED <<part, mode, history, scan, token, failed>>

Token(target, rows) == [identity |-> target, last |-> rows[Len(rows)], rows |-> rows]

Suspend ==
  /\ part = "free" /\ scan # NULL /\ token = NULL /\ merge.emitted # <<>>
  /\ token' = Token(scan.target, merge.emitted)
  /\ scan' = NULL /\ merge' = NULL
  /\ UNCHANGED <<part, mode, history, failed>>

\* The same snapshot identity is required; the rows up to the last key are
\* filtered from a fresh scan over the bases of the moment.
validate(t, target) == t.identity = target
Continue(marks, target, cuts) ==
  /\ part = "free" /\ scan = NULL /\ token # NULL /\ validate(token, target)
  /\ snapshot_available(marks, target, Len(history))
  /\ scan' = [target |-> target, marks |-> marks]
  /\ LET m == drained(MergeState(sorted_base(base({}, history, marks)), sorted_tail(cuts), marks, target))
     IN merge' = [m EXCEPT !.emitted = token.rows \o SelectSeq(@, LAMBDA r : before(token.last, r))]
  /\ UNCHANGED <<part, mode, history, token, failed>>

(***************************************************************************)
(* The three drivers.  EAST sorts before WEST.                             *)
(***************************************************************************)
EAST == 1
WEST == 2
AllRows == [status |-> NULL]
HtapModes == {"Correct", "PushdownPoison", "SchemaPartitionMove", "WalPopConflation", "LeaseGcRace", "CertificateToctou"}
PhysicalModes == {"Correct", "PushdownBeforeInvalidation", "PartitionLocalReduction", "ProjectPrimaryKeyEarly"}
StreamingModes == {"Correct", "MaterializeInputs", "ResetGroupAtBatchBoundary", "StartTailAtMaximumWatermark",
                   "RebaseContinuationTarget", "AcceptUnsortedInput"}

top_amount(rows) == {r.amount : r \in {x \in rows : \A y \in rows : y.amount <= x.amount}}
OnlyOpen(rows) == {r \in rows : r.status = "OPEN"}

pushdown_poison ==
  LET initial == {Row(1, WEST, "OPEN", 100), Row(2, WEST, "OPEN", 90)}
      changes == <<Change(11, 1, WEST, Row(1, WEST, "CLOSED", 100)), Change(12, 3, NULL, Row(3, WEST, "OPEN", 80))>>
      marks   == (WEST :> 10)
      result  == overlay(base(initial, changes, marks), marks, changes, 12, [status |-> "OPEN"])
  IN top_amount(OnlyOpen(result)) = top_amount(OnlyOpen(writer_rows_at(initial, changes, 12)))

schema_partition_move ==
  LET initial == {Row(7, WEST, "OPEN", 500)}
      changes == <<Change(11, 7, WEST, Row(7, EAST, "OPEN", 505))>>
      marks   == (WEST :> 10) @@ (EAST :> 9)
  IN overlay(base(initial, changes, marks), marks, changes, 12, AllRows) = writer_rows_at(initial, changes, 12)

wal_pop_conflation ==
  LET initial  == {Row(9, WEST, "OPEN", 40)}
      changes  == <<Change(21, 9, WEST, Row(9, WEST, "OPEN", 60))>>
      retained == IF mode = "WalPopConflation" THEN <<>> ELSE changes
      marks    == (WEST :> 20)
  IN overlay(base(initial, changes, marks), marks, retained, 25, AllRows) = writer_rows_at(initial, changes, 25)

lease_gc_race ==
  LET initial == {Row(11, WEST, "OPEN", 100)}
      changes == <<Change(11, 11, WEST, Row(11, WEST, "OPEN", 120)), Change(15, 11, WEST, Row(11, WEST, "OPEN", 150))>>
      rebased == mode = "LeaseGcRace"
      marks   == (WEST :> IF rebased THEN 15 ELSE 10)
      result  == overlay(base(initial, changes, marks), marks, IF rebased THEN <<>> ELSE changes, 12, AllRows)
  IN ~rebased /\ result = writer_rows_at(initial, changes, 12)

\* Exposure 80 with orders of 10 and 15 against a limit of 100; the token moved.
certificate_toctou ==
  LET retry == mode # "CertificateToctou" /\ (30 # 31 \/ 80 + 10 + 15 > 100)
  IN retry

multi_table_snapshot ==
  LET orders    == <<Change(12, 21, WEST, Row(21, WEST, "OPEN", 70))>>
      customers == <<Change(13, 42, EAST, Row(42, EAST, "OPEN", 0))>>
      exact(initial, changes, marks) ==
        overlay(base(initial, changes, marks), marks, changes, 14, AllRows) = writer_rows_at(initial, changes, 14)
  IN exact({Row(21, WEST, "OPEN", 50)}, orders, WEST :> 10) /\ exact({Row(42, EAST, "OPEN", 0)}, customers, EAST :> 11)

htap_failures ==
  {k \in 1..6 : ~(<<pushdown_poison, schema_partition_move, wal_pop_conflation, lease_gc_race,
                    certificate_toctou, multi_table_snapshot>>[k])}

PhysicalBase == {Row(1, WEST, "OPEN", 100), Row(2, WEST, "OPEN", 90), Row(7, WEST, "OPEN", 500)}
PhysicalTail ==
  <<Change(8, 1, WEST, Row(1, WEST, "CLOSED", 100)), Change(9, 2, WEST, NULL),
    Change(10, 3, NULL, Row(3, WEST, "OPEN", 80)), Change(11, 7, WEST, Row(7, EAST, "OPEN", 505))>>

physical_failures ==
  LET rows == overlay_batches(PhysicalBase, PhysicalTail, 12)
      open_west == {r \in OnlyOpen(rows) : r.partition = WEST}
      checks == <<top_amount(open_west) = {80},
                  {r \in rows : r.id = 7} = {Row(7, EAST, "OPEN", 505)},
                  Cardinality(rows) = 3 /\ {r.amount : r \in rows} = {80, 100, 505}>>
  IN {k \in 1..3 : ~checks[k]}

StreamBase ==
  <<Row(1, WEST, "OPEN", 100), Row(2, WEST, "OPEN", 90), Row(4, EAST, "OPEN", 200), Row(5, EAST, "CLOSED", 300),
    Row(6, EAST, "OPEN", 60), Row(7, WEST, "OPEN", 500), Row(8, WEST, "OPEN", 40)>>
Effect(b, v, i, after) == [batch |-> b, version |-> v, id |-> i, after |-> after]
StreamTail(unsorted) ==
  LET moved   == Effect(4, 11, 7, Row(7, EAST, "OPEN", 505))
      changed == Effect(4, 6, 8, Row(8, WEST, "OPEN", 45))
  IN <<Effect(1, 8, 1, Row(1, WEST, "CLOSED", 100)), Effect(2, 12, 1, Row(1, WEST, "CLOSED", 110)),
       Effect(2, 9, 2, NULL), Effect(3, 10, 3, Row(3, WEST, "OPEN", 80)), Effect(3, 12, 4, Row(4, EAST, "OPEN", 210)),
       Effect(3, 7, 6, Row(6, EAST, "OPEN", 60))>>
     \o (IF unsorted THEN <<changed, moved>> ELSE <<moved, changed>>)
     \o <<Effect(4, 13, 9, Row(9, WEST, "OPEN", 70))>>
StreamMarks == (WEST :> 5) @@ (EAST :> 8)
StreamExpected ==
  <<Row(1, WEST, "CLOSED", 110), Row(3, WEST, "OPEN", 80), Row(4, EAST, "OPEN", 210), Row(5, EAST, "CLOSED", 300),
    Row(6, EAST, "OPEN", 60), Row(7, EAST, "OPEN", 505), Row(8, WEST, "OPEN", 45)>>

streaming_failures ==
  LET scanned   == executed(StreamBase, StreamTail(FALSE), StreamMarks, 12)
      rows      == scanned.emitted
      of(i)     == SelectSeq(rows, LAMBDA r : r.id = i)
      requested == IF mode = "RebaseContinuationTarget" THEN 13 ELSE 12
      continued == SelectSeq(executed(StreamBase, StreamTail(FALSE), StreamMarks, requested).emitted,
                             LAMBDA r : before(StreamExpected[4], r))
      checks    == <<top_amount({r \in OnlyOpen(ToSet(rows)) : r.partition = WEST}) = {80},
                     of(7) = <<StreamExpected[6]>>, of(8) = <<StreamExpected[7]>>, of(1) = <<StreamExpected[1]>>,
                     rows = StreamExpected,
                     validate([identity |-> 12], requested) /\ continued = SubSeq(StreamExpected, 5, 7),
                     executed(StreamBase, StreamTail(TRUE), StreamMarks, 12).error,
                     mode # "MaterializeInputs" /\ scanned.batches > 1>>
  IN {k \in 1..8 : ~checks[k]}

RunContract ==
  /\ part # "free" /\ failed = NULL
  /\ failed' = CASE part = "htap" -> htap_failures
                 [] part = "physical" -> physical_failures
                 [] part = "streaming" -> streaming_failures
  /\ UNCHANGED <<part, mode, history, scan, merge, token>>

OverlayInit ==
  /\ part \in {"free", "htap", "physical", "streaming"}
  /\ mode \in CASE part = "free" -> {"Correct"} [] part = "htap" -> HtapModes
                [] part = "physical" -> PhysicalModes [] part = "streaming" -> StreamingModes
  /\ history = <<>> /\ scan = NULL /\ merge = NULL /\ token = NULL /\ failed = NULL

OverlayNext ==
  \/ \E i \in Ids, after \in Partitions \cup {NULL} : Write(i, after)
  \/ \E marks \in Marks, target \in 0..Len(history), cuts \in SUBSET (1..(Len(history) - 1)) :
       Scan(marks, target, cuts) \/ Continue(marks, target, cuts)
  \/ NextOutputBatch \/ Suspend \/ RunContract

OverlaySpec == OverlayInit /\ [][OverlayNext]_vars

-----------------------------------------------------------------------------
\* Both whole-input overlays give the rows of the target version from bases at
\* any admissible watermarks, the second from any tail that starts at or below
\* its watermark (rows that moved between partitions included).
OverlayExact ==
  part = "free" /\ scan = NULL /\ token = NULL =>
    \A target \in 0..Len(history) :
      LET expected == writer_rows_at({}, history, target)
      IN /\ \A marks \in [Partitions -> 0..target] :
              overlay(base({}, history, marks), marks, history, target, AllRows) = expected
         /\ \A mark \in 0..target, popped \in 0..target :
              popped <= mark => overlay_batches(writer_rows_at({}, history, mark),
                                                SubSeq(history, popped + 1, Len(history)), target) = expected

\* What a streamed scan has emitted is a prefix of the target's rows in key
\* order, and all of them once it is done: also across a continuation over
\* other bases, whatever was committed meanwhile.
StreamExact ==
  part = "free" /\ scan # NULL /\ ~merge.error =>
    LET expected == sorted_base(writer_rows_at({}, history, scan.target))
    IN IsPrefix(merge.emitted, expected) /\ (merge.done => merge.emitted = expected)

\* Each driver reports an anomaly exactly under a control
\* (poisoned_subjects_are_detected, every_streaming_negative_control_is_detected).
OverlayDetects == failed # NULL => ((failed = {}) <=> (mode = "Correct"))
=============================================================================
