----------------------------- MODULE RaftStorage -----------------------------
(***************************************************************************)
(* The stable storage of one consensus process: the node journal           *)
(* (okv-wal/src/node_journal.rs), the OpenRaft log adapter over it          *)
(* (okv-consensus/src/lib.rs) and the state machine with its snapshot file  *)
(* (okv-consensus/src/state_machine.rs).  OpenRaft itself is external: it   *)
(* is the caller that appends, commits, applies, builds and installs        *)
(* snapshots and purges, in the order its storage contract allows.          *)
(***************************************************************************)
EXTENDS Integers, Sequences, SequencesExt, FiniteSets

CONSTANTS
  Log,              \* the commands the cluster commits, in log order
  Stale,            \* an entry of a deposed leader, never committed
  MaxBatch,         \* bound: entries of one append call
  MaxVote,          \* bound: votes this process grants
  ConcurrentBuild,  \* the caller may install while a snapshot is being built
  None

VARIABLES
  disk,      \* what replay() of raft.journal returns now
  up,        \* the process runs
  data,      \* StateMachineData, in memory
  snap,      \* the snapshot file, or None
  snapmeta,  \* the snapshot position the caller believes durable
  building,  \* the clone a running build_snapshot holds, or None
  voted,     \* ghost: the last vote whose save returned
  promised,  \* ghost: committed entries whose append was acknowledged
  answered   \* ghost: the responses apply() handed out

storageVars == <<disk, up, data, snap, snapmeta, building, voted, promised, answered>>

Indices == 1 .. Len(Log)
MaxOf(S) == CHOOSE x \in S : \A y \in S : y <= x

-----------------------------------------------------------------------------
(* The node journal.                                                       *)

EmptyJournal == [vote |-> 0, committed |-> 0, purged |-> 0, entries |-> <<>>]

last_index(j) == IF DOMAIN j.entries = {} THEN j.purged ELSE MaxOf(DOMAIN j.entries)

Keep(f, S) == [i \in DOMAIN f \cap S |-> f[i]]
Bind(f, i, x) == [k \in DOMAIN f \cup {i} |-> IF k = i THEN x ELSE f[k]]

\* One record applied to the journal's state; the planner only emits records
\* the checks of the code accept.
apply_record(j, r) ==
  CASE r.kind = "vote"     -> [j EXCEPT !.vote = r.at]
    [] r.kind = "commit"   -> [j EXCEPT !.committed = r.at]
    [] r.kind = "append"   -> [j EXCEPT !.entries = Bind(@, r.at, r.entry)]
    [] r.kind = "truncate" -> [j EXCEPT !.entries = Keep(@, 0 .. r.at - 1)]
    [] r.kind = "purge"    -> [j EXCEPT !.purged = r.at,
                                        !.entries = Keep(@, r.at + 1 .. Len(Log))]

Record(kind, at, entry) == [kind |-> kind, at |-> at, entry |-> entry]

\* Entries at or below the purged marker are skipped, a batch that begins
\* inside the log truncates first, in the same batch of records.
plan_append(j, first, batch) ==
  LET from == IF first > j.purged THEN first ELSE j.purged + 1
      appends == [k \in 1 .. Len(batch) - (from - first) |->
                    Record("append", from + k - 1, batch[from - first + k])]
  IN IF appends = <<>> THEN <<>>
     ELSE IF from <= last_index(j)
          THEN <<Record("truncate", from, None)>> \o appends
          ELSE appends

\* A batch must follow the log without a gap.
validate_append(j, first, batch) == batch # <<>> /\ first <= last_index(j) + 1

replay(j, records) == FoldLeft(apply_record, j, records)

\* Mutant: the call returns before the batch is synced.
persist_unsynced(records, n) ==
  /\ disk' = replay(disk, SubSeq(records, 1, n))
  /\ up' = TRUE

\* The frames of one batch are written one after another and synced once: a
\* process that dies in the call leaves some prefix of them, and open() drops
\* the torn frame behind it.
persist_batch(records, n) ==
  /\ disk' = replay(disk, SubSeq(records, 1, n))
  /\ up' = (n = Len(records))

Written(records) == 0 .. Len(records)

-----------------------------------------------------------------------------
(* The state machine.                                                      *)

EmptyState == [applied |-> 0, generation |-> 0, effects |-> <<>>, outcomes |-> <<>>]

request_fingerprint(c) == <<c.kind, c.payload, c.generation>>

authorizes(s, c) == s.generation # 0 /\ c.generation = s.generation

generation_fenced(s, c) == s.generation # 0 /\ ~authorizes(s, c)

\* Mutant: a retry is answered with its own log position.
recovered_here(s, c, i) ==
  IF s.outcomes[c.id].print = request_fingerprint(c)
  THEN [s.outcomes[c.id].response EXCEPT !.index = i]
  ELSE [index |-> i, status |-> "conflicting"]

\* A request identity seen before is answered from the retained outcome when
\* the bytes are the same, and refused when they are not.
recovered(s, c, i) ==
  IF s.outcomes[c.id].print = request_fingerprint(c)
  THEN s.outcomes[c.id].response
  ELSE [index |-> i, status |-> "conflicting"]

retain(s, c, i, status) ==
  [s EXCEPT !.outcomes =
     Bind(@, c.id, [print |-> request_fingerprint(c),
                    response |-> [index |-> i, status |-> status]])]

\* A generation command advances the authority; the outcome of a refused one
\* is retained as well.
apply_generation(s, c, i) ==
  LET ok == c.payload = s.generation + 1
  IN retain([s EXCEPT !.generation = IF ok THEN c.payload ELSE @],
            c, i, IF ok THEN "accepted" ELSE "rejected")

fenced_or_performed(s, c, i, fenced) ==
  retain([s EXCEPT !.effects = IF fenced THEN @ ELSE Append(@, <<c.id, c.payload>>)],
         c, i, IF fenced THEN "fenced" ELSE "applied")

\* Publications are fenced before the first generation too.
apply_publication(s, c, i) == fenced_or_performed(s, c, i, ~authorizes(s, c))

\* Staged commands, cell commands and client commands.
apply_transaction(s, c, i) == fenced_or_performed(s, c, i, generation_fenced(s, c))

\* One committed entry.
apply(s, c, i) ==
  LET t == [s EXCEPT !.applied = i]
  IN IF c.kind = "blank" THEN t
     ELSE IF c.id \in DOMAIN s.outcomes THEN t
     ELSE IF c.kind = "generation" THEN apply_generation(t, c, i)
     ELSE IF c.kind = "publication" THEN apply_publication(t, c, i)
     ELSE apply_transaction(t, c, i)

\* What the client of entry c is told.
response_of(s, c, i) ==
  IF c.id \in DOMAIN s.outcomes THEN recovered(s, c, i)
  ELSE apply(s, c, i).outcomes[c.id].response

\* The state every replica has after the first n committed entries.
StateAfter[n \in 0 .. Len(Log)] ==
  IF n = 0 THEN EmptyState ELSE apply(StateAfter[n - 1], Log[n], n)

-----------------------------------------------------------------------------
(* The process and its caller.                                             *)

StorageInit ==
  /\ disk = EmptyJournal /\ up = TRUE /\ data = EmptyState
  /\ snap = None /\ snapmeta = 0 /\ building = None
  /\ voted = 0 /\ promised = {} /\ answered = {}

SaveVote ==
  /\ up /\ disk.vote < MaxVote
  /\ LET records == <<Record("vote", disk.vote + 1, None)>>
     IN \E n \in Written(records) :
          /\ persist_batch(records, n)
          /\ voted' = IF up' THEN disk.vote + 1 ELSE voted
  /\ UNCHANGED <<data, snap, snapmeta, building, promised, answered>>

\* The batches a leader sends: committed entries, or a deposed leader's.
Batches(first) ==
  {b \in UNION {[1 .. n -> Indices \cup {0}] : n \in 1 .. MaxBatch} :
     /\ first + Len(b) - 1 \in Indices
     /\ \A k \in DOMAIN b : b[k] \in {0, first + k - 1}
     /\ \A k \in DOMAIN b : k > 1 /\ b[k - 1] = 0 => b[k] = 0}

EntryOf(k) == IF k = 0 THEN Stale ELSE Log[k]

\* The caller sends what the log does not hold yet: it skips the entries that
\* match, so a batch starts at the end of the log or at a conflict.
first_conflicting(first, batch) ==
  \/ first = last_index(disk) + 1
  \/ first \in DOMAIN disk.entries /\ disk.entries[first] # batch[1]

AppendEntries ==
  /\ up
  /\ \E first \in Indices : \E b \in Batches(first) :
       LET batch == [k \in DOMAIN b |-> EntryOf(b[k])]
           records == plan_append(disk, first, batch)
       IN /\ first > disk.committed /\ first > data.applied
          /\ batch[1] = Stale => first = last_index(disk) + 1
          /\ batch[1] # Stale => ~(first - 1 \in DOMAIN disk.entries /\ disk.entries[first - 1] = Stale)
          /\ validate_append(disk, first, batch) /\ first_conflicting(first, batch)
          /\ \E n \in Written(records) :
               /\ persist_batch(records, n)
               /\ promised' = (promised \ (first .. Len(Log)))
                                \cup IF up' THEN {b[k] : k \in DOMAIN b} \ {0} ELSE {}
  /\ UNCHANGED <<data, snap, snapmeta, building, voted, answered>>

Truncate ==
  /\ up
  /\ \E i \in DOMAIN disk.entries :
       /\ disk.entries[i] = Stale
       /\ \E n \in 0 .. 1 :
            persist_batch(<<Record("truncate", i, None)>>, n)
  /\ UNCHANGED <<data, snap, snapmeta, building, voted, promised, answered>>

\* The caller learns of the commit position and saves it before it applies.
SaveCommitted ==
  /\ up
  /\ \E c \in DOMAIN disk.entries :
       /\ c > disk.committed
       /\ \A i \in DOMAIN disk.entries : i <= c => disk.entries[i] = Log[i]
       /\ \E n \in 0 .. 1 : persist_batch(<<Record("commit", c, None)>>, n)
  /\ UNCHANGED <<data, snap, snapmeta, building, voted, promised, answered>>

\* The caller hands the next committed entry of the log to the state machine.
Apply ==
  /\ up
  /\ LET i == data.applied + 1
     IN /\ i <= disk.committed /\ i \in DOMAIN disk.entries
        /\ data' = apply(data, disk.entries[i], i)
        /\ answered' = IF disk.entries[i].kind = "blank" THEN answered
                       ELSE answered \cup
                         {[id |-> disk.entries[i].id,
                           print |-> request_fingerprint(disk.entries[i]),
                           response |-> response_of(data, disk.entries[i], i)]}
  /\ UNCHANGED <<disk, up, snap, snapmeta, building, voted, promised>>

\* build_snapshot clones the state under the read lock and then persists the
\* clone with no lock held: entries may be applied in between.
BuildSnapshot ==
  /\ up /\ building = None /\ data.applied > snapmeta
  /\ building' = data
  /\ UNCHANGED <<disk, up, data, snap, snapmeta, voted, promised, answered>>

FinishSnapshot ==
  /\ up /\ building # None
  /\ snap' = building /\ building' = None
  /\ snapmeta' = MaxOf({snapmeta, building.applied})
  /\ UNCHANGED <<disk, up, data, voted, promised, answered>>

\* A leader's snapshot: validated, renamed into place, then made current.
InstallSnapshot ==
  /\ up /\ (ConcurrentBuild \/ building = None)
  /\ \E n \in Indices :
       /\ n > data.applied /\ n > disk.committed
       /\ snap' = StateAfter[n]
       /\ \/ data' = StateAfter[n] /\ snapmeta' = n /\ up' = TRUE
          \/ up' = FALSE /\ UNCHANGED <<data, snapmeta>>
  /\ UNCHANGED <<disk, building, voted, promised, answered>>

\* The caller purges what its snapshot covers.
Purge ==
  /\ up /\ snapmeta > disk.purged
  /\ \E n \in 0 .. 1 : persist_batch(<<Record("purge", snapmeta, None)>>, n)
  /\ UNCHANGED <<data, snap, snapmeta, building, voted, promised, answered>>

Crash ==
  /\ up /\ up' = FALSE
  /\ UNCHANGED <<disk, data, snap, snapmeta, building, voted, promised, answered>>

load_snapshot(file) == IF file = None THEN EmptyState ELSE file

\* The journal is replayed and the snapshot loaded; the caller re-applies the
\* committed entries behind it, and drops a log the snapshot has overtaken.
Open ==
  /\ ~up /\ up' = TRUE
  /\ data' = load_snapshot(snap)
  /\ snapmeta' = load_snapshot(snap).applied
  /\ building' = None
  /\ UNCHANGED <<disk, snap, voted, promised, answered>>

StorageNext ==
  \/ SaveVote \/ AppendEntries \/ Truncate \/ SaveCommitted \/ Apply
  \/ BuildSnapshot \/ FinishSnapshot \/ InstallSnapshot \/ Purge
  \/ Crash \/ Open

StorageSpec == StorageInit /\ [][StorageNext]_storageVars

-----------------------------------------------------------------------------
\* What a save or append acknowledged is in the journal whatever prefix of
\* which later batch a crash left behind: the vote, and every acknowledged
\* entry that was not superseded.
AckedDurable ==
  /\ voted <= disk.vote
  /\ \A i \in promised :
       i <= disk.purged \/ (i \in DOMAIN disk.entries /\ disk.entries[i] = Log[i])

\* A running process holds exactly the state of the committed prefix it says
\* it applied, however often it crashed, replayed, snapshotted and purged, and
\* the log still holds what it has to apply next.
ReplayExact ==
  up => /\ data = StateAfter[data.applied]
        /\ \A i \in data.applied + 1 .. disk.committed :
             i \in DOMAIN disk.entries /\ disk.entries[i] = Log[i]

\* The same request is given the same answer, before and after restarts, and
\* whether it is the first entry, a retry behind it or a replay of either; and
\* no request identity takes effect twice.
RequestsOnce ==
  /\ \A a, b \in answered : a.id = b.id /\ a.print = b.print => a.response = b.response
  /\ \A i, j \in DOMAIN data.effects :
       data.effects[i][1] = data.effects[j][1] => i = j
=============================================================================
