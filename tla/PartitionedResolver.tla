------------------------- MODULE PartitionedResolver -------------------------
(***************************************************************************)
(* Conflict resolution by range-partitioned resolver processes             *)
(* (okv-consensus/src/partitioned_resolver.rs) in front of the replicated   *)
(* transaction authority (cell_transaction.rs).  MemoryOnly = FALSE is the  *)
(* durable prepare / finalize protocol of RFC-0048, MemoryOnly = TRUE the   *)
(* stateless one of RFC-0049 in which the loss of a resolver replaces the   *)
(* transaction-system generation.  A conflict range is the set of keys it   *)
(* covers.                                                                  *)
(***************************************************************************)
EXTENDS Integers, Sequences, FiniteSets

CONSTANTS
  Partition,     \* resolver -> the keys it owns (the frozen resolver map)
  Shapes,        \* [reads, writes] of the transactions clients submit
  MaxCandidate,  \* bound: candidate sequences handed out
  MaxInFlight,   \* bound: undecided candidates of one controller batch
  MaxGeneration, \* bound: transaction-system generations
  MemoryOnly,    \* ResolverProcessConfig.memory_only
  LateCommits    \* a complete resolution may reach the authority after the fence

VARIABLES
  state,      \* resolver -> its ResolverState in memory, and its configuration
  journal,    \* resolver -> resolver-state.json
  txs,        \* candidate -> the transaction and the replies its proxy holds
  log,        \* the committed candidates, in commit order
  last,       \* the authority's last resolver candidate and its generation
  generation  \* the running transaction-system generation

resolverVars == <<state, journal, txs, log, last, generation>>

Resolvers == DOMAIN Partition
Candidates == DOMAIN txs

MaxIn(S) == CHOOSE x \in S : \A y \in S : y <= x

-----------------------------------------------------------------------------
(* Routing.                                                                *)

\* The intersection of a conflict range with the resolver's owned range.
clip_ranges(keys, r) == keys \cap Partition[r]

\* Every partition that a read or a write conflict overlaps.
required_resolvers(shape) ==
  {r \in Resolvers : clip_ranges(shape.reads \cup shape.writes, r) # {}}

\* The commit sequence a conflict index is keyed by: the authority's log
\* position under the durable protocol, the candidate under the stateless one.
SequenceOf(position) ==
  IF position = 0 THEN 0 ELSE IF MemoryOnly THEN log[position] ELSE position

-----------------------------------------------------------------------------
(* The resolver process.                                                   *)

ResolverState(g, floor) ==
  [up |-> TRUE, generation |-> g, minimum_read_sequence |-> floor,
   last_candidate |-> 0, prepared |-> {}, committed_writes |-> {}]

\* A signed statement; `finalized` is the journal's flag beside it.
Statement(c, g, decision) == [candidate |-> c, generation |-> g, decision |-> decision]

Prepared(statement, finalized) == [statement |-> statement, finalized |-> finalized]

Writes(sequence, keys) == {[sequence |-> sequence, key |-> k] : k \in keys}

\* Conflict iff a read overlaps a committed write newer than the read sequence.
local_decision(st, r, tx) ==
  IF \E w \in st.committed_writes : /\ w.sequence > tx.resolver_read_sequence
                                    /\ w.key \in clip_ranges(tx.shape.reads, r)
  THEN "Conflict" ELSE "Accept"

\* What a restarted process knows: the journal, or nothing.
load_resolver_state(r) ==
  IF MemoryOnly THEN [state[r] EXCEPT !.up = FALSE] ELSE journal[r]

prepare_admissible(r, c) ==
  /\ state[r].up
  /\ txs[c].generation = state[r].generation
  /\ txs[c].resolver_read_sequence >= state[r].minimum_read_sequence

\* Mutation: a candidate is resolved before the prior one has its outcome.
new_candidate_unordered(r, c) ==
  /\ \A p \in state[r].prepared : p.statement.candidate # c
  /\ c > state[r].last_candidate

\* A candidate the resolver has not seen: the durable protocol waits for the
\* global disposition of every earlier one.
new_candidate(r, c) ==
  /\ \A p \in state[r].prepared : p.statement.candidate # c
  /\ MemoryOnly \/ \A p \in state[r].prepared : p.finalized
  /\ c > state[r].last_candidate

\* The state after Prepare: the stateless resolver records an accepted write
\* at once, the durable one an unfinalized decision.
prepared_state(r, c) ==
  LET statement == Statement(c, txs[c].generation, local_decision(state[r], r, txs[c]))
  IN [state[r] EXCEPT
        !.last_candidate = c,
        !.prepared = @ \cup {Prepared(statement, MemoryOnly)},
        !.committed_writes = @ \cup
           IF MemoryOnly /\ statement.decision = "Accept"
           THEN Writes(c, clip_ranges(txs[c].shape.writes, r)) ELSE {}]

\* Mutation: the decision is signed before the journal holds it.
persist_skipped(r, st) == journal' = journal

\* resolver-state.json is replaced by rename; the stateless resolver has none.
persist_resolver_state(r, st) ==
  journal' = IF MemoryOnly THEN journal ELSE [journal EXCEPT ![r] = st]

-----------------------------------------------------------------------------
(* The controller: one commit proxy handing out candidates in order.        *)

Open == {c \in Candidates : txs[c].status = "open"}

\* A client reads the data of some committed position and takes the next
\* candidate; a generation's reads start at its recovery floor.
Begin(shape, position) ==
  LET c == Cardinality(Candidates) + 1
  IN /\ c <= MaxCandidate
     /\ Cardinality(Open) < MaxInFlight
     /\ SequenceOf(position) >= MaxIn({state[r].minimum_read_sequence : r \in Resolvers})
     /\ txs' = [x \in Candidates \cup {c} |->
                  IF x # c THEN txs[x]
                  ELSE [shape |-> shape, read_position |-> position,
                        resolver_read_sequence |-> SequenceOf(position),
                        generation |-> generation, replies |-> {}, status |-> "open",
                        finalized |-> {}]]
     /\ UNCHANGED <<state, journal, log, last, generation>>

\* Requests reach a resolver in candidate order (a batch is sent in order).
in_batch_order(r, c) ==
  \A d \in Open : d < c /\ txs[d].generation = txs[c].generation
                        /\ r \in required_resolvers(txs[d].shape)
                  => \E reply \in txs[d].replies : reply.resolver = r

Reply(c, r, statement) ==
  txs' = [txs EXCEPT ![c].replies = @ \cup {[resolver |-> r, statement |-> statement]}]

\* Prepare of a candidate not seen before, journalled before it is signed.
Prepare(r, c) ==
  /\ txs[c].status = "open" /\ r \in required_resolvers(txs[c].shape)
  /\ in_batch_order(r, c) /\ prepare_admissible(r, c) /\ new_candidate(r, c)
  /\ LET st == prepared_state(r, c)
         statement == Statement(c, txs[c].generation, local_decision(state[r], r, txs[c]))
     IN /\ state' = [state EXCEPT ![r] = st]
        /\ persist_resolver_state(r, st)
        /\ \/ Reply(c, r, statement)
           \/ txs' = txs              \* the response is lost
  /\ UNCHANGED <<log, last, generation>>

\* The journal write fails after the state in memory was changed.
PrepareFails(r, c) ==
  /\ ~ MemoryOnly
  /\ txs[c].status = "open" /\ r \in required_resolvers(txs[c].shape)
  /\ in_batch_order(r, c) /\ prepare_admissible(r, c) /\ new_candidate(r, c)
  /\ state' = [state EXCEPT ![r] = prepared_state(r, c)]
  /\ UNCHANGED <<journal, txs, log, last, generation>>

\* An exact retry is answered from memory with the recorded statement.
PrepareAgain(r, c) ==
  /\ txs[c].status = "open" /\ prepare_admissible(r, c)
  /\ \E p \in state[r].prepared : p.statement.candidate = c /\ Reply(c, r, p.statement)
  /\ UNCHANGED <<state, journal, log, last, generation>>

-----------------------------------------------------------------------------
(* The authority.                                                          *)

candidate_order_valid(c, g) ==
  IF g = last.generation THEN c = last.candidate + 1
  ELSE g > last.generation /\ c > last.candidate

\* Exactly one statement of every required resolver, all of generation g.
verify_partitioned_resolution(c, g) ==
  /\ {reply.resolver : reply \in txs[c].replies} = required_resolvers(txs[c].shape)
  /\ \A reply \in txs[c].replies : reply.statement.generation = g

combined(c) ==
  IF \E reply \in txs[c].replies : reply.statement.decision = "Conflict"
  THEN "Conflict" ELSE "Accept"

\* Resolutions are submitted in candidate order; one out of order is refused,
\* a conflict consumes the candidate.
Commit(c) ==
  /\ txs[c].status = "open"
  /\ \A d \in Open : txs[d].generation = txs[c].generation => c <= d
  /\ verify_partitioned_resolution(c, txs[c].generation)
  /\ LET valid == candidate_order_valid(c, txs[c].generation)
         accepted == valid /\ combined(c) = "Accept"
     IN /\ last' = IF valid THEN [candidate |-> c, generation |-> txs[c].generation] ELSE last
        /\ log' = IF accepted THEN Append(log, c) ELSE log
        /\ txs' = [txs EXCEPT ![c].status = IF accepted THEN "Committed"
                                            ELSE IF valid THEN "Conflict" ELSE "Refused"]
  /\ UNCHANGED <<state, journal, generation>>

-----------------------------------------------------------------------------
(* Finalization, restart and generation recovery.                          *)

PositionOf(c) == CHOOSE i \in 1 .. Len(log) : log[i] = c

\* Mutation: a conflicted transaction's writes enter the history too.
finalized_always(r, p) ==
  LET c == p.statement.candidate
  IN [state[r] EXCEPT
        !.prepared = (@ \ {p}) \cup {Prepared(p.statement, TRUE)},
        !.committed_writes = @ \cup
           Writes(Len(log) + 1, clip_ranges(txs[c].shape.writes, r))]

\* Only a committed transaction adds its clipped writes.
finalized_state(r, p) ==
  LET c == p.statement.candidate
  IN [state[r] EXCEPT
        !.prepared = (@ \ {p}) \cup {Prepared(p.statement, TRUE)},
        !.committed_writes = @ \cup
           IF txs[c].status = "Committed"
           THEN Writes(PositionOf(c), clip_ranges(txs[c].shape.writes, r)) ELSE {}]

Finalized(c, r) == txs' = [txs EXCEPT ![c].finalized = @ \cup {r}]

Finalize(r, c) ==
  /\ ~ MemoryOnly
  /\ txs[c].status \in {"Committed", "Conflict"} /\ r \notin txs[c].finalized
  /\ \E p \in state[r].prepared :
       /\ p.statement.candidate = c
       /\ IF p.finalized
          THEN UNCHANGED <<state, journal>> /\ Finalized(c, r)
          ELSE /\ state' = [state EXCEPT ![r] = finalized_state(r, p)]
               /\ persist_resolver_state(r, finalized_state(r, p))
               /\ Finalized(c, r) \/ txs' = txs
  /\ UNCHANGED <<log, last, generation>>

\* The journal write of a finalization fails after the state was changed.
FinalizeFails(r, c) ==
  /\ ~ MemoryOnly
  /\ txs[c].status \in {"Committed", "Conflict"} /\ r \notin txs[c].finalized
  /\ \E p \in state[r].prepared :
       /\ p.statement.candidate = c /\ ~ p.finalized
       /\ state' = [state EXCEPT ![r] = finalized_state(r, p)]
  /\ UNCHANGED <<journal, txs, log, last, generation>>

\* A resolver process is killed; under the durable protocol it restarts alone.
restart_resolver(r) ==
  /\ state[r].up /\ state[r] # load_resolver_state(r)
  /\ state' = [state EXCEPT ![r] = load_resolver_state(r)]
  /\ UNCHANGED <<journal, txs, log, last, generation>>

\* Mutation: the successor's floor leaves out the newest committed candidate.
floor_without_head ==
  IF Len(log) < 2 THEN 0 ELSE log[Len(log) - 1]

recovery_floor ==
  IF log = <<>> THEN 0 ELSE log[Len(log)]

\* After the loss of one resolver every resolver of the generation stops, the
\* open work is abandoned and empty successors start at the recovery floor.
start_resolvers ==
  /\ MemoryOnly /\ generation < MaxGeneration
  /\ \E r \in Resolvers : ~ state[r].up
  /\ generation' = generation + 1
  /\ state' = [r \in Resolvers |-> ResolverState(generation + 1, recovery_floor)]
  /\ txs' = [c \in Candidates |->
               IF \/ txs[c].status # "open"
                  \/ LateCommits /\ verify_partitioned_resolution(c, generation)
               THEN txs[c] ELSE [txs[c] EXCEPT !.status = "Abandoned"]]
  /\ UNCHANGED <<journal, log, last>>

\* The delayed reply of an abandoned transaction, submitted as new-generation work.
DelayedReply(c) ==
  /\ txs[c].status = "Abandoned" /\ txs[c].replies # {}
  /\ LET valid == /\ candidate_order_valid(c, generation)
                  /\ verify_partitioned_resolution(c, generation)
     IN /\ last' = IF valid THEN [candidate |-> c, generation |-> generation] ELSE last
        /\ log' = IF valid /\ combined(c) = "Accept" THEN Append(log, c) ELSE log
        /\ txs' = [txs EXCEPT ![c].status = IF valid THEN "Committed" ELSE "Refused"]
  /\ UNCHANGED <<state, journal, generation>>

-----------------------------------------------------------------------------
ResolverInit ==
  /\ state = [r \in Resolvers |-> ResolverState(1, 0)]
  /\ journal = state
  /\ txs = <<>> /\ log = <<>>
  /\ last = [candidate |-> 0, generation |-> 0]
  /\ generation = 1

ResolverNext ==
  \/ \E shape \in Shapes, position \in 0 .. Len(log) : Begin(shape, position)
  \/ \E r \in Resolvers, c \in Candidates :
       Prepare(r, c) \/ PrepareAgain(r, c) \/ Finalize(r, c)
  \/ \E c \in Candidates : Commit(c) \/ DelayedReply(c)
  \/ \E r \in Resolvers : restart_resolver(r)
  \/ start_resolvers

ResolverSpec == ResolverInit /\ [][ResolverNext]_resolverVars

\* The same system over a disk whose writes may fail.
FailingJournalNext ==
  ResolverNext \/ \E r \in Resolvers, c \in Candidates : PrepareFails(r, c) \/ FinalizeFails(r, c)

FailingJournalSpec == ResolverInit /\ [][FailingJournalNext]_resolverVars

-----------------------------------------------------------------------------
(* Properties.                                                             *)

\* A committed transaction read nothing that a transaction committed between
\* its read position and its own commit had written: resolvers in any
\* interleaving, restarts and generation changes never produce a false commit.
PartitionedSerializable ==
  \A i \in 1 .. Len(log) : \A j \in txs[log[i]].read_position + 1 .. i - 1 :
    txs[log[j]].shape.writes \cap txs[log[i]].shape.reads = {}

\* The durable protocol agrees with the centralized oracle: a transaction it
\* refuses for a conflict really lost to a committed write.
ConflictIsReal ==
  ~ MemoryOnly => \A c \in Candidates : txs[c].status = "Conflict" =>
    \E j \in txs[c].read_position + 1 .. Len(log) :
      txs[log[j]].shape.writes \cap txs[c].shape.reads # {}

\* Every decision a proxy holds is in its resolver's journal, so a restart
\* replays it and its finalization finds it.
DecisionDurable ==
  ~ MemoryOnly => \A c \in Candidates : \A reply \in txs[c].replies :
    \E p \in journal[reply.resolver].prepared : p.statement = reply.statement
=============================================================================
