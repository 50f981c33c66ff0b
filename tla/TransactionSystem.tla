-------------------------- MODULE TransactionSystem --------------------------
(***************************************************************************)
(* One transaction-system generation with several commit proxies, a         *)
(* sequencer that chains their batches by tickets, memory-only resolvers    *)
(* and tLog sets that take batches in ticket order whatever order they      *)
(* arrive in (multi_proxy_ordering.rs), the online split of one resolver    *)
(* (online_resolver_split.rs) and the recovery of the generation after a    *)
(* proxy is lost (commit_proxy_recovery.rs,                                 *)
(* transaction_system_recovery_curve.rs).  A batch is named by its place in *)
(* the ticket chain; a conflict range is the set of keys it covers.         *)
(***************************************************************************)
EXTENDS Integers, Sequences, SequencesExt, FiniteSets

CONSTANTS
  Proxies,        \* the commit proxies, 0 .. n - 1
  SourceMap,      \* resolver map epoch 1: resolver -> keys
  ChildMap,       \* the two children of the split: resolver -> keys
  Source,         \* the resolver that is split
  Members,        \* log set -> its tLog nodes
  Requests,       \* client batches: sequences of [reads, writes, stale]
  MaxBatches,     \* bound: tickets of one generation
  MaxPending,     \* MAXIMUM_PENDING: out-of-order batches a role may hold
  SnapshotAt,     \* the batch after which the source's history is copied
  CutoverAt,      \* the batch that activates map epoch 2; 0 for no split
  MaxGeneration   \* bound: transaction-system generations

VARIABLES
  tickets,     \* the generation's batches in ticket order
  resolver,    \* resolver -> its memory
  tlog,        \* <<set, node>> -> its durable frames
  dead,        \* proxies that were lost
  fenced,      \* tLog nodes that were fenced and gave their inventory
  generation,
  visible,     \* logical batches recovered from earlier generations
  abandoned,   \* logical batches without an outcome, to be retried
  acked        \* logical batches whose client saw the acknowledgement

systemVars == <<tickets, resolver, tlog, dead, fenced, generation,
                visible, abandoned, acked>>

Batches == 1 .. Len(tickets)
Nodes == UNION {{s} \X Members[s] : s \in DOMAIN Members}
Children == DOMAIN ChildMap
Resolvers == DOMAIN SourceMap \cup (IF CutoverAt = 0 THEN {} ELSE Children)

-----------------------------------------------------------------------------
(* Maps, tickets and versions.                                             *)

source_map == SourceMap

destination_map == [r \in (DOMAIN SourceMap \ {Source}) \cup Children |->
                      IF r \in Children THEN ChildMap[r] ELSE SourceMap[r]]

map_epoch_for_batch(k) == IF CutoverAt # 0 /\ k > CutoverAt THEN 2 ELSE 1

MapAt(k) == IF map_epoch_for_batch(k) = 1 THEN source_map ELSE destination_map

\* The keys a resolver owns, in either map.
OwnedBy(r) == IF r \in Children THEN ChildMap[r] ELSE SourceMap[r]

clip(keys, r) == keys \cap OwnedBy(r)

touches(r, t) == clip(t.reads \cup t.writes, r) # {}

required_resolvers(k, t) == {r \in DOMAIN MapAt(k) : touches(r, t)}

Width == Len(CHOOSE b \in Requests : TRUE)

\* Candidate sequence of transaction i of batch k; the ticket names the first.
candidate(k, i) == (k - 1) * Width + i

\* A stale transaction read before the generation's first batch, another one
\* at the version before its own batch.
read_sequence(k, t) == IF t.stale THEN 0 ELSE candidate(k - 1, Width)

\* Proxies take turns; the ticket binds the batch to its proxy.
proxy_of(k) == k % Cardinality(Proxies)

IssueTicket(id, batch) ==
  /\ Len(tickets) < MaxBatches /\ fenced = {}
  /\ tickets' = Append(tickets, [id |-> id, batch |-> batch])
  /\ UNCHANGED <<resolver, tlog, dead, fenced, generation, visible, acked>>

\* A new client batch.
Submit(batch) ==
  LET used == {tickets[k].id : k \in Batches} \cup Range(visible) \cup abandoned
  IN /\ IssueTicket(Cardinality(used) + 1, batch) /\ UNCHANGED abandoned

\* The logical batches the successor generation executes again.
logical_batch_identity == abandoned

Retry(id, batch) ==
  /\ id \in logical_batch_identity
  /\ IssueTicket(id, batch) /\ abandoned' = abandoned \ {id}

-----------------------------------------------------------------------------
(* Resolvers.                                                              *)

EmptyResolver == [frontier |-> 0, pending |-> {}, writes |-> {}, decisions |-> {}]

Decision(k, i, d) == [batch |-> k, index |-> i, decision |-> d]

decisions_at(st, k, i) == {d \in st.decisions : d.batch = k /\ d.index = i}

local_decision(st, r, k, t) ==
  IF \E w \in st.writes : /\ w.sequence > read_sequence(k, t)
                          /\ w.key \in clip(t.reads, r)
  THEN "Conflict" ELSE "Accept"

\* Until the cutover a child repeats the source's disposition.
disposition(r, st, k, i, t) ==
  IF r \in Children /\ k < CutoverAt
  THEN (CHOOSE d \in decisions_at(resolver[Source], k, i) : TRUE).decision
  ELSE local_decision(st, r, k, t)

\* Transaction i of batch k: an accepted one enters the history at once.
resolve_one(r, st, k, i) ==
  LET t == tickets[k].batch[i]
      d == disposition(r, st, k, i, t)
  IN IF ~ touches(r, t) \/ k = CutoverAt THEN st
     ELSE [st EXCEPT
             !.decisions = @ \cup {Decision(k, i, d)},
             !.writes = @ \cup IF d = "Accept"
                               THEN {[sequence |-> candidate(k, i), key |-> x] :
                                        x \in clip(t.writes, r)} ELSE {}]

resolve_batch(r, st, k) ==
  LET step[i \in 0 .. Width] == IF i = 0 THEN st ELSE resolve_one(r, step[i - 1], k, i)
  IN [step[Width] EXCEPT !.frontier = k, !.pending = @ \ {k}]

\* Batches wait until the one their ticket names as predecessor is processed.
order_ticketed_batches(r, st) ==
  LET drain[n \in 0 .. MaxBatches] ==
        IF n = 0 THEN st
        ELSE LET before == drain[n - 1]
                 next == before.frontier + 1
             IN IF next \in before.pending THEN resolve_batch(r, before, next) ELSE before
  IN drain[MaxBatches]

\* The batches a resolver is sent: the source retires at the cutover, a child
\* shadows what its source has decided since the snapshot.
resolver_input(r, k) ==
  /\ r = Source /\ CutoverAt # 0 => k <= CutoverAt
  /\ r \in Children => /\ k > SnapshotAt
                       /\ resolver[r].frontier >= SnapshotAt
                       /\ k < CutoverAt => resolver[Source].frontier >= k

Sent(k) == proxy_of(k) \notin dead

DeliverToResolver(r, k) ==
  /\ Sent(k) /\ resolver_input(r, k) /\ fenced = {}
  /\ k > resolver[r].frontier /\ k \notin resolver[r].pending
  /\ LET arrived == [resolver[r] EXCEPT !.pending = @ \cup {k}]
         ordered == order_ticketed_batches(r, arrived)
     IN /\ Cardinality(ordered.pending) <= MaxPending
        /\ resolver' = [resolver EXCEPT ![r] = ordered]
  /\ UNCHANGED <<tickets, tlog, dead, fenced, generation, visible, abandoned, acked>>

\* The source's history through the snapshot, clipped to the child's range.
clip_history(r) ==
  {w \in resolver[Source].writes : /\ w.sequence <= candidate(SnapshotAt, Width)
                                   /\ w.key \in OwnedBy(r)}

InstallChild(r) ==
  /\ CutoverAt # 0 /\ r \in Children /\ resolver[r].frontier = 0
  /\ resolver[Source].frontier >= SnapshotAt
  /\ resolver' = [resolver EXCEPT ![r].frontier = SnapshotAt, ![r].writes = clip_history(r)]
  /\ UNCHANGED <<tickets, tlog, dead, fenced, generation, visible, abandoned, acked>>

-----------------------------------------------------------------------------
(* Outcomes, tLogs and acknowledgements.                                    *)

complete(k, i) ==
  \A r \in required_resolvers(k, tickets[k].batch[i]) : decisions_at(resolver[r], k, i) # {}

\* Accept only if every required resolver accepted; the cutover batch carries
\* the map change, its client work is abandoned.
combine_dispositions(k, i) ==
  IF k = CutoverAt THEN "Abandoned"
  ELSE IF \E r \in required_resolvers(k, tickets[k].batch[i]) :
            \E d \in decisions_at(resolver[r], k, i) : d.decision = "Conflict"
  THEN "Conflict" ELSE "Accept"

\* The progress frame of a batch exists once all its outcomes do.
build_progress_frames(k) ==
  k = CutoverAt \/ \A i \in 1 .. Width : complete(k, i)

EmptyTlog == [frontier |-> 0, pending |-> {}]

\* Frames are journalled in chain order; a later one waits in memory.
order_progress_frames(st) ==
  LET run == {k \in st.pending \cup {st.frontier} :
                k >= st.frontier /\ st.frontier + 1 .. k \subseteq st.pending}
      last == CHOOSE k \in run : \A j \in run : j <= k
  IN [frontier |-> last, pending |-> {k \in st.pending : k > last}]

DeliverToTlog(n, k) ==
  /\ Sent(k) /\ build_progress_frames(k) /\ n \notin fenced
  /\ k > tlog[n].frontier /\ k \notin tlog[n].pending
  /\ LET ordered == order_progress_frames([tlog[n] EXCEPT !.pending = @ \cup {k}])
     IN /\ Cardinality(ordered.pending) <= MaxPending
        /\ tlog' = [tlog EXCEPT ![n] = ordered]
  /\ UNCHANGED <<tickets, resolver, dead, fenced, generation, visible, abandoned, acked>>

\* The highest batch a majority of the set's nodes hold.
quorum_frontier(s) ==
  CHOOSE f \in 0 .. MaxBatches :
    /\ 2 * Cardinality({m \in Members[s] : tlog[<<s, m>>].frontier >= f}) > Cardinality(Members[s])
    /\ 2 * Cardinality({m \in Members[s] : tlog[<<s, m>>].frontier >= f + 1}) <= Cardinality(Members[s])

\* Mutation: one log set is enough.
acknowledged_by_one(k) == \E s \in DOMAIN Members : quorum_frontier(s) >= k

acknowledged(k) == \A s \in DOMAIN Members : quorum_frontier(s) >= k

\* The proxy answers its client.
Acknowledge(k) ==
  /\ Sent(k) /\ acknowledged(k) /\ tickets[k].id \notin acked
  /\ acked' = acked \cup {tickets[k].id}
  /\ UNCHANGED <<tickets, resolver, tlog, dead, fenced, generation, visible, abandoned>>

-----------------------------------------------------------------------------
(* Recovery of the generation.                                             *)

\* A commit proxy dies; batches it had not sent reach nobody.
ProxyDies(p) ==
  /\ generation < MaxGeneration /\ dead = {}
  /\ dead' = {p}
  /\ UNCHANGED <<tickets, resolver, tlog, fenced, generation, visible, abandoned, acked>>

\* A tLog node of the lost generation stops taking frames and signs its inventory.
FenceTlog(n) ==
  /\ dead # {} /\ n \notin fenced
  /\ fenced' = fenced \cup {n}
  /\ UNCHANGED <<tickets, resolver, tlog, dead, generation, visible, abandoned, acked>>

\* The longest prefix durable in a majority of every log set.
recovered_boundary ==
  CHOOSE b \in {quorum_frontier(s) : s \in DOMAIN Members} :
    \A s \in DOMAIN Members : b <= quorum_frontier(s)

Ids(from, to) == [j \in 1 .. to - from + 1 |-> tickets[from + j - 1].id]

\* Every inventory is in: the prefix is kept, the rest abandoned, and empty
\* roles of the successor generation are recruited before it is admitted.
recruit_successor_roles ==
  /\ fenced = Nodes
  /\ visible' = visible \o Ids(1, recovered_boundary)
  /\ abandoned' = abandoned \cup Range(Ids(recovered_boundary + 1, Len(tickets)))
  /\ tickets' = <<>>
  /\ resolver' = [r \in Resolvers |-> EmptyResolver]
  /\ tlog' = [n \in Nodes |-> EmptyTlog]
  /\ dead' = {} /\ fenced' = {}
  /\ generation' = generation + 1
  /\ UNCHANGED acked

-----------------------------------------------------------------------------
SystemInit ==
  /\ tickets = <<>>
  /\ resolver = [r \in Resolvers |-> EmptyResolver]
  /\ tlog = [n \in Nodes |-> EmptyTlog]
  /\ dead = {} /\ fenced = {}
  /\ generation = 1
  /\ visible = <<>> /\ abandoned = {} /\ acked = {}

SystemNext ==
  \/ \E batch \in Requests : Submit(batch) \/ \E id \in logical_batch_identity : Retry(id, batch)
  \/ \E k \in Batches : \/ \E r \in Resolvers : DeliverToResolver(r, k)
                        \/ \E n \in Nodes : DeliverToTlog(n, k)
                        \/ Acknowledge(k)
  \/ \E r \in Children : InstallChild(r)
  \/ \E p \in Proxies : ProxyDies(p)
  \/ \E n \in Nodes : FenceTlog(n)
  \/ recruit_successor_roles

SystemSpec == SystemInit /\ [][SystemNext]_systemVars

-----------------------------------------------------------------------------
(* Properties.                                                             *)

Committed(k, i) == /\ k # CutoverAt /\ complete(k, i)
                   /\ combine_dispositions(k, i) = "Accept"

\* Two committed transactions of a generation never conflict, whatever order
\* batches reach the resolvers in and across the split of a resolver.
SplitSerializable ==
  \A k, j \in Batches : \A i, h \in 1 .. Width :
    /\ Committed(k, i) /\ Committed(j, h)
    /\ candidate(j, h) < candidate(k, i)
    /\ candidate(j, h) > read_sequence(k, tickets[k].batch[i])
    => tickets[j].batch[h].writes \cap tickets[k].batch[i].reads = {}

\* A resolver that owns a key knows every committed write of it in the batches
\* it has processed, and through the last batch before the cutover a child's
\* history is exactly its part of the source's: the copied history plus the
\* shadowed batches lose nothing and invent no conflict.
HistoryExact ==
  /\ \A r \in Resolvers : \A k \in 1 .. resolver[r].frontier : \A i \in 1 .. Width :
       k \in Batches /\ Committed(k, i) =>
         \A x \in clip(tickets[k].batch[i].writes, r) :
           [sequence |-> candidate(k, i), key |-> x] \in resolver[r].writes
  /\ \A r \in Resolvers \cap Children :
       LET through == candidate(resolver[r].frontier, Width)
           shadow == candidate(CutoverAt - 1, Width)
       IN {w \in resolver[r].writes : w.sequence <= shadow} =
          {w \in resolver[Source].writes : w.sequence <= through /\ w.key \in OwnedBy(r)}

\* An acknowledged batch survives every recovery of the transaction system.
AckedVisible ==
  \A id \in acked : id \in Range(visible) \cup {tickets[k].id : k \in Batches}

\* A logical batch becomes durable at most once: the outcome of an unanswered
\* one is found by its identity, only abandoned ones are executed again.
VisibleOnce ==
  IsInjective(visible \o Ids(1, Len(tickets)))
=============================================================================
