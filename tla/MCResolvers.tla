----------------------------- MODULE MCResolvers -----------------------------
(***************************************************************************)
(* The resolvers and the transaction system around them, in five instances *)
(* of which a behaviour runs one: the durable and the stateless partition  *)
(* protocol, the online split of a resolver, the recovery of a generation  *)
(* after a proxy is lost, and the takeover of what the lost generation had *)
(* staged.  The variables of the one that runs are in x1 .. x9; the slots  *)
(* it does not use hold None.                                              *)
(***************************************************************************)
EXTENDS Integers, Sequences, FiniteSets, TLC

CONSTANT None

VARIABLES system, x1, x2, x3, x4, x5, x6, x7, x8, x9

\* Two partitions of one key each; transactions that stay inside one, cross
\* both, write blindly and read what another writes.
TwoPartitions == [r \in {1, 2} |-> {r}]
MCShapes == {[reads |-> {1}, writes |-> {1}], [reads |-> {1}, writes |-> {2}],
             [reads |-> {1, 2}, writes |-> {1, 2}]}

D == INSTANCE PartitionedResolver WITH
       Partition <- TwoPartitions, Shapes <- MCShapes, MaxCandidate <- 3,
       MaxInFlight <- 2, MaxGeneration <- 1, MemoryOnly <- FALSE,
       LateCommits <- FALSE,
       state <- x1, journal <- x2, txs <- x3, log <- x4, last <- x5, generation <- x6

S == INSTANCE PartitionedResolver WITH
       Partition <- TwoPartitions, Shapes <- MCShapes, MaxCandidate <- 3,
       MaxInFlight <- 2, MaxGeneration <- 2, MemoryOnly <- TRUE,
       LateCommits <- FALSE,
       state <- x1, journal <- x2, txs <- x3, log <- x4, last <- x5, generation <- x6

\* One resolver that is split into two, and two proxies; then two resolvers in
\* front of two log sets, the first replicated.
Tx(r, w, stale) == [reads |-> r, writes |-> w, stale |-> stale]
SplitRequests == {<<Tx({"b"}, {"b"}, FALSE), Tx({"c"}, {"b"}, TRUE)>>,
                  <<Tx({"b", "c"}, {"c"}, TRUE), Tx({"b"}, {"c"}, FALSE)>>}

O == INSTANCE TransactionSystem WITH
       Proxies <- {0, 1}, SourceMap <- (2 :> {"b", "c"}),
       ChildMap <- (4 :> {"b"}) @@ (5 :> {"c"}), Source <- 2,
       Members <- (10 :> {1}), Requests <- SplitRequests, MaxBatches <- 4,
       MaxPending <- 1, SnapshotAt <- 1, CutoverAt <- 3, MaxGeneration <- 1,
       tickets <- x1, resolver <- x2, tlog <- x3, dead <- x4, fenced <- x5,
       generation <- x6, visible <- x7, abandoned <- x8, acked <- x9

R == INSTANCE TransactionSystem WITH
       Proxies <- {0, 1}, SourceMap <- (1 :> {"a"}) @@ (2 :> {"b", "c"}),
       ChildMap <- (4 :> {"b"}) @@ (5 :> {"c"}), Source <- 2,
       Members <- (10 :> {1, 2, 3}) @@ (20 :> {1}),
       Requests <- {<<Tx({"a"}, {"a"}, FALSE)>>}, MaxBatches <- 2,
       MaxPending <- 1, SnapshotAt <- 0, CutoverAt <- 0, MaxGeneration <- 2,
       tickets <- x1, resolver <- x2, tlog <- x3, dead <- x4, fenced <- x5,
       generation <- x6, visible <- x7, abandoned <- x8, acked <- x9

\* Two transactions committed before the head and one staged behind it.
T == INSTANCE StagedTakeover WITH
       Baseline <- 2, MaxStaged <- 1, NULL <- None,
       part <- x1, mode <- x2, sys <- x3, step <- x4, failed <- x5

ResolversInit ==
    \/ /\ system = "durable" /\ D!ResolverInit
       /\ x7 = None /\ x8 = None /\ x9 = None
    \/ /\ system = "stateless" /\ S!ResolverInit
       /\ x7 = None /\ x8 = None /\ x9 = None
    \/ system = "split" /\ O!SystemInit
    \/ system = "recovery" /\ R!SystemInit
    \/ /\ system = "takeover" /\ T!TakeoverInit
       /\ x6 = None /\ x7 = None /\ x8 = None /\ x9 = None

ResolversNext ==
    \/ system = "durable" /\ D!ResolverNext /\ UNCHANGED <<system, x7, x8, x9>>
    \/ system = "stateless" /\ S!ResolverNext /\ UNCHANGED <<system, x7, x8, x9>>
    \/ system = "split" /\ O!SystemNext /\ UNCHANGED system
    \/ system = "recovery" /\ R!SystemNext /\ UNCHANGED system
    \/ system = "takeover" /\ T!TakeoverNext /\ UNCHANGED <<system, x6, x7, x8, x9>>

ResolversSpec ==
    ResolversInit
    /\ [][ResolversNext]_<<system, x1, x2, x3, x4, x5, x6, x7, x8, x9>>

\* What partitioned resolvers let the authority commit is one serial history,
\* under either protocol; so is what a split resolver and its children accept.
CommitsSerializable ==
    /\ system = "durable" => D!PartitionedSerializable
    /\ system = "stateless" => S!PartitionedSerializable
    /\ system = "split" => O!SplitSerializable

\* No refusal without a committed write behind it: a resolver's conflict names
\* a real one, and the children of a split refuse exactly what their source
\* would have.
RefusalsReal ==
    /\ system = "durable" => D!ConflictIsReal
    /\ system = "stateless" => S!ConflictIsReal
    /\ system = "split" => O!HistoryExact

\* Decisions last: one a proxy has seen is still there when its resolver restarts;
\* what either generation publishes a quorum of every log set holds, what the
\* successor aborts no quorum can acquire, and the takeover contracts report a failed
\* check exactly when a handler is poisoned.
DecisionDurable ==
    /\ system = "durable" => D!DecisionDurable
    /\ system = "takeover" => /\ T!VisibleIsDurable /\ T!AbortedStaysIncomplete
                              /\ T!TakeoversDetect

\* What a client saw acknowledged survives the loss of a proxy, and a retry of
\* what was abandoned never becomes visible a second time.
AckedVisibleOnce ==
    system = "recovery" => R!AckedVisible /\ R!VisibleOnce
=============================================================================
