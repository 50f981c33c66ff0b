------------------------------- MODULE MCLogs -------------------------------
(***************************************************************************)
(* What is durable, in four instances of which a behaviour runs one: the   *)
(* root of a tagged-log member with two records of one generation and of   *)
(* two, the replacement of a member of a log set, and the stable storage   *)
(* of a consensus process.  The variables of the one that runs are in      *)
(* x1 .. x20; the slots it does not use hold None.                         *)
(***************************************************************************)
EXTENDS Integers, Sequences, FiniteSets, TLC

CONSTANTS None, n1, n2, n3, n4, r1

VARIABLES log, x1, x2, x3, x4, x5, x6, x7, x8, x9, x10,
          x11, x12, x13, x14, x15, x16, x17, x18, x19, x20

high == << x11, x12, x13, x14, x15, x16, x17, x18, x19, x20 >>
slots == << x1, x2, x3, x4, x5, x6, x7, x8, x9, x10, high >>

Unused == /\ x11 = None /\ x12 = None /\ x13 = None /\ x14 = None /\ x15 = None
          /\ x16 = None /\ x17 = None /\ x18 = None /\ x19 = None /\ x20 = None

OneGeneration == {[version |-> 1, generation |-> 1], [version |-> 2, generation |-> 1]}
TwoGenerations == {[version |-> 1, generation |-> 1], [version |-> 2, generation |-> 2]}
ThreeRecords == {[version |-> v, generation |-> 1] : v \in 1 .. 3}

M == INSTANCE TaggedLogMember WITH
       Nodes <- {n1}, Learners <- {}, Envelopes <- OneGeneration, Recoveries <- {r1},
       RetainedLimit <- 2, MaxPosition <- 3,
       wal <- x1, torn <- x2, kept <- x3, fence <- x4, fence_tmp <- x5,
       activation <- x6, published <- x7, acked <- x8, verdicts <- x9, samples <- x10

G == INSTANCE TaggedLogMember WITH
       Nodes <- {n1}, Learners <- {}, Envelopes <- TwoGenerations, Recoveries <- {r1},
       RetainedLimit <- 2, MaxPosition <- 3,
       wal <- x1, torn <- x2, kept <- x3, fence <- x4, fence_tmp <- x5,
       activation <- x6, published <- x7, acked <- x8, verdicts <- x9, samples <- x10

\* Three members, of which n1 is replaced by the learner n4.
L == INSTANCE LogSetRepair WITH
       Nodes <- {n1, n2, n3, n4}, Learners <- {n4}, Failed <- n1, Learner <- n4,
       QuorumSize <- 2, Chunks <- {1}, PublishLimit <- 1, Envelopes <- ThreeRecords,
       Recoveries <- {}, RetainedLimit <- 3, MaxPosition <- 3,
       wal <- x1, torn <- x2, kept <- x3, fence <- x4, fence_tmp <- x5,
       activation <- x6, published <- x7, acked <- x8, verdicts <- x9, samples <- x10,
       policy <- x11, pending <- x12, staged <- x13, committed <- x14,
       base_cert <- x15, ready_cert <- x16, installed <- x17, ready <- x18,
       transfer <- x19, stage <- x20

\* A committed log with a generation change, a fenced request and its retry, and a
\* conflicting reuse of an identity.
Cmd(kind, id, payload, generation) ==
  [kind |-> kind, id |-> id, payload |-> payload, generation |-> generation]

CommittedLog == << Cmd("publication", "r1", 1, 1), Cmd("generation", "r2", 1, 0),
                   Cmd("cell", "r3", 1, 1), Cmd("publication", "r1", 1, 1),
                   Cmd("cell", "r3", 2, 1) >>

S == INSTANCE RaftStorage WITH
       Log <- CommittedLog, Stale <- Cmd("blank", "none", 0, 0), MaxBatch <- 2,
       MaxVote <- 1, ConcurrentBuild <- FALSE,
       disk <- x1, up <- x2, data <- x3, snap <- x4, snapmeta <- x5, building <- x6,
       voted <- x7, promised <- x8, answered <- x9

LogsInit ==
    \/ log = "member" /\ M!MemberInit /\ Unused
    \/ log = "generations" /\ G!MemberInit /\ Unused
    \/ log = "set" /\ L!RepairInit
    \/ log = "storage" /\ S!StorageInit /\ x10 = None /\ Unused

LogsNext ==
    \/ log = "member" /\ M!MemberNext /\ UNCHANGED << log, high >>
    \/ log = "generations" /\ G!MemberNext /\ UNCHANGED << log, high >>
    \/ log = "set" /\ L!RepairNext /\ UNCHANGED log
    \/ log = "storage" /\ S!StorageNext /\ UNCHANGED << log, x10, high >>

LogsSpec == LogsInit /\ [][LogsNext]_<< log, slots >>

Survivors == Permutations({n2, n3})

-----------------------------------------------------------------------------
\* Nothing acknowledged is lost to a crash, a pop or a change of members: a member
\* keeps its acknowledged records until an object root covers them, the records a
\* policy transition carried over stay readable from every quorum of the new
\* members, and a consensus process keeps the votes and entries it acknowledged.
AcknowledgedKept ==
    /\ log = "member" => M!AckedRetained
    /\ log = "generations" => G!AckedRetained
    /\ log = "set" => L!CertifiedRecoverable
    /\ log = "storage" => S!AckedDurable

\* What a member signed about a record under a fence is what its log says ever
\* after, whichever writes of whichever request a crash cut short.
FenceVerdictFinal ==
    /\ log = "member" => M!FenceVerdictFinal
    /\ log = "generations" => G!FenceVerdictFinal

\* Positions and sample epochs are used once: a position names one record and an
\* epoch one retention state, so that both may be compared as numbers.
NumbersUsedOnce ==
    /\ log = "member" => M!PositionsConsecutive /\ M!SampleIdentifiesState
    /\ log = "generations" => G!PositionsConsecutive /\ G!SampleIdentifiesState

\* A consensus process holds the state of the committed prefix it says it applied
\* and gives every request identity one answer and one effect, however often it
\* stopped, replayed, took a snapshot and purged.
ReplayedOnce ==
    log = "storage" => S!ReplayExact /\ S!RequestsOnce
=============================================================================
