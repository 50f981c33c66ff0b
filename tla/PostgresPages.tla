---------------------------- MODULE PostgresPages ----------------------------
(* PostgreSQL relation pages over objectKV (okv-postgres/src: lib.rs,        *)
(* extent.rs, write.rs, commit.rs), the contracts that exercise them         *)
(* (write.rs, commit_process.rs, process.rs), and the read requests of the   *)
(* storage-manager bridge (smgr_write_service.rs).                           *)
(*                                                                           *)
(* A relation fork is a map from blocks to page LSNs plus the extent row.    *)
(* A page is its LSN and whether its payload matches its checksum; request   *)
(* identities, digests and page bytes are told apart only by equality.       *)
EXTENDS Integers, Sequences, FiniteSets, FiniteSetsExt

CONSTANTS
  MaxBlocks,   \* blocks a relation may reach
  MaxBatch,    \* MAXIMUM_PAGES_PER_BATCH
  MaxLsn,      \* page LSNs and WAL flush positions are 1..MaxLsn
  MaxCommits,  \* committed page transactions
  Ids,         \* request identities
  NULL

VARIABLES
  commits,   \* the Cell: committed transactions with the relation after each
  served,    \* version the bridge serves (MutableBridgeState::objectkv_version)
  reading,   \* a bridge read between its two halves, or NULL
  report     \* receipt of the contract that ran last, or NULL

vars == <<commits, served, reading, report>>

Blocks == 0..(MaxBlocks - 1)
Lsn == 1..MaxLsn
Batches == UNION {[1..n -> Lsn] : n \in 1..MaxBatch}

EmptyRelation == [pages |-> <<>>, nblocks |-> 0]
Relation(v) == IF v = 0 THEN EmptyRelation ELSE commits[v].rel
Latest == Len(commits)
NoPage == 0
PageAt(rel, b) == IF b \in DOMAIN rel.pages THEN rel.pages[b] ELSE NoPage
MaxPageLsn(rel) == Max({0} \cup {PageAt(rel, b) : b \in DOMAIN rel.pages})

(***************************************************************************)
(* Admission, planning and verification of a page write.                   *)
(***************************************************************************)
Ok == "ok"

\* A version of None stands for a zero objectKV version (versions start at 1 in
\* the Cell; the model's version 0 is the Cell's first).
None == -1

admit_postgres_page_write(b) ==
  CASE b.version = None             -> "ZeroObjectKvVersion"
    [] b.lsns = <<>>                -> "EmptyBatch"
    [] Len(b.lsns) > MaxBatch       -> "BatchTooLarge"
    [] \E i \in DOMAIN b.lsns : b.lsns[i] > b.wal -> "WalBehindPage"
    [] OTHER                        -> Ok

plan_postgres_page_commit(op, first, count, previous, resulting) ==
  CASE op = "WriteExisting" /\ previous # resulting      -> "ExtentChanged"
    [] op = "WriteExisting" /\ first + count > previous  -> "PagesBeyondExtent"
    [] op = "Extend" /\ (\/ first # previous
                         \/ first + count # resulting
                         \/ resulting <= previous)       -> "NonContiguousExtend"
    [] OTHER                                             -> Ok

\* The command: its pages and, in the same transaction, the extent.
command(b, resulting) ==
  [id |-> b.id, rv |-> b.version, first |-> b.first, lsns |-> b.lsns,
   extent |-> resulting]

written(rel, cmd) ==
  LET blocks == cmd.first..(cmd.first + Len(cmd.lsns) - 1)
  IN [pages |-> [x \in DOMAIN rel.pages \cup blocks |->
                   IF x \in blocks THEN cmd.lsns[x - cmd.first + 1] ELSE rel.pages[x]],
      nblocks |-> IF cmd.extent = None THEN rel.nblocks ELSE cmd.extent]

\* The Cell: the extent key is read, so a write after the read version conflicts;
\* a known identity gets its retained outcome.
known(log, cmd) == {i \in DOMAIN log : log[i].cmd.id = cmd.id}
respond(log, cmd) ==
  CASE \E i \in known(log, cmd) : log[i].cmd = cmd ->
         [id |-> cmd.id, status |-> "Committed", seq |-> CHOOSE i \in known(log, cmd) : TRUE]
    [] known(log, cmd) # {} -> [id |-> cmd.id, status |-> "Refused", seq |-> None]
    [] cmd.rv < Len(log)    -> [id |-> cmd.id, status |-> "Conflict", seq |-> None]
    [] OTHER                -> [id |-> cmd.id, status |-> "Committed", seq |-> Len(log) + 1]

\* The log after the command: one more entry when it commits anew.
submitted(log, cmd) ==
  IF respond(log, cmd).status = "Committed" /\ known(log, cmd) = {}
  THEN Append(log, [cmd |-> cmd,
         rel |-> written(IF log = <<>> THEN EmptyRelation ELSE log[Len(log)].rel, cmd)])
  ELSE log

verify_postgres_page_commit(cmd, response) ==
  CASE response.id # cmd.id              -> "ResponseIdentityMismatch"
    [] response.status = "Refused"       -> "AuthorityRefused"
    [] response.status # "Committed"     -> "TransactionNotCommitted"
    [] response.seq = None               -> "MissingCommitVersion"
    [] response.seq <= cmd.rv            -> "NonAdvancingCommitVersion"
    [] OTHER                             -> Ok

(***************************************************************************)
(* Reads.                                                                  *)
(***************************************************************************)
\* A stored page: an LSN with an intact or a changed payload.
Page(lsn) == [lsn |-> lsn, intact |-> TRUE]
PageOf(rel, b) == IF PageAt(rel, b) = NoPage THEN NULL ELSE Page(PageAt(rel, b))

decode_at_snapshot(page, max) ==
  CASE ~page.intact    -> "PagePayloadChecksumMismatch"
    [] page.lsn > max  -> "PageLsnBeyondSnapshot"
    [] OTHER           -> Ok

\* The first failing block decides the answer; the stored rows are the present
\* blocks in block order.
decode_page_rows(store, first, count, max) ==
  LET blocks == first..(first + count - 1)
      bad    == {b \in blocks : store[b] = NULL \/ decode_at_snapshot(store[b], max) # Ok}
  IN IF bad = {} THEN Ok
     ELSE IF store[Min(bad)] = NULL THEN "MissingPage"
          ELSE decode_at_snapshot(store[Min(bad)], max)

\* One stored page at a snapshot; an absent page is an answer, not an error.
read_page(store, b, max) == IF store[b] = NULL THEN Ok ELSE decode_at_snapshot(store[b], max)

resolve_request_version(expected) == expected = None \/ expected = served

\* First half of a bridge read: version, LSN bound and reader under the mutex.
BeginRead(first, count, expected, lsn) ==
  /\ reading = NULL /\ report = NULL
  /\ resolve_request_version(expected)
  /\ count \in 1..MaxBatch
  /\ reading' = [first |-> first, count |-> count, version |-> served,
                 max |-> IF expected = None THEN MaxPageLsn(Relation(served)) ELSE lsn,
                 bounded |-> expected # None, answer |-> NULL]
  /\ UNCHANGED <<commits, served, report>>

\* Mutated form: the second half asks at the version that is served by then.
FinishReadAtServed ==
  /\ reading # NULL /\ reading.answer = NULL
  /\ LET rel   == Relation(served)
         store == [b \in 0..(MaxBlocks + MaxBatch) |-> PageOf(rel, b)]
     IN reading' = [reading EXCEPT !.answer =
                      decode_page_rows(store, reading.first, reading.count, reading.max)]
  /\ UNCHANGED <<commits, served, report>>

\* Second half: the captured reader is asked at the captured version.
FinishRead ==
  /\ reading # NULL /\ reading.answer = NULL
  /\ LET rel   == Relation(reading.version)
         store == [b \in 0..(MaxBlocks + MaxBatch) |-> PageOf(rel, b)]
     IN reading' = [reading EXCEPT !.answer =
                      decode_page_rows(store, reading.first, reading.count, reading.max)]
  /\ UNCHANGED <<commits, served, report>>

EndRead ==
  /\ reading # NULL /\ reading.answer # NULL
  /\ reading' = NULL
  /\ UNCHANGED <<commits, served, report>>

read_nblocks(v) == Relation(v).nblocks

(***************************************************************************)
(* One page transaction, end to end.                                       *)
(***************************************************************************)
planned(op, b, resulting) ==
  /\ report = NULL /\ Latest < MaxCommits /\ resulting <= MaxBlocks
  /\ admit_postgres_page_write(b) = Ok
  /\ plan_postgres_page_commit(op, b.first, Len(b.lsns), read_nblocks(b.version),
                               resulting) = Ok

\* serve_write: the bridge writes existing blocks at the version it serves.
Write(b) ==
  /\ resolve_request_version(b.version)
  /\ planned("WriteExisting", b, read_nblocks(served))
  /\ LET cmd == command(b, read_nblocks(served))
     IN /\ commits' = submitted(commits, cmd)
        /\ served' = IF verify_postgres_page_commit(cmd, respond(commits, cmd)) = Ok
                     THEN respond(commits, cmd).seq ELSE served
  /\ UNCHANGED <<reading, report>>

\* A client of the commit path, at any version it has read.
Commit(op, b, resulting) ==
  /\ planned(op, b, resulting)
  /\ commits' = submitted(commits, command(b, resulting))
  /\ UNCHANGED <<served, reading, report>>

\* A bridge that starts serves the Cell's latest version.
Restart ==
  /\ report = NULL
  /\ served' = Latest
  /\ reading' = NULL
  /\ UNCHANGED <<commits, report>>

(***************************************************************************)
(* Contracts.  Each one runs a subject with one poison control and counts  *)
(* the checks that fail.                                                   *)
(***************************************************************************)
Failed(checks) == {c \in DOMAIN checks : ~checks[c]}
Receipt(mode, checks) == [mode |-> mode, anomalies |-> Failed(checks)]

GateModes == {"Correct", "WalBehindPage", "ZeroObjectKvVersion", "OversizedBatch",
              "AcceptWrongDigest"}

contract_batch(mode) ==
  [id |-> "contract", first |-> 0,
   version |-> IF mode = "ZeroObjectKvVersion" THEN None ELSE Latest,
   wal |-> IF mode = "WalBehindPage" THEN MaxLsn - 1 ELSE MaxLsn,
   lsns |-> IF mode = "OversizedBatch" THEN [i \in 1..(MaxBatch + 1) |-> 1]
            ELSE <<MaxLsn - 1, MaxLsn>>]

\* run_postgres_page_write_gate_contract: the admitted mutations, their digest
\* and the refusal each control must meet.
gate_checks(mode) ==
  LET subject  == admit_postgres_page_write(contract_batch(mode))
      admitted == subject = Ok
      exact    == contract_batch(mode).lsns = contract_batch("Correct").lsns
  IN [admission_succeeded |-> admitted,
      mutation_batch_exact |-> admitted /\ exact,
      mutation_digest_exact |-> admitted /\ exact /\ mode # "AcceptWrongDigest",
      objectkv_version_exact |-> admitted /\ contract_batch(mode).version = Latest,
      subject_behavior_exact |->
        CASE mode \in {"Correct", "AcceptWrongDigest"} -> admitted
          [] mode = "OversizedBatch" -> subject = "BatchTooLarge"
          [] OTHER -> subject = mode]

CommitModes == {"Correct", "OmitExtentMutation", "ChangeRetryIdentity",
                "WrongReceiptIdentity", "NonAdvancingCommitVersion"}

\* Pages of the contract batch visible in a relation, and its extent row.
relation_shape(rel, b) ==
  <<Cardinality({i \in DOMAIN b.lsns : PageAt(rel, b.first + i - 1) = b.lsns[i]}),
    rel.nblocks>>

\* run_contract of commit_process.rs: one extend of an empty relation is
\* committed, verified, retried and read back after a leader change.
commit_checks(mode) ==
  LET b        == contract_batch("Correct")
      plan     == command(b, 2)
      cmd      == IF mode = "OmitExtentMutation" THEN [plan EXCEPT !.extent = None] ELSE plan
      first    == respond(commits, cmd)
      after    == submitted(commits, cmd)
      receipt  == IF mode = "WrongReceiptIdentity" THEN [first EXCEPT !.id = "other"]
                  ELSE IF mode = "NonAdvancingCommitVersion" THEN [first EXCEPT !.seq = Latest]
                  ELSE first
      retry    == IF mode = "ChangeRetryIdentity" THEN [cmd EXCEPT !.id = "other"] ELSE cmd
      retried  == submitted(after, retry)
      shape    == relation_shape(retried[Len(retried)].rel, b)
  IN [command_digest_exact |-> cmd = plan,
      commit_receipt_verified |-> verify_postgres_page_commit(plan, receipt) = Ok,
      commit_version_strictly_advanced |-> first.seq > Latest,
      retry_response_exact |-> respond(after, retry) = first,
      retry_did_not_advance_version |-> Len(retried) = first.seq,
      page_and_extent_atomic_before_failover |-> shape = <<2, 2>>,
      page_and_extent_exact_after_failover |-> shape = <<2, 2>>]

ReadModes == {"Correct", "MissingPage", "CorruptPayload", "PageLsnAhead",
              "ChangeObjectKvVersion"}

\* fixture_mutations: three blocks, the second rewritten at the target version.
fixture(mode, updated) ==
  <<Page(1),
    IF mode = "MissingPage" THEN NULL
    ELSE IF ~updated THEN Page(1)
    ELSE [lsn |-> MaxLsn, intact |-> mode # "CorruptPayload"],
    IF mode = "PageLsnAhead" THEN Page(MaxLsn + 1) ELSE Page(1)>>

subject_behavior_exact(mode, vector, point) ==
  CASE mode \in {"Correct", "ChangeObjectKvVersion"} -> vector = Ok /\ point = Ok
    [] mode = "MissingPage"    -> vector = "MissingPage"
    [] mode = "CorruptPayload" -> {vector, point} = {"PagePayloadChecksumMismatch"}
    [] mode = "PageLsnAhead"   -> vector = "PageLsnBeyondSnapshot"

\* run_controller of process.rs: a vectored and a point read over two ranges,
\* through a client whose map is one version old.
read_checks(mode) ==
  LET store    == fixture(mode, mode # "ChangeObjectKvVersion")
      expected == fixture("Correct", TRUE)
      vector   == decode_page_rows(store, 1, 3, MaxLsn)
      point    == read_page(store, 2, MaxLsn)
  IN [objectkv_version_preserved |-> mode # "ChangeObjectKvVersion",
      point_page_exact |-> point = Ok /\ store[2] = expected[2],
      second_range_included |-> vector = Ok /\ store[3] = expected[3],
      subject_behavior_exact |-> subject_behavior_exact(mode, vector, point),
      vector_pages_exact |-> vector = Ok /\ store = expected]

RunGate(mode) ==
  /\ report = NULL /\ reading = NULL
  /\ report' = Receipt(mode, gate_checks(mode))
  /\ UNCHANGED <<commits, served, reading>>

RunCommit(mode) ==
  /\ report = NULL /\ reading = NULL
  /\ Relation(Latest) = EmptyRelation
  /\ report' = Receipt(mode, commit_checks(mode))
  /\ UNCHANGED <<commits, served, reading>>

RunRead(mode) ==
  /\ report = NULL /\ reading = NULL
  /\ report' = Receipt(mode, read_checks(mode))
  /\ UNCHANGED <<commits, served, reading>>

PagesInit == commits = <<>> /\ served = 0 /\ reading = NULL /\ report = NULL

PagesNext ==
  \/ \E id \in Ids, first \in Blocks, lsns \in Batches, wal \in Lsn, version \in 0..Latest :
       LET b == [id |-> id, first |-> first, lsns |-> lsns, wal |-> wal, version |-> version]
       IN \/ Write(b)
          \/ \E op \in {"WriteExisting", "Extend"}, n \in 0..MaxBlocks : Commit(op, b, n)
  \/ Restart
  \/ \E first \in Blocks, count \in 1..MaxBatch, expected \in {served, None}, lsn \in Lsn :
       BeginRead(first, count, expected, lsn)
  \/ FinishRead \/ EndRead
  \/ \E mode \in GateModes : RunGate(mode)
  \/ \E mode \in CommitModes : RunCommit(mode)
  \/ \E mode \in ReadModes : RunRead(mode)

PagesSpec == PagesInit /\ [][PagesNext]_vars

-----------------------------------------------------------------------------
\* Pages and extent move together: at every committed version the stored blocks
\* are exactly those below the extent (plan_postgres_page_commit).
ExtentExact ==
  \A v \in 1..Latest : DOMAIN Relation(v).pages = 0..(Relation(v).nblocks - 1)

\* A read that succeeds had every block at its version at or below its LSN bound,
\* and an unbounded read inside the extent never fails, although the bridge serves
\* a newer version by then (serve_read, decode_page_rows).
ReadExact ==
  reading # NULL /\ reading.answer # NULL =>
    LET rel == Relation(reading.version)
        blocks == reading.first..(reading.first + reading.count - 1)
    IN /\ reading.answer = Ok => \A b \in blocks : PageAt(rel, b) \in 1..reading.max
       /\ ~reading.bounded /\ blocks \subseteq DOMAIN rel.pages => reading.answer = Ok

\* The bridge never serves a version the Cell has not committed, nor one behind
\* its own last answer (verify_postgres_page_commit).
ServedForward == served' >= served /\ served' <= Len(commits')

\* The same of every step.
ServedAdvances == [][ServedForward]_vars

\* Every contract is clean on the correct subject and flags every poison control,
\* whatever was committed before it ran.
ContractsDetect == report # NULL => (report.anomalies = {} <=> report.mode = "Correct")
=============================================================================
