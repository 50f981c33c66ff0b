------------------------------ MODULE WalQuorum ------------------------------
(* LocalReplicatedWal of okv-wal/src/lib.rs over several replica files, and the *)
(* persisted-WAL contract of okv-sim/src/persisted_wal.rs.                      *)
(*                                                                             *)
(* A replica file is a sequence of frames; a frame is whole, corrupt or torn.   *)
(* Bytes appended behind a torn frame are read as part of it.  The process is   *)
(* the LocalDurableAuthority of okv-object/src/publication_adapter.rs.          *)
EXTENDS Integers, Sequences, FiniteSets, FiniteSetsExt

CONSTANTS
  Payloads,    \* encoded envelopes a process may append
  MaxFrames,   \* frames written to a file
  MaxFaults,   \* torn appends and damaged files
  NULL

VARIABLES
  files,     \* replica -> sequence of [index, payload, state]
  acked,     \* index -> payload of the quorum-durable appends
  cursor,    \* records the live process recovered or appended, or NULL when it is down
  faults,
  mode,      \* control of the contract driver
  report     \* checks the contract driver failed, NULL before it ran

vars == <<files, acked, cursor, faults, mode, report>>

Replicas == 0..2
Quorum == 2
EmptyFiles == [n \in Replicas |-> <<>>]
Frame(index, payload) == [index |-> index, payload |-> payload, state |-> "whole"]

\* append: one frame at the end of every selected file, each synced.
written(fs, index, payload, selected) ==
  [n \in Replicas |-> IF n \in selected THEN Append(fs[n], Frame(index, payload)) ELSE fs[n]]

\* scan_replica: frames up to the first one that is torn, corrupt or out of order.
\* A torn frame with bytes behind it is a complete frame whose checksum fails.
good(file, i) == \A j \in 1..i : file[j].state = "whole" /\ file[j].index = j
scan_good(file) == Max({0} \cup {i \in DOMAIN file : good(file, i)})
stopped(file) == scan_good(file) < Len(file)
torn_tail(file) == stopped(file) /\ scan_good(file) + 1 = Len(file) /\ file[Len(file)].state = "torn"
corrupt_index(file) ==
  IF stopped(file) /\ ~torn_tail(file) THEN scan_good(file) + 1 ELSE 0

holders(fs, index, payload) ==
  {n \in Replicas : index <= scan_good(fs[n]) /\ fs[n][index].payload = payload}
quorum_payloads(fs, index) ==
  {x \in {fs[n][index].payload : n \in {y \in Replicas : index <= scan_good(fs[y])}} :
    Cardinality(holders(fs, index, x)) >= Quorum}
maximum_index(fs) == Max({scan_good(fs[n]) : n \in Replicas})

\* recover: the contiguous quorum log, or the first reason to refuse.
recover(fs) ==
  LET indexes == 1..maximum_index(fs)
      missing == {i \in indexes : quorum_payloads(fs, i) = {}}
      end     == IF missing = {} THEN maximum_index(fs) + 1 ELSE Min(missing)
  IN CASE end \in missing /\ (\E n \in Replicas : corrupt_index(fs[n]) = end) ->
            [error |-> "CompleteFrameCorruption"]
       [] end \in missing /\ (\A n \in Replicas : corrupt_index(fs[n]) # end)
            /\ (\E i \in indexes : i > end /\ quorum_payloads(fs, i) # {}) ->
            [error |-> "MissingContiguousQuorum"]
       [] OTHER ->
            [records |-> [i \in 1..(end - 1) |-> CHOOSE x \in quorum_payloads(fs, i) : TRUE],
             torn |-> {n \in Replicas : torn_tail(fs[n])}]

Recovered(fs) == "records" \in DOMAIN recover(fs)

(***************************************************************************)
(* LocalDurableAuthority: one process over the log, every append to all the *)
(* replicas in order.                                                      *)
(***************************************************************************)
Running == report = NULL /\ mode = "Correct"

\* The files are never truncated: what recovery ignored stays in front of the
\* next append.
Open ==
  /\ Running /\ cursor = NULL /\ Recovered(files)
  /\ cursor' = recover(files).records
  /\ UNCHANGED <<files, acked, faults, mode, report>>

next_revision == Len(cursor) + 1
CanAppend == Running /\ cursor # NULL /\ \A n \in Replicas : Len(files[n]) < MaxFrames

Apply(payload) ==
  /\ CanAppend
  /\ files' = written(files, next_revision, payload, Replicas)
  /\ acked' = [i \in DOMAIN acked \cup {next_revision} |->
                 IF i = next_revision THEN payload ELSE acked[i]]
  /\ cursor' = Append(cursor, payload)
  /\ UNCHANGED <<faults, mode, report>>

\* The write to replica `at` stops, with nothing or a part of the frame in the
\* file; the replicas before it are synced.  The process dies, or gets an I/O
\* error, answers with it and goes on from its old state.
Interrupted(payload, at, torn, dies) ==
  /\ CanAppend /\ faults < MaxFaults
  /\ files' = LET fs == written(files, next_revision, payload, {n \in Replicas : n < at})
              IN IF torn
                 THEN [fs EXCEPT ![at] = Append(@, [Frame(next_revision, payload) EXCEPT !.state = "torn"])]
                 ELSE fs
  /\ cursor' = IF dies THEN NULL ELSE cursor
  /\ faults' = faults + 1
  /\ UNCHANGED <<acked, mode, report>>

Damage(n, i) ==
  /\ Running /\ cursor = NULL /\ faults < MaxFaults
  /\ i \in DOMAIN files[n]
  /\ files' = [files EXCEPT ![n][i].state = "corrupt"]
  /\ faults' = faults + 1
  /\ UNCHANGED <<acked, cursor, mode, report>>

Crash ==
  /\ Running /\ cursor # NULL
  /\ cursor' = NULL
  /\ UNCHANGED <<files, acked, faults, mode, report>>

(***************************************************************************)
(* The persisted-WAL contract: each case runs on files of its own.         *)
(***************************************************************************)
Modes == {"Correct", "RamOnlyDedup", "AckBeforeQuorum", "TrustSingleReplica",
          "AcceptTornAsCommit", "SkipLogChainValidation", "IgnoreCompleteCorruption"}

\* A fixture envelope: client identity, index and the envelope it is chained on.
Fixture(client, index, chain) == <<client, index, chain>>
first == Fixture(1, 1, 0)
chained == Fixture(2, 2, 1)
unchained == Fixture(3, 2, 0)

clear_replica(fs, n) == [fs EXCEPT ![n] = <<>>]
append_torn_tail(fs, n) == [fs EXCEPT ![n] = Append(@, [Frame(0, NULL) EXCEPT !.state = "torn"])]
corrupt_payload(fs, n) == [fs EXCEPT ![n][1].state = "corrupt"]

\* Index, chain and identity of every recovered envelope.
validate_envelope_chain(records) ==
  /\ \A i \in DOMAIN records : records[i][2] = i /\ records[i][3] = (IF i = 1 THEN 0 ELSE records[i - 1][1])
  /\ \A i, j \in DOMAIN records : records[i][1] = records[j][1] => i = j
outcomes(records) == IF mode = "RamOnlyDedup" THEN {} ELSE {records[i][1] : i \in DOMAIN records}

quorum_append(fs) == \A n \in Replicas : fs[n] = <<Frame(1, first)>>
reopen_recovery(fs) == recover(fs).records = <<first>> /\ validate_envelope_chain(<<first>>)

durable_retry_outcome(fs) ==
  LET r == recover(clear_replica(written(fs, 2, chained, Replicas), 2))
  IN validate_envelope_chain(r.records) /\ 2 \in outcomes(r.records)

leader_only_suffix(fs) ==
  LET r == recover(written(fs, 2, chained, {0}))
  IN mode # "AckBeforeQuorum" /\ mode # "TrustSingleReplica" /\ Len(r.records) < 2

torn_suffix(fs) ==
  LET r == recover(append_torn_tail(fs, 0))
  IN Len(r.records) = 1 /\ r.torn = {0} /\ mode # "AcceptTornAsCommit"

log_chain_mismatch(fs) ==
  /\ ~validate_envelope_chain(recover(written(fs, 2, unchained, Replicas)).records)
  /\ mode # "SkipLogChainValidation"

complete_corruption(fs) ==
  /\ recover(clear_replica(corrupt_payload(fs, 1), 2)) = [error |-> "CompleteFrameCorruption"]
  /\ mode # "IgnoreCompleteCorruption"

RunContract ==
  LET fs == written(EmptyFiles, 1, first, Replicas)
  IN /\ report = NULL /\ files = EmptyFiles
     /\ report' = {c \in 1..7 :
          ~CASE c = 1 -> quorum_append(fs)
             [] c = 2 -> reopen_recovery(fs)
             [] c = 3 -> durable_retry_outcome(fs)
             [] c = 4 -> leader_only_suffix(fs)
             [] c = 5 -> torn_suffix(fs)
             [] c = 6 -> log_chain_mismatch(fs)
             [] c = 7 -> complete_corruption(fs)}
     /\ UNCHANGED <<files, acked, cursor, faults, mode>>

WalInit ==
  /\ files = EmptyFiles /\ acked = <<>> /\ cursor = NULL /\ faults = 0
  /\ mode \in Modes /\ report = NULL

WalNext ==
  \/ Open \/ Crash \/ RunContract
  \/ \E payload \in Payloads : Apply(payload)
  \/ \E payload \in Payloads, at \in Replicas, torn, dies \in BOOLEAN : Interrupted(payload, at, torn, dies)
  \/ \E n \in Replicas, i \in 1..MaxFrames : Damage(n, i)

WalSpec == WalInit /\ [][WalNext]_vars

-----------------------------------------------------------------------------
intact == {n \in Replicas : ~stopped(files[n])}

\* "The caller may acknowledge only when quorum_durable is true" (lib.rs): while a
\* quorum of the files reads to its end, a recovery that does not refuse yields every
\* acknowledged record.
IntactQuorumRecovers ==
  Cardinality(intact) >= Quorum /\ Recovered(files) =>
    \A i \in DOMAIN acked : i <= Len(recover(files).records) /\ recover(files).records[i] = acked[i]

\* "A short final frame is ignored on that replica." (lib.rs): one interrupted
\* append never costs an acknowledged record.
AckedRecovered ==
  /\ Recovered(files)
  /\ \A i \in DOMAIN acked : i <= Len(recover(files).records) /\ recover(files).records[i] = acked[i]

\* The contract driver fails a check exactly under a control.
WalContractDetects == report # NULL => ((report = {}) <=> (mode = "Correct"))
=============================================================================
