---------------------------- MODULE CommitContract ----------------------------
(* The commit contract of okv-sim/src/commit.rs: CommitModel (three replicas,   *)
(* client outcomes retained by identity, recovery from quorum-certified         *)
(* records) and the Scenario that drives it under poison controls.  The eight   *)
(* scripted steps are followed, in the correct mode, by any submissions and     *)
(* recoveries, which the code's API allows and the script does not reach.       *)
EXTENDS Integers, Sequences, FiniteSets, FiniteSetsExt

CONSTANTS
  Clients,     \* request identities of the free submissions
  Bodies,      \* canonical mutations a request may carry
  MaxRecords,  \* records written by the free submissions
  NULL

VARIABLES
  mode,
  model,     \* CommitModel
  step,      \* scripted steps executed
  mismatch,  \* first_mismatch_step
  answered,  \* what clients were told: [key, body, version]
  written    \* records written by the free submissions

vars == <<mode, model, step, mismatch, answered, written>>

Replicas == 0..2
Quorum == 2
ActiveGeneration == 3
Resolvers == {1, 2}
LogTags == {10, 20}
Modes == {"Correct", "RamOnlyDedup", "AcceptConflictingRetry", "AcceptPartialResolver",
          "OmitRequiredLogTag", "AcceptStaleGeneration", "AckBeforeQuorum"}

Request(key, generation, body) == [key |-> key, generation |-> generation, body |-> body]
fingerprint(r) == r
Committed(version) == [outcome |-> "Committed", version |-> version]
Unknown == [outcome |-> "Unknown"]
Unavailable == [outcome |-> "Unavailable"]
Rejected(why) == [outcome |-> "Rejected", why |-> why]

is_quorum(acknowledgers) == Cardinality(acknowledgers \cap Replicas) >= Quorum

\* The digest of an envelope covers all of it, the chain included.
digest(envelope) == envelope
Envelope(r, version, index, tags, chain) ==
  [request |-> r, generation |-> r.generation, version |-> version, index |-> index,
   resolvers |-> Resolvers, tags |-> tags, fingerprint |-> fingerprint(r), chain |-> chain]
encode(e) == [payload |-> e, checksum |-> digest(e)]
corrupt(bytes) == [bytes EXCEPT !.payload.index = @ + 1]

decode(bytes) ==
  LET e == bytes.payload
  IN CASE digest(e) # bytes.checksum -> [error |-> "ChecksumMismatch"]
       [] e.version.seq = 0 \/ e.version.gen # e.generation -> [error |-> "InvalidGenerationVersion"]
       [] e.resolvers = {} \/ e.tags = {} -> [error |-> "InvalidSet"]
       [] fingerprint(e.request) # e.fingerprint -> [error |-> "FingerprintMismatch"]
       [] OTHER -> [envelope |-> e]

(***************************************************************************)
(* CommitModel.                                                            *)
(***************************************************************************)
EmptyModel ==
  [seq |-> 0, index |-> 0, chain |-> NULL, outcomes |-> <<>>,
   replicas |-> [n \in Replicas |-> <<>>]]

With(f, k, x) == [y \in DOMAIN f \cup {k} |-> IF y = k THEN x ELSE f[y]]

\* The guards of a new commit in the order they are tried, each with the control
\* that disables it.
refused(r, resolvers, tags, why) ==
  CASE why = "StaleGeneration" -> r.generation # ActiveGeneration /\ mode # "AcceptStaleGeneration"
    [] why = "MissingResolver" -> ~(Resolvers \subseteq resolvers) /\ mode # "AcceptPartialResolver"
    [] why = "MissingLogTag"   -> ~(LogTags \subseteq tags) /\ mode # "OmitRequiredLogTag"
refusals(r, resolvers, tags) ==
  SelectSeq(<<"StaleGeneration", "MissingResolver", "MissingLogTag">>,
            LAMBDA why : refused(r, resolvers, tags, why))

\* A retained identity answers first, stale or not.
retained_answer(m, r) ==
  IF m.outcomes[r.key].fingerprint = fingerprint(r) \/ mode = "AcceptConflictingRetry"
  THEN Committed(m.outcomes[r.key].version) ELSE Rejected("ConflictingRetry")

answer_without_commit(m, r, resolvers, tags) ==
  IF r.key \in DOMAIN m.outcomes THEN retained_answer(m, r)
  ELSE IF refusals(r, resolvers, tags) # <<>> THEN Rejected(Head(refusals(r, resolvers, tags)))
  ELSE NULL

\* A record without a quorum still takes its sequence, its index and the chain.
submit(m, r, resolvers, tags, fsynced, reply) ==
  LET early   == answer_without_commit(m, r, resolvers, tags)
      version == [gen |-> ActiveGeneration, seq |-> m.seq + 1]
      e       == Envelope(r, version, m.index + 1, tags, m.chain)
      stored  == [m EXCEPT !.seq = @ + 1, !.index = @ + 1, !.chain = digest(e),
                    !.replicas = [n \in Replicas |->
                       IF n \in fsynced
                       THEN With(@[n], e.index, [envelope |-> e, certificate |-> fsynced])
                       ELSE @[n]]]
  IN IF early # NULL THEN [model |-> m, answer |-> early]
     ELSE IF is_quorum(fsynced)
     THEN [model |-> [stored EXCEPT !.outcomes =
                        With(@, r.key, [fingerprint |-> fingerprint(r), version |-> version])],
           answer |-> IF reply THEN Committed(version) ELSE Unknown]
     ELSE [model |-> stored,
           answer |-> IF mode = "AckBeforeQuorum" THEN Committed(version) ELSE Unavailable]

\* Every certificate counted, whoever acknowledged.
certified_by_one(m) ==
  {record \in UNION {{m.replicas[n][i] : i \in DOMAIN m.replicas[n]} : n \in Replicas} :
     "envelope" \in DOMAIN decode(encode(record.envelope))}

certified(m) ==
  {record \in UNION {{m.replicas[n][i] : i \in DOMAIN m.replicas[n]} : n \in Replicas} :
     /\ is_quorum(record.certificate)
     /\ "envelope" \in DOMAIN decode(encode(record.envelope))}

\* Outcomes, sequence, index and chain rebuilt from the certified records.
recover(m) ==
  LET envelopes == {record.envelope : record \in certified(m)}
      last      == CHOOSE e \in envelopes : \A f \in envelopes : f.index <= e.index
      of(key)   == CHOOSE e \in envelopes : e.request.key = key
  IN [m EXCEPT
        !.seq = IF envelopes = {} THEN 0 ELSE Max({e.version.seq : e \in envelopes}),
        !.index = IF envelopes = {} THEN 0 ELSE last.index,
        !.chain = IF envelopes = {} THEN NULL ELSE digest(last),
        !.outcomes = IF mode = "RamOnlyDedup" THEN <<>>
                     ELSE [key \in {e.request.key : e \in envelopes} |->
                             [fingerprint |-> of(key).fingerprint, version |-> of(key).version]]]

(***************************************************************************)
(* Scenario.                                                               *)
(***************************************************************************)
body == CHOOSE b \in Bodies : TRUE
scripted(ordinal, generation) == Request(ordinal, generation, body)

\* Records the step's verdict; only the first mismatch is kept.
Check(passed) ==
  /\ step' = step + 1
  /\ mismatch' = IF ~passed /\ mismatch = NULL THEN step + 1 ELSE mismatch
  /\ UNCHANGED <<mode, written, answered>>

Submitted(r, resolvers, tags, fsynced, expected) ==
  LET s == submit(model, r, resolvers, tags, fsynced, TRUE)
  IN model' = s.model /\ Check(s.answer = expected)

codec_round_trip ==
  LET e == Envelope(scripted(0, ActiveGeneration), [gen |-> ActiveGeneration, seq |-> 1], 1, LogTags, NULL)
  IN /\ step = 0
     /\ Check(/\ decode(encode(e)) = [envelope |-> e]
              /\ decode(corrupt(encode(e))) = [error |-> "ChecksumMismatch"])
     /\ UNCHANGED model

happy_commit ==
  /\ step = 1
  /\ Submitted(scripted(1, ActiveGeneration), Resolvers, LogTags, {0, 1},
               Committed([gen |-> ActiveGeneration, seq |-> 1]))

lost_reply_retry ==
  LET r     == scripted(2, ActiveGeneration)
      first == submit(model, r, Resolvers, LogTags, {0, 2}, FALSE)
      retry == submit(recover(first.model), r, Resolvers, LogTags, {1, 2}, TRUE)
  IN /\ step = 2
     /\ model' = retry.model
     /\ Check(/\ first.answer = Unknown
              /\ retry.answer = Committed([gen |-> ActiveGeneration, seq |-> 2]))

conflicting_retry ==
  /\ step = 3
  /\ Submitted(Request(2, ActiveGeneration, NULL), Resolvers, LogTags, {0, 1}, Rejected("ConflictingRetry"))

partial_resolver ==
  /\ step = 4
  /\ Submitted(scripted(3, ActiveGeneration), {1}, LogTags, {0, 1}, Rejected("MissingResolver"))

missing_log_tag ==
  /\ step = 5
  /\ Submitted(scripted(4, ActiveGeneration), Resolvers, {10}, {0, 1}, Rejected("MissingLogTag"))

stale_generation ==
  /\ step = 6
  /\ Submitted(scripted(5, ActiveGeneration - 1), Resolvers, LogTags, {0, 1}, Rejected("StaleGeneration"))

leader_only_fsync ==
  LET s == submit(model, scripted(6, ActiveGeneration), Resolvers, LogTags, {0}, TRUE)
      r == recover(s.model)
  IN /\ step = 7
     /\ model' = r
     /\ Check(s.answer = Unavailable /\ 6 \notin DOMAIN r.outcomes)

ScriptedSteps == 8

(***************************************************************************)
(* Free use of the model after the script.                                 *)
(***************************************************************************)
Free == step = ScriptedSteps /\ mode = "Correct"

Submit(r, resolvers, tags, fsynced, reply) ==
  LET s == submit(model, r, resolvers, tags, fsynced, reply)
  IN /\ Free /\ written < MaxRecords
     /\ model' = s.model
     /\ answered' = IF s.answer.outcome = "Committed"
                    THEN answered \cup {[key |-> r.key, fingerprint |-> fingerprint(r), version |-> s.answer.version]}
                    ELSE answered
     /\ written' = IF s.model # model THEN written + 1 ELSE written
     /\ UNCHANGED <<mode, step, mismatch>>

Recover ==
  /\ Free
  /\ model' = recover(model)
  /\ UNCHANGED <<mode, step, mismatch, answered, written>>

ContractInit ==
  /\ mode \in Modes
  /\ model = EmptyModel /\ step = 0 /\ mismatch = NULL /\ answered = {} /\ written = 0

ContractNext ==
  \/ codec_round_trip \/ happy_commit \/ lost_reply_retry \/ conflicting_retry
  \/ partial_resolver \/ missing_log_tag \/ stale_generation \/ leader_only_fsync
  \/ \E c \in Clients, b \in Bodies, g \in {ActiveGeneration - 1, ActiveGeneration},
        resolvers \in {{1}, Resolvers}, tags \in {{10}, LogTags}, fsynced \in SUBSET Replicas, reply \in BOOLEAN :
       Submit(Request(c, g, b), resolvers, tags, fsynced, reply)
  \/ Recover

ContractSpec == ContractInit /\ [][ContractNext]_vars

-----------------------------------------------------------------------------
\* A client told Committed is answered by recovery with the same version, whatever
\* was lost or retried in between (CommitModel::submit, recover).
AckedSurvives ==
  \A a \in answered :
    /\ a.key \in DOMAIN recover(model).outcomes
    /\ recover(model).outcomes[a.key] = [fingerprint |-> a.fingerprint, version |-> a.version]

\* Two requests are never told the same version, and one request is told one.
VersionsDistinct ==
  \A a, b \in answered : (a.key = b.key) <=> (a.version = b.version)

\* The script reports a mismatch exactly under a control
\* (every_negative_control_has_a_bounded_failure).
ScriptDetects == step = ScriptedSteps => ((mismatch = NULL) <=> (mode = "Correct"))

\* The certified records form one chain without a gap, as the persisted log's
\* validate_envelope_chain demands.  The model does not keep this: an envelope may
\* chain on a record that reached no quorum.
CertifiedChained ==
  \A record \in certified(model) :
    LET e == record.envelope
    IN IF e.index = 1 THEN e.chain = NULL
       ELSE \E before \in certified(model) : digest(before.envelope) = e.chain
=============================================================================
