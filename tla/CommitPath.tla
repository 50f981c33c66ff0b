----------------------------- MODULE CommitPath -----------------------------
(***************************************************************************)
(* The staged commit path end to end: the transaction authority of         *)
(* CellTransaction composed with the tagged-log members that make staged   *)
(* envelopes durable, the commit proxies that append to them, the recovery *)
(* controller that fences them, and the worker that replays them.          *)
(*                                                                         *)
(* CellTransaction lets any quorum of policy members sign anything.  Here  *)
(* a signature exists only if the member's handler in tagged_log_process   *)
(* produces it from its durable log.  A handler runs to completion before  *)
(* the next one of the same process, and its log and fence files are       *)
(* synchronized before it answers, so each handler is one action and a     *)
(* restart changes nothing.  A member that is down simply takes no step.   *)
(* A record is named by its index in staged_transactions: the envelope at  *)
(* an index never changes.                                                 *)
(***************************************************************************)
EXTENDS CellTransaction

CONSTANT MaxLog     \* bound: records one member holds

ASSUME CommitPathConstants ==
    /\ MaxLog \in Nat
    \* "no statement yet" is not a statement
    /\ None \notin [recovery : RecoveryIds, head : Nat]
    /\ None \notin [recovery : RecoveryIds, window : SUBSET Nat]
    \* RFC-0042: every write quorum meets every fence quorum.
    /\ \A set \in LogSets : 2 * PolicyQuorum[set] > Cardinality(PolicyMembers[set])
    /\ \A set, other \in LogSets :
          set # other => PolicyMembers[set] \cap PolicyMembers[other] = {}

VARIABLES
    log,           \* [TLogs -> sequence of staged indexes]
    fence,         \* [TLogs -> [generations -> fence statement or None]]
    prefix_fence   \* [TLogs -> [generations -> prefix-fence statement or None]]

tlogVars   == << log, fence, prefix_fence >>
commitVars == << authority, cellVars, tlogVars >>

Generations == 1 .. MaxGeneration

Held(n) == {log[n][p] : p \in DOMAIN log[n]}

CommitInit ==
    /\ CellInit
    /\ log = [n \in TLogs |-> << >>]
    /\ fence = [n \in TLogs |-> [g \in Generations |-> None]]
    /\ prefix_fence = fence

-----------------------------------------------------------------------------
(***************************************************************************)
(* The handlers of one tagged-log member.                                  *)
(***************************************************************************)

fenced(n, generation) ==
    fence[n][generation] # None \/ prefix_fence[n][generation] # None

\* Append: the proxy read the member's last position and proposes the next one.
\* Two proxies of one transaction may both find it missing, so a record can be
\* appended twice.
TLogAppend(n, i) ==
    /\ ~ fenced(n, staged_transactions[i].generation)
    /\ Len(log[n]) < MaxLog
    /\ log' = [log EXCEPT ![n] = Append(@, i)]
    /\ UNCHANGED << authority, cellVars, fence, prefix_fence >>

\* Attest signs one durable position of the exact record.
attests(n, i, position) ==
    position \in DOMAIN log[n] /\ log[n][position] = i

names_recovery(recovery) == recovery # None

\* Fence: one statement per generation; an exact retry changes nothing.
TLogFence(n, recovery, i) ==
    LET g == staged_transactions[i].generation
        statement == [recovery |-> recovery, head |-> i] IN
    /\ names_recovery(recovery)
    /\ fence[n][g] = None
    /\ fence' = [fence EXCEPT ![n][g] = statement]
    /\ UNCHANGED << authority, cellVars, log, prefix_fence >>

TLogPrefixFence(n, recovery, window) ==
    LET g == domain_generation
        statement == [recovery |-> recovery, window |-> window] IN
    /\ names_recovery(recovery)
    /\ window # {}
    /\ prefix_fence[n][g] = None
    /\ prefix_fence' = [prefix_fence EXCEPT ![n][g] = statement]
    /\ UNCHANGED << authority, cellVars, log, fence >>

\* The signers of an exact statement.  What they observe cannot change after the
\* fence, so a signature made then says what the log says now.
FenceSigners(i) ==
    {n \in TLogs : fence[n][domain_generation] =
        [recovery |-> authority.last_completed_recovery_id, head |-> i]}

PrefixFenceSigners ==
    {n \in TLogs : prefix_fence[n][domain_generation] =
        [recovery |-> authority.last_completed_recovery_id, window |-> Unresolved]}

-----------------------------------------------------------------------------
(***************************************************************************)
(* The commit proxy records a certificate when members attest one common   *)
(* position, and the controller decides with the fence certificates that   *)
(* the members signed.                                                     *)
(***************************************************************************)
Configured == \A set \in LogSets : log_set_policies[set] # None

Certify(i, set) ==
    \E position \in 1 .. MaxLog :
       LET signers == {n \in PolicyMembers[set] : attests(n, i, position)} IN
       RecordLogCertificate(i, set, signers)

DecideHead(i) ==
    \E signers \in Quorums :
       /\ \A set \in LogSets : signers[set] \subseteq FenceSigners(i)
       /\ TakeoverAbort(i, SeenBy(signers, [n \in TLogs |-> i \in Held(n)]))

DecideWindow ==
    \E signers \in Quorums, kept \in SUBSET Unresolved :
       /\ \A set \in LogSets : signers[set] \subseteq PrefixFenceSigners
       /\ TakeoverRecoverPrefix(kept, SeenBy(signers, [n \in TLogs |-> Held(n)]))

\* The recovery a controller fences for: the one under way, or the last one.
ControllerRecovery ==
    IF authority.recovery_id # None THEN authority.recovery_id
    ELSE authority.last_completed_recovery_id

AuthoritySteps(may_stage) ==
    \/ \E t \in Txns : read_version[t] = None /\ GetReadVersion(t)
    \/ InstallLogSetPolicies(LogSets)
    \/ \E t \in Txns : may_stage /\ Configured /\ Stage(t, None)
    \/ \E i \in Unresolved : \/ \E set \in LogSets : Certify(i, set)
                             \/ Publish(i)
    \/ AuthorityNext

TakeoverSteps ==
    \/ \E i \in Unresolved : TakeoverPublish(i) \/ DecideHead(i)
    \/ successor_authorized /\ DecideWindow

MemberSteps(may_fence) ==
    \E n \in TLogs :
       \/ \E i \in Staged : TLogAppend(n, i)
       \/ \E recovery \in RecoveryIds \cup {None} :
             /\ may_fence
             /\ domain_generation < MaxGeneration    \* a successor is within the bound
             /\ \/ \E i \in Unresolved : TLogFence(n, recovery, i)
                \/ TLogPrefixFence(n, recovery, Unresolved)

\* Everything the code admits, in any order: a controller may fence members while
\* the old generation is still staging, and a successor may stage before it has
\* decided what it found.
CommitNext ==
    \/ AuthoritySteps(TRUE) /\ UNCHANGED tlogVars
    \/ TakeoverSteps /\ UNCHANGED tlogVars
    \/ MemberSteps(TRUE)

CommitSpec == CommitInit /\ [][CommitNext]_commitVars

-----------------------------------------------------------------------------
(***************************************************************************)
(* Progress.  Proxies may die at any point and owe nothing.  The recovery  *)
(* controller is restarted until its recovery is complete, and members     *)
(* answer its fence requests.                                              *)
(***************************************************************************)
InStep == authority.generation = domain_generation

\* A successor that stages nothing before it has decided its predecessor's window,
\* and a controller that fences members once the data log is fenced.
CarefulNext ==
    \/ AuthoritySteps(InStep) /\ UNCHANGED tlogVars
    \/ TakeoverSteps /\ UNCHANGED tlogVars
    \/ MemberSteps(~ InStep)

ControllerFairness ==
    /\ WF_commitVars(AuthorityNext /\ authority.phase # "Active" /\ UNCHANGED tlogVars)
    /\ \A n \in TLogs :
          WF_commitVars(/\ ~ InStep
                        /\ TLogPrefixFence(n, ControllerRecovery, Unresolved))
    /\ WF_commitVars(successor_authorized /\ DecideWindow /\ UNCHANGED tlogVars)

CarefulSpec == CommitInit /\ [][CarefulNext]_commitVars /\ ControllerFairness

\* The order of the multi-record recovery scenario: members are fenced over the
\* window first, and the data log after them.
EarlyFenceNext ==
    \/ AuthoritySteps(InStep) /\ UNCHANGED tlogVars
    \/ TakeoverSteps /\ UNCHANGED tlogVars
    \/ MemberSteps(TRUE)

EarlyFenceSpec == CommitInit /\ [][EarlyFenceNext]_commitVars /\ ControllerFairness

-----------------------------------------------------------------------------
(***************************************************************************)
(* The lag worker rebuilds the domain from the logs: for each version from *)
(* the first to the target it takes the envelope that a quorum of every    *)
(* log set holds, and stops at a version that has none or that does not    *)
(* continue the chain in its generation.                                   *)
(***************************************************************************)
\* Mutated form: one copy is enough.
held_by_any(i, set) == \E n \in PolicyMembers[set] : i \in Held(n)

held_by_quorum(i, set) ==
    Cardinality({n \in PolicyMembers[set] : i \in Held(n)}) >= PolicyQuorum[set]

recovered(version, i) ==
    /\ staged_transactions[i].sequence = version
    /\ \A set \in LogSets : held_by_quorum(i, set)

\* The envelopes applied on top of the first `base` committed ones, through version
\* `target`; a version that cannot be applied ends the replay.
replayed(base, target, generation) ==
    LET frontier == IF base = 0 THEN 0 ELSE committed_envelopes[base].sequence
        origin   == IF base = 0 THEN Genesis ELSE digest(committed_envelopes[base])
        continues(i, chain) == /\ staged_transactions[i].generation = generation
                               /\ staged_transactions[i].prev = chain
        replay[v \in frontier .. target] ==
          IF v = frontier THEN << >>
          ELSE LET before == replay[v - 1]
                   chain  == IF before = << >> THEN origin
                             ELSE digest(before[Len(before)])
                   found  == {i \in Staged : recovered(v, i) /\ continues(i, chain)}
               IN IF Len(before) # v - 1 - frontier \/ found = {} THEN before
                  ELSE Append(before,
                              EnvelopeOf(staged_transactions[CHOOSE i \in found : TRUE]))
    IN replay[target]

-----------------------------------------------------------------------------
\* Type invariant of the members' durable files.
CommitTypeOK ==
    /\ \A n \in TLogs : /\ Len(log[n]) <= MaxLog
                        /\ Held(n) \subseteq Staged
    /\ fence \in [TLogs -> [Generations ->
          [recovery : RecoveryIds, head : Staged] \cup {None}]]
    /\ prefix_fence \in [TLogs -> [Generations ->
          [recovery : RecoveryIds, window : SUBSET Staged] \cup {None}]]

\* What a client can read is durable: every visible transaction is held by a quorum
\* of every required log set, also when a takeover published it (RFC-0039).
VisibleIsDurable ==
    \A i \in Staged : staged_transactions[i].status = "visible" =>
       \A set \in LogSets : held_by_quorum(i, set)

\* The members that hold record i or may still append it.
MayHold(i, set) ==
    {n \in PolicyMembers[set] :
       \/ i \in Held(n)
       \/ LET g == staged_transactions[i].generation IN
          fence[n][g] = None /\ prefix_fence[n][g] = None}

\* An abort is permanent (RFC-0042): the aborted record, or an earlier aborted one
\* that it chains from, can never reach a quorum of some required log set, however
\* late an append arrives.
AbortedNeverDurable ==
    \A i \in Staged : staged_transactions[i].status = "aborted" =>
       \E j \in 1 .. i :
          /\ staged_transactions[j].status = "aborted"
          /\ staged_transactions[j].generation = staged_transactions[i].generation
          /\ \E set \in LogSets :
                Cardinality(MayHold(j, set)) < PolicyQuorum[set]

\* No durability obligation is dropped (RFC-0041): a transaction with a certificate
\* from every log set is aborted only behind an aborted one that lacks one.
CertifiedPrefixSurvives ==
    \A i \in Staged : staged_transactions[i].status = "aborted" =>
       \E j \in 1 .. i : /\ staged_transactions[j].status = "aborted"
                         /\ staged_transactions[j].certificates # LogSets

\* A worker that replays the logs through the visible frontier applies only
\* committed envelopes, in order, whatever staged, aborted or duplicated records
\* the members also hold (RFC-0036).
ReplayIsCommittedPrefix ==
    \A base \in 0 .. Len(committed_envelopes), generation \in Generations :
       LET rebuilt == replayed(base, latest_sequence, generation) IN
       /\ base + Len(rebuilt) <= Len(committed_envelopes)
       /\ rebuilt = SubSeq(committed_envelopes, base + 1, base + Len(rebuilt))

\* A staged transaction of a generation that ended is decided by the successor
\* (RFC-0043).
PredecessorWindowDecided ==
    \A k \in 1 .. Cardinality(Txns) :
       (k \in Unresolved /\ ~ InStep) ~> (k \notin Unresolved)

-----------------------------------------------------------------------------
\* RFC-0042: "This deliberately permits gaps in the visible logical version
\* sequence": replaying the logs on top of a base that ends with the previous
\* generation rebuilds the rest of the history, whichever versions were aborted.
ReplayReachesFrontier ==
    \A base \in 0 .. Len(committed_envelopes) :
       (\A k \in base + 1 .. Len(committed_envelopes) :
           committed_envelopes[k].generation = domain_generation) =>
          replayed(base, latest_sequence, domain_generation) =
             SubSeq(committed_envelopes, base + 1, Len(committed_envelopes))
=============================================================================
