-------------------------- MODULE DataGeneration --------------------------
(***************************************************************************)
(* A generation handoff between the coordinator and the data log           *)
(* (okv-consensus: the request handlers of rpc.rs, the generation branch   *)
(* of the replicated state machine, and the process contract that drives   *)
(* one handoff, generation_process_contract.rs).                           *)
(*                                                                         *)
(* The coordinator and the data log are each one linearizable log; Raft    *)
(* itself is assumed.  A data handler reads the coordinator first and      *)
(* submits to its own log afterwards, so the coordinator may move in       *)
(* between: `flight` holds the requests that passed their check.           *)
(*                                                                         *)
(* The voters of generation g are one group, named g, which is also its    *)
(* transaction-system identity.  A lagging voter signs what any earlier    *)
(* prefix of the log let it observe, so `signable` keeps the statements of *)
(* every prefix; the signers of a certificate are a sequence of the        *)
(* group's Signers.  A voter-set change writes a joint and a final entry.  *)
(***************************************************************************)
EXTENDS Integers, FiniteSets, Sequences, SequencesExt

CONSTANTS
    Recoveries,      \* recovery identities; the contract uses the first two
    Writes,          \* payloads of the free part's client writes
    MaxGeneration,   \* bound: no Prepare beyond this generation
    MaxFlight,       \* bound: authorized requests not yet submitted
    MaxIndex,        \* bound: entries of the data log
    NULL

VARIABLES
    part,            \* "free" or "contract"
    mode,            \* GenerationProcessMode; Correct in the free part
    sys,             \* [authority, data, signable]
    flight,          \* requests whose coordinator check has succeeded
    step,            \* next step of the contract
    observed         \* checks the contract has seen to hold

vars == <<part, mode, sys, flight, step, observed>>

Signers == 1 .. 3

Modes ==
    {"Correct", "BypassStaleCommitFence", "AcceptWriteDuringRecovery",
     "AcceptCompetingRecovery", "ActivateWithoutRecoveryProof",
     "AcceptSingleSignerFence", "AcceptTamperedFencePosition",
     "AcceptDuplicateRecoverySigner", "AcceptStaleRecoveryCertificate",
     "AcceptWrongRecoveryMembership"}

certificate_probe ==
    [AcceptSingleSignerFence        |-> "SingleSignerFence",
     AcceptTamperedFencePosition    |-> "TamperedFencePosition",
     AcceptDuplicateRecoverySigner  |-> "DuplicateRecoverySigner",
     AcceptStaleRecoveryCertificate |-> "StaleRecoveryCertificate",
     AcceptWrongRecoveryMembership  |-> "WrongRecoveryMembership"]

probing == mode \in DOMAIN certificate_probe

-----------------------------------------------------------------------------
\* The generation descriptor, kept by the coordinator and mirrored in the data
\* log.
Uninitialized ==
    [phase |-> "Uninitialized", generation |-> 0, recovery |-> NULL,
     active |-> 0, pending |-> 0, fenced |-> 0, recovered |-> 0]

authorizes(d, g) == d.phase = "Active" /\ d.generation = g /\ d.active = g

authorizes_recovery(d, g, recovery) ==
    /\ d.phase = "Recovering"
    /\ d.generation = g /\ d.recovery = recovery /\ d.pending = g

authorizes_fencing(d, g, recovery) ==
    /\ d.phase = "Fencing"
    /\ d.generation = g /\ d.recovery = recovery /\ d.pending = g

\* RecoveryCertificateStatement::new; `members` stands for the digest of the
\* certified voter map.
Statement(kind, d, position, members) ==
    [kind |-> kind, generation |-> d.generation, recovery |-> d.recovery,
     active |-> d.active, pending |-> d.pending,
     position |-> position, members |-> members]

\* `signed` is the statement the signatures cover.
Certificate(statement, signers) ==
    [statement |-> statement, signed |-> statement, signers |-> signers]

verify_recovery_certificate(d, certificate, kind, members) ==
    LET s == certificate.statement IN
    /\ s = Statement(kind, d, s.position, members)
    /\ s.position # 0
    /\ kind = "Recovered" => s.position > d.fenced
    /\ s = certificate.signed
    /\ IsInjective(certificate.signers)
    /\ 2 * Len(certificate.signers) > Cardinality(Signers)

Prepared(d, a) ==
    [d EXCEPT !.generation = a.next, !.phase = "Fencing",
              !.recovery = a.recovery, !.pending = a.next,
              !.fenced = 0, !.recovered = 0]

Activated(d, position) ==
    [d EXCEPT !.phase = "Active", !.recovery = NULL, !.active = d.pending,
              !.pending = 0, !.recovered = position]

\* GenerationAuthorityState::apply: the status and the descriptor after it.
Outcome(status, d) == [status |-> status, state |-> d]

apply_prepare(d, a) ==
    LET normal    == d.phase = "Active" /\ a.next = d.generation + 1
        competing == /\ mode = "AcceptCompetingRecovery"
                     /\ d.phase = "Fencing" /\ a.next = d.generation
    IN  IF normal \/ competing THEN Outcome("Accepted", Prepared(d, a))
        ELSE Outcome(IF a.next <= d.generation THEN "StaleGeneration"
                     ELSE "RecoveryConflict", d)

apply_reserve(d, a) ==
    IF d.phase # "Fencing" \/ a.next # d.generation THEN
        Outcome("InvalidPhase", d)
    ELSE IF d.recovery # a.recovery THEN Outcome("RecoveryConflict", d)
    ELSE IF a.certificate = NULL THEN Outcome("MissingRecoveryProof", d)
    ELSE IF ~ probing /\ ~ verify_recovery_certificate(d, a.certificate,
                                                       "Fence", d.active) THEN
        Outcome("InvalidRecoveryProof", d)
    ELSE Outcome("Accepted", [d EXCEPT !.phase = "Recovering",
                  !.fenced = a.certificate.statement.position])

apply_activate(d, a) ==
    IF d.phase # "Recovering" \/ a.next # d.generation THEN
        Outcome("InvalidPhase", d)
    ELSE IF d.recovery # a.recovery THEN Outcome("RecoveryConflict", d)
    ELSE IF a.certificate = NULL THEN
        IF mode = "ActivateWithoutRecoveryProof"
        THEN Outcome("Accepted", Activated(d, d.recovered))
        ELSE Outcome("MissingRecoveryProof", d)
    ELSE IF ~ probing /\ ~ verify_recovery_certificate(d, a.certificate,
                                                 "Recovered", d.pending) THEN
        Outcome("InvalidRecoveryProof", d)
    ELSE Outcome("Accepted", Activated(d, a.certificate.statement.position))

apply_bootstrap(d, a) ==
    IF d.phase # "Uninitialized" THEN Outcome("InvalidPhase", d)
    ELSE Outcome("Accepted", [d EXCEPT !.phase = "Active",
                                !.generation = a.next, !.active = a.next])

apply_generation(d, a) ==
    CASE a.type = "Bootstrap" -> apply_bootstrap(d, a)
      [] a.type = "Prepare"   -> apply_prepare(d, a)
      [] a.type = "Reserve"   -> apply_reserve(d, a)
      [] a.type = "Activate"  -> apply_activate(d, a)

Action(type, next, recovery, certificate) ==
    [type |-> type, next |-> next, recovery |-> recovery,
     certificate |-> certificate]

-----------------------------------------------------------------------------
\* The data log: its length, the mirror of the descriptor, the entries the
\* certificates name, the voters and learners, and the writes it has applied.
EmptyLog ==
    [index |-> 1, mirror |-> Uninitialized, transition |-> 0, membership |-> 1,
     voters |-> {1}, learners |-> {}, writes |-> << >>, outcomes |-> {}]

\* What the voters of a prefix may sign (recovery_attest).
observations_of(data) ==
    LET d == data.mirror IN
    IF d.phase = "Fencing" THEN
        {Statement("Fence", d, data.transition, d.active)}
    ELSE IF d.phase = "Recovering" THEN
        {Statement("Recovered", d, data.membership, d.pending)}
    ELSE {}

Logged(s, data) ==
    [s EXCEPT !.data = data,
              !.signable = @ \cup observations_of(data)]

\* Mutated form: what the coordinator once authorized always applies.
apply_write_unfenced(s, write, g) ==
    LET index == s.data.index + 1 IN
    Logged(s, [s.data EXCEPT !.index = index,
        !.writes = Append(@, [payload |-> write, generation |-> g,
                              index |-> index])])

\* StateMachineStore::apply, by kind of entry.  The outcome of a write, a fenced
\* one included, is retained under its identity and never recomputed.
apply_write(s, write, g) ==
    LET d      == s.data.mirror
        known  == <<write, g>> \in s.data.outcomes
        fenced == /\ d.phase # "Uninitialized"
                  /\ mode # "BypassStaleCommitFence"
                  /\ ~ authorizes(d, g)
                  /\ ~ (/\ mode = "AcceptWriteDuringRecovery"
                        /\ authorizes_recovery(d, g, d.recovery))
        index  == s.data.index + 1
    IN  Logged(s, [s.data EXCEPT !.index = index,
            !.outcomes = @ \cup {<<write, g>>},
            !.writes = IF known \/ fenced THEN @
                       ELSE Append(@, [payload |-> write, generation |-> g,
                                       index |-> index])])

apply_mirror(s, a) ==
    LET out   == apply_generation(s.data.mirror, a)
        index == s.data.index + 1
    IN  [status |-> out.status, index |-> index,
         sys |-> Logged(s, [s.data EXCEPT !.index = index,
                    !.mirror = out.state,
                    !.transition = IF out.status = "Accepted" THEN index
                                   ELSE @])]

apply_learner(s, group) ==
    Logged(s, [s.data EXCEPT !.index = @ + 1,
                             !.membership = s.data.index + 1,
                             !.learners = @ \cup {group}])

apply_voters(s, group) ==
    LET joint == Logged(s, [s.data EXCEPT !.index = @ + 1,
                                 !.membership = s.data.index + 1,
                                 !.voters = @ \cup {group}])
    IN  Logged(joint, [joint.data EXCEPT !.index = @ + 1,
                                 !.membership = joint.data.index + 1,
                                 !.voters = {group},
                                 !.learners = @ \ {group}])

-----------------------------------------------------------------------------
\* The coordinator checks of the handlers, made at the serving group `at`.
bypass_commit_fence(at) == mode = "BypassStaleCommitFence" /\ at = 1

accept_recovering_commits(at) == mode = "AcceptWriteDuringRecovery" /\ at = 2

authorize_commit(d, at, g) ==
    /\ at = g
    /\ \/ bypass_commit_fence(at)
       \/ authorizes(d, g)
       \/ /\ accept_recovering_commits(at)
          /\ authorizes_recovery(d, g, d.recovery)

may_add_learner(d, at, group) ==
    d.phase = "Fencing" /\ d.active = at /\ d.pending = group

\* Mutated form: the mirror may activate what the coordinator still recovers.
matches_while_recovering(d, a) ==
    CASE a.type = "Bootstrap" -> authorizes(d, a.next)
      [] a.type = "Prepare"   -> authorizes_fencing(d, a.next, a.recovery)
      [] a.type = "Reserve"   ->
            /\ authorizes_recovery(d, a.next, a.recovery)
            /\ a.certificate # NULL
            /\ a.certificate.statement.position = d.fenced
      [] a.type = "Activate"  -> d.generation = a.next

authority_matches_data_transition(d, a) ==
    CASE a.type = "Bootstrap" -> authorizes(d, a.next)
      [] a.type = "Prepare"   -> authorizes_fencing(d, a.next, a.recovery)
      [] a.type = "Reserve"   ->
            /\ authorizes_recovery(d, a.next, a.recovery)
            /\ a.certificate # NULL
            /\ a.certificate.statement.position = d.fenced
      [] a.type = "Activate"  ->
            /\ authorizes(d, a.next)
            /\ d.recovered = IF a.certificate = NULL THEN 0
                             ELSE a.certificate.statement.position

authorized(d, r) ==
    CASE r.op = "write"   -> authorize_commit(d, r.at, r.generation)
      [] r.op = "learner" -> may_add_learner(d, r.at, r.group)
      [] r.op = "voters"  -> authorizes_recovery(d, r.group, r.recovery)
      [] r.op = "mirror"  -> authority_matches_data_transition(d, r.action)

\* The submission: only a voter leads, and a voter must have been a learner.
submits(s, r) ==
    /\ r.at \in s.data.voters
    /\ r.op = "voters" => r.group \in s.data.learners \cup s.data.voters

submitted(s, r) ==
    CASE r.op = "write"   -> apply_write(s, r.payload, r.generation)
      [] r.op = "learner" -> apply_learner(s, r.group)
      [] r.op = "voters"  -> apply_voters(s, r.group)
      [] r.op = "mirror"  -> apply_mirror(s, r.action).sys

Write(at, g, payload) ==
    [op |-> "write", at |-> at, generation |-> g, payload |-> payload]

Learner(at, group) == [op |-> "learner", at |-> at, group |-> group]

Voters(at, group, recovery) ==
    [op |-> "voters", at |-> at, group |-> group, recovery |-> recovery]

Mirror(at, action) == [op |-> "mirror", at |-> at, action |-> action]

\* collect_certificate: every voter of the certified group answers, which takes
\* a group that holds the log.
collectable(s, statement) ==
    /\ statement \in s.signable
    /\ statement.members \in s.data.voters \cup s.data.learners

collect_certificate(statement) == Certificate(statement, <<1, 2, 3>>)

-----------------------------------------------------------------------------
\* The free part: a controller and clients in any order.
Groups == 1 .. MaxGeneration

Certificates ==
    {collect_certificate(s) : s \in {t \in sys.signable : collectable(sys, t)}}

\* generation_write
GenerationWrite(a) ==
    LET out == apply_generation(sys.authority, a) IN
    /\ part = "free"
    /\ out.status = "Accepted"
    /\ sys' = [sys EXCEPT !.authority = out.state]
    /\ UNCHANGED <<part, mode, flight, step, observed>>

PrepareNext ==
    \E recovery \in Recoveries :
       /\ sys.authority.generation < MaxGeneration
       /\ GenerationWrite(Action("Prepare", sys.authority.generation + 1,
                                 recovery, NULL))

ReserveNext ==
    \E c \in Certificates :
       GenerationWrite(Action("Reserve", c.statement.generation,
                              c.statement.recovery, c))

ActivateNext ==
    \E c \in Certificates :
       GenerationWrite(Action("Activate", c.statement.generation,
                              c.statement.recovery, c))

\* client_write, add_learner, change_membership and data_generation_write up
\* to their submission.
Requests ==
    {Write(g, g, w) : g \in Groups, w \in Writes} \cup
    {Learner(at, at + 1) : at \in Groups} \cup
    {Voters(at, at + 1, r) : at \in Groups, r \in Recoveries} \cup
    {Mirror(1, Action("Bootstrap", 1, NULL, NULL))} \cup
    {Mirror(at, Action("Prepare", at + 1, r, NULL)) :
        at \in Groups, r \in Recoveries} \cup
    {Mirror(at, Action(type, c.statement.generation, c.statement.recovery, c)) :
        at \in Groups, type \in {"Reserve", "Activate"}, c \in Certificates}

Authorize(r) ==
    /\ part = "free"
    /\ Cardinality(flight) < MaxFlight
    /\ r \notin flight
    /\ authorized(sys.authority, r)
    /\ flight' = flight \cup {r}
    /\ UNCHANGED <<part, mode, sys, step, observed>>

\* A request whose node does not lead any more fails.
Submit(r) ==
    /\ part = "free"
    /\ r \in flight
    /\ sys.data.index + (IF r.op = "voters" THEN 2 ELSE 1) <= MaxIndex
    /\ flight' = flight \ {r}
    /\ sys' = IF submits(sys, r) THEN submitted(sys, r) ELSE sys
    /\ UNCHANGED <<part, mode, step, observed>>

-----------------------------------------------------------------------------
\* The process contract, GenerationScenario::run.
Recovery == CHOOSE r \in Recoveries : TRUE

Competing == CHOOSE r \in Recoveries : r # Recovery

Checks ==
    {"coordinator_bootstrapped", "generation_one_commit_replicated",
     "generation_two_learners_caught_up", "quorum_fence_certificate_committed",
     "inflight_commit_rejected_by_data_fence", "next_generation_reserved",
     "old_generation_fenced", "reservation_survived_authority_failover",
     "competing_recovery_rejected", "membership_handoff_committed",
     "generation_two_leader_ready", "write_during_recovery_rejected",
     "quorum_recovery_certificate_required", "generation_two_activated",
     "generation_two_continued_exactly", "removed_generation_remained_fenced"}

payloads(s) == [i \in 1 .. Len(s.data.writes) |-> s.data.writes[i].payload]

\* write_data: refused by the coordinator check, by a node that does not lead,
\* or by the fence at application.
write_data(s, at, g, payload) ==
    LET r == Write(at, g, payload) IN
    IF authorized(s.authority, r) /\ submits(s, r) THEN submitted(s, r) ELSE s

\* write_preauthorized_data: the check was made before the fence.
write_preauthorized_data(s, at, g, payload) ==
    submitted(s, Write(at, g, payload))

wrote(before, after) == Len(after.data.writes) > Len(before.data.writes)

coordinator(s, a) ==
    LET out == apply_generation(s.authority, a)
    IN  [status |-> out.status, sys |-> [s EXCEPT !.authority = out.state]]

\* invalid_certificate
invalid_certificate(valid, probe) ==
    CASE probe = "SingleSignerFence"        -> [valid EXCEPT !.signers = <<1>>]
      [] probe = "TamperedFencePosition"    ->
            [valid EXCEPT !.statement.position = @ + 1]
      [] probe = "DuplicateRecoverySigner"  ->
            [valid EXCEPT !.signers = Append(@, 1)]
      [] probe = "StaleRecoveryCertificate" ->
            [valid EXCEPT !.statement.recovery = NULL]
      [] probe = "WrongRecoveryMembership"  ->
            [valid EXCEPT !.statement.members = 0]

\* reject_invalid_fence_certificates, reject_invalid_recovery_certificates: the
\* probes one by one, up to the first that the coordinator accepts.
selected(probes) ==
    IF probing THEN SelectSeq(probes, LAMBDA p : p = certificate_probe[mode])
    ELSE probes

reject_invalid(s, type, valid, probes) ==
    LET attempt(p) == coordinator(s, Action(type, 2, s.authority.recovery,
                                            invalid_certificate(valid, p)))
        accepted == SelectInSeq(selected(probes), LAMBDA p :
                        attempt(p).status # "InvalidRecoveryProof")
    IN  [rejected |-> accepted = 0,
         sys |-> IF accepted = 0 THEN s
                 ELSE attempt(selected(probes)[accepted]).sys]

fence_probes == <<"SingleSignerFence", "TamperedFencePosition">>

recovery_probes == <<"DuplicateRecoverySigner", "StaleRecoveryCertificate",
                     "WrongRecoveryMembership">>

Finished == 10

Observe(n, s, next, checks) ==
    /\ part = "contract"
    /\ step = n
    /\ sys' = s
    /\ step' = next
    /\ observed' = observed \cup {c \in DOMAIN checks : checks[c]}
    /\ UNCHANGED <<part, mode, flight>>

StartAuthority ==
    LET out == coordinator(sys, Action("Bootstrap", 1, NULL, NULL)) IN
    Observe(1, out.sys, 2,
        [coordinator_bootstrapped |-> /\ out.status = "Accepted"
                                      /\ authorizes(out.sys.authority, 1)])

StartGenerationOne ==
    LET out == apply_mirror(sys, Action("Bootstrap", 1, NULL, NULL))
        s   == write_data(out.sys, 1, 1, "A")
    IN  Observe(2, s, 3,
            [generation_one_commit_replicated |-> payloads(s) = <<"A">>])

add_generation_two_learners(s) == submitted(s, Learner(1, 2))

\* The second Prepare names another recovery; what the coordinator answers
\* decides which one goes on.
PrepareAndLearners ==
    LET first  == coordinator(sys, Action("Prepare", 2, Recovery, NULL))
        second == coordinator(first.sys, Action("Prepare", 2, Competing, NULL))
        s      == add_generation_two_learners(second.sys)
    IN  /\ authorized(second.sys.authority, Learner(1, 2))
        /\ Observe(3, s, 4,
              [competing_recovery_rejected |-> second.status # "Accepted",
               generation_two_learners_caught_up |-> payloads(s) = <<"A">>])

FenceData ==
    LET prepare   == Action("Prepare", 2, sys.authority.recovery, NULL)
        fence     == apply_mirror(sys, prepare)
        d         == fence.sys.data.mirror
        statement == Statement("Fence", d, fence.index, 1)
        probe     == reject_invalid(fence.sys, "Reserve",
                        collect_certificate(statement), fence_probes)
    IN  /\ authority_matches_data_transition(sys.authority, prepare)
        /\ collectable(fence.sys, statement)
        /\ Observe(4, probe.sys, IF probe.rejected THEN 5 ELSE Finished,
              [quorum_fence_certificate_committed |->
                  /\ fence.status = "Accepted" /\ d.phase = "Fencing"
                  /\ probe.rejected])

ReserveData ==
    LET s0          == write_preauthorized_data(sys, 1, 1, "INFLIGHT")
        certificate == collect_certificate(
                          Statement("Fence", s0.data.mirror,
                                    s0.data.transition, 1))
        reserve     == Action("Reserve", 2, s0.authority.recovery, certificate)
        out         == coordinator(s0, reserve)
        mirror      == apply_mirror(out.sys, reserve)
        s1          == write_data(mirror.sys, 1, 1, "STALE")
    IN  Observe(5, s1, 6,
          [inflight_commit_rejected_by_data_fence |-> ~ wrote(sys, s0),
           next_generation_reserved |->
              /\ out.status = "Accepted"
              /\ out.sys.authority.phase = "Recovering"
              /\ out.sys.authority.fenced = certificate.statement.position
              /\ authority_matches_data_transition(out.sys.authority, reserve)
              /\ mirror.status = "Accepted",
           old_generation_fenced |-> ~ wrote(mirror.sys, s1)])

\* The coordinator's leader is killed; its log survives.
HandOff ==
    LET r  == Voters(1, 2, sys.authority.recovery)
        ok == authorized(sys.authority, r) /\ submits(sys, r)
        s0 == IF ok THEN submitted(sys, r) ELSE sys
        s1 == write_data(s0, 2, 2, "EARLY")
    IN  Observe(6, s1, IF ok THEN 7 ELSE Finished,
          [reservation_survived_authority_failover |->
              /\ sys.authority.phase = "Recovering"
              /\ sys.authority.generation = 2,
           membership_handoff_committed |-> ok,
           generation_two_leader_ready |-> s0.data.voters = {2},
           write_during_recovery_rejected |-> ~ wrote(s0, s1)])

recovered_certificate(s) ==
    collect_certificate(Statement("Recovered", s.data.mirror,
                                  s.data.membership, 2))

ProbeRecovered ==
    LET probe == reject_invalid(sys, "Activate", recovered_certificate(sys),
                                recovery_probes)
        bare  == coordinator(probe.sys, Action("Activate", 2,
                                probe.sys.authority.recovery, NULL))
    IN  /\ collectable(sys, recovered_certificate(sys).statement)
        /\ Observe(7, IF probe.rejected THEN bare.sys ELSE probe.sys,
              IF probe.rejected THEN 8 ELSE Finished,
              [quorum_recovery_certificate_required |->
                  probe.rejected /\ bare.status = "MissingRecoveryProof"])

\* Had the bare activation been accepted, it is the one the data log repeats.
ActivateData ==
    LET certificate == recovered_certificate(sys)
        bare   == sys.authority.phase = "Active"
        action == Action("Activate", 2, sys.data.mirror.recovery,
                         IF bare THEN NULL ELSE certificate)
        out    == IF bare THEN [status |-> "Accepted", sys |-> sys]
                  ELSE coordinator(sys, action)
        mirror == apply_mirror(out.sys, action)
    IN  Observe(8, mirror.sys, 9,
          [generation_two_activated |->
              /\ out.status = "Accepted"
              /\ authorizes(out.sys.authority, 2)
              /\ out.sys.authority.recovered = certificate.statement.position
              /\ authority_matches_data_transition(out.sys.authority, action)
              /\ mirror.status = "Accepted"])

Continue ==
    LET s0 == write_data(sys, 2, 2, "B")
        s1 == write_data(s0, 1, 1, "REMOVED")
    IN  Observe(9, s1, Finished,
          [generation_two_continued_exactly |-> payloads(s0) = <<"A", "B">>,
           removed_generation_remained_fenced |-> ~ wrote(s0, s1)])

ContractNext ==
    \/ StartAuthority \/ StartGenerationOne \/ PrepareAndLearners
    \/ FenceData \/ ReserveData \/ HandOff \/ ProbeRecovered
    \/ ActivateData \/ Continue

-----------------------------------------------------------------------------
\* In the free part the coordinator is bootstrapped and the data log is not.
HandoffInit ==
    /\ part \in {"free", "contract"}
    /\ mode \in IF part = "free" THEN {"Correct"} ELSE Modes
    /\ sys = [authority |-> IF part = "contract" THEN Uninitialized
                 ELSE apply_bootstrap(Uninitialized,
                         Action("Bootstrap", 1, NULL, NULL)).state,
               data |-> EmptyLog, signable |-> {}]
    /\ flight = {}
    /\ step = 1
    /\ observed = {}

HandoffNext ==
    \/ PrepareNext \/ ReserveNext \/ ActivateNext
    \/ \E r \in Requests : Authorize(r)
    \/ \E r \in flight : Submit(r)
    \/ ContractNext

HandoffSpec == HandoffInit /\ [][HandoffNext]_vars

-----------------------------------------------------------------------------
\* What the coordinator certifies bounds what the data log applies: every write
\* of an earlier generation lies before the certified fence, and a write of the
\* new generation lies after the certified recovered position, whatever was
\* authorized before the coordinator moved (rpc.rs authorize_commit,
\* StateMachineStore::apply, verify_recovery_certificate).
FenceSeparatesGenerations ==
    \A w \in ToSet(sys.data.writes) :
       part = "free" /\ sys.authority.fenced # 0 =>
          IF w.generation < sys.authority.generation
          THEN w.index < sys.authority.fenced
          ELSE /\ sys.authority.phase = "Active"
               /\ w.index > sys.authority.recovered

PhaseOrder(d) ==
    3 * d.generation + (CASE d.phase = "Fencing"    -> 0
                          [] d.phase = "Recovering" -> 1
                          [] OTHER                  -> 2)

\* The mirror of the descriptor in the data log never runs ahead of the
\* coordinator (rpc.rs data_generation_write).
MirrorFollows ==
    part = "free" => PhaseOrder(sys.data.mirror) <= PhaseOrder(sys.authority)

\* An activated generation's voters are the voters of the data log: the
\* recovered certificate stands for the voter-set transition (rfcs/0009: a node
\* "signs a `recovered` statement only when the position equals the applied
\* voter-set transition").  recovery_attest takes the last membership entry,
\* whichever it is.
ActivatedIsHandedOver ==
    part = "free" /\ sys.authority.phase = "Active" =>
        sys.authority.active \in sys.data.voters

\* While the coordinator fences a generation, the data log can still follow: its
\* mirror is active in the generation to be fenced, or fenced already.
MirrorCanFollow ==
    part = "free" /\ sys.authority.phase = "Fencing" =>
        \/ authorizes(sys.data.mirror, sys.authority.active)
        \/ sys.data.mirror.generation = sys.authority.generation

\* The contract reports no failed check exactly when no handler is poisoned
\* (build_report).
HandoffDetects ==
    step = Finished => (observed = Checks <=> mode = "Correct")
=============================================================================
