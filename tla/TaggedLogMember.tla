-------------------------- MODULE TaggedLogMember --------------------------
(***************************************************************************)
(* One tagged-log process and its private root: the write-ahead log of     *)
(* okv-wal with one replica, the retention state, and the generation       *)
(* fences (tagged_log_process.rs).  The process keeps nothing in memory    *)
(* between requests: every request opens the log, recovers it, loads or    *)
(* repairs the retention state and only then looks at its arguments.  What *)
(* a crash interrupts is therefore the sequence of synchronized writes     *)
(* inside one handler, and each handler below may stop after any of them.  *)
(*                                                                         *)
(* CommitPath treats a handler as one step over an ideal log; this module  *)
(* is what that step rests on.                                             *)
(*                                                                         *)
(* Abstractions: an envelope is its version and its generation; every      *)
(* record counts one unit of retained bytes; records carry the tags their  *)
(* envelope requires; the eval-only switches of the configuration          *)
(* (accept_*, persist_fences = false) are off.                             *)
(***************************************************************************)
EXTENDS Naturals, Sequences, FiniteSets

CONSTANTS
    Nodes,          \* tagged-log processes of one log set
    Learners,       \* the ones configured as repair learners
    Envelopes,      \* [version, generation] records that proxies may append
    Recoveries,     \* recovery identities a fence request names
    RetainedLimit,  \* retained_bytes_limit, in records
    MaxPosition,    \* bound: positions a member appends
    None

VARIABLES
    wal,        \* [Nodes -> sequence of the records a scan of the file returns]
    torn,       \* [Nodes -> BOOLEAN]  the scan stops at a partly written frame
    kept,       \* [Nodes -> retention-state.json]
    fence,      \* [Nodes -> [kinds -> [generations -> statement or None]]]
    fence_tmp,  \* the same, for the temporary file of a fence
    activation, \* [Nodes -> policy-activation.json, a policy epoch or None]
    published,  \* the object frontier the publication authority has certified
    acked,      \* history: records whose append was acknowledged
    verdicts,   \* history: signed fence observations
    samples     \* history: signed retention samples

memberVars == << wal, torn, kept, fence, fence_tmp, activation >>
ghostVars  == << acked, verdicts, samples >>
tlVars     == << memberVars, published, ghostVars >>

Generations == {e.generation : e \in Envelopes}
Versions    == {e.version : e \in Envelopes}
Kinds       == {"fence", "prefix_fence"}

SetMax(S) == IF S = {} THEN 0 ELSE CHOOSE x \in S : \A y \in S : y <= x

Records(n) == {wal[n][k] : k \in DOMAIN wal[n]}

NoFence == [k \in Kinds |-> [g \in Generations |-> None]]

MemberInit ==
    /\ wal  = [n \in Nodes |-> << >>]
    /\ torn = [n \in Nodes |-> FALSE]
    /\ kept = [n \in Nodes |-> [last |-> 0, popped |-> 0, epoch |-> 0]]
    /\ fence = [n \in Nodes |-> NoFence]
    /\ fence_tmp = fence
    /\ activation = [n \in Nodes |-> None]
    /\ published = 0
    /\ acked = {} /\ verdicts = {}
    /\ samples = [n \in Nodes |->
          [latest |-> [epoch |-> 0, last |-> 0, popped |-> 0, bytes |-> 0],
           clash  |-> FALSE]]

-----------------------------------------------------------------------------
(***************************************************************************)
(* Opening the root.  A scan keeps the frames before the first short or    *)
(* invalid one; the retention state catches up with a log that is ahead.   *)
(***************************************************************************)

load_or_recover_retention(n) ==
    LET recovered_last == SetMax({r.position : r \in Records(n)}) IN
    IF recovered_last > kept[n].last
    THEN [kept[n] EXCEPT !.last = recovered_last, !.epoch = @ + 1]
    ELSE IF kept[n].epoch = 0 THEN [kept[n] EXCEPT !.epoch = 1] ELSE kept[n]

persist_retention(n, state) == kept' = [kept EXCEPT ![n] = state]

retained_frame_bytes(n, popped) ==
    Cardinality({k \in DOMAIN wal[n] : wal[n][k].version > popped})

effective_learner(n) == n \in Learners /\ activation[n] = None

\* LocalReplicatedWal::append writes at the end of the file.  Behind a partly
\* written frame the new one is synchronized but no scan reaches it.
wal_append(n, record) ==
    wal' = IF torn[n] THEN wal ELSE [wal EXCEPT ![n] = Append(@, record)]

\* LocalReplicatedWal::rewrite replaces the file, and a partly written frame with it.
wal_rewrite(n, records) ==
    /\ wal'  = [wal EXCEPT ![n] = records]
    /\ torn' = [torn EXCEPT ![n] = FALSE]

\* A request that is refused, and Status, still leave the recovered retention state.
Status(n) ==
    /\ load_or_recover_retention(n) # kept[n]
    /\ persist_retention(n, load_or_recover_retention(n))
    /\ UNCHANGED << wal, torn, fence, fence_tmp, activation, published, ghostVars >>

-----------------------------------------------------------------------------
(***************************************************************************)
(* Append.                                                                 *)
(***************************************************************************)
\* Mutated form: only one of the two kinds of fence is looked up.
fenced_by_head(n, g) == fence[n]["fence"][g] # None

fenced(n, g) == \E kind \in Kinds : fence[n][kind][g] # None

append_admissible(n, e, position) ==
    LET retention == load_or_recover_retention(n) IN
    /\ ~ effective_learner(n)
    /\ ~ fenced(n, e.generation)
    /\ retained_frame_bytes(n, retention.popped) + 1 <= RetainedLimit
    /\ position = retention.last + 1

\* The frame is synchronized first and the retention state after it; `answered` is
\* false when the process stops between the two.
TLogAppend(n, e, position, answered) ==
    LET record == [position |-> position, version |-> e.version,
                   generation |-> e.generation]
        retention == load_or_recover_retention(n) IN
    /\ position <= MaxPosition
    /\ append_admissible(n, e, position)
    /\ wal_append(n, record)
    /\ IF answered
       THEN /\ persist_retention(n, [retention EXCEPT !.last = position,
                                                      !.epoch = @ + 1])
            /\ acked' = acked \cup {[node |-> n, record |-> record]}
       ELSE /\ persist_retention(n, retention)
            /\ UNCHANGED acked
    /\ UNCHANGED << torn, fence, fence_tmp, activation, published, verdicts, samples >>

\* The process or the machine stops while the frame is being written.
TLogAppendTorn(n, e, position) ==
    /\ position <= MaxPosition
    /\ append_admissible(n, e, position)
    /\ ~ torn[n]
    /\ torn' = [torn EXCEPT ![n] = TRUE]
    /\ persist_retention(n, load_or_recover_retention(n))
    /\ UNCHANGED << wal, fence, fence_tmp, activation, published, ghostVars >>

-----------------------------------------------------------------------------
(***************************************************************************)
(* Fence and PrefixFence.  A statement names a recovery and the window of  *)
(* staged records it decides; the first kind has a window of one record.   *)
(* The statement is written to a temporary file, synchronized and renamed. *)
(***************************************************************************)
record_present(n, e) ==
    \E r \in Records(n) : r.version = e.version /\ r.generation = e.generation

Observed(n, statement) ==
    {[node |-> n, envelope |-> e, present |-> record_present(n, e)] :
        e \in statement.window}

TLogFence(n, kind, g, statement, answered) ==
    LET existing  == fence[n][kind][g]
        temporary == fence_tmp[n][kind][g] IN
    /\ ~ effective_learner(n)
    /\ statement.window # {}
    /\ existing \in {None, statement}
    /\ existing = None => temporary \in {None, statement}
    /\ persist_retention(n, load_or_recover_retention(n))
    /\ IF answered
       THEN /\ fence' = [fence EXCEPT ![n][kind][g] = statement]
            /\ fence_tmp' = IF existing = None
                            THEN [fence_tmp EXCEPT ![n][kind][g] = None]
                            ELSE fence_tmp
            /\ verdicts' = verdicts \cup Observed(n, statement)
       ELSE /\ existing = None /\ temporary = None
            /\ fence_tmp' = [fence_tmp EXCEPT ![n][kind][g] = statement]
            /\ UNCHANGED << fence, verdicts >>
    /\ UNCHANGED << wal, torn, activation, published, acked, samples >>

\* What the temporary file holds when the process stops while writing it.
Partial == [recovery |-> None, window |-> {}]

TLogFenceTorn(n, kind, g) ==
    /\ ~ effective_learner(n)
    /\ fence[n][kind][g] = None /\ fence_tmp[n][kind][g] = None
    /\ fence_tmp' = [fence_tmp EXCEPT ![n][kind][g] = Partial]
    /\ persist_retention(n, load_or_recover_retention(n))
    /\ UNCHANGED << wal, torn, fence, activation, published, ghostVars >>

-----------------------------------------------------------------------------
(***************************************************************************)
(* Capacity and Pop.                                                       *)
(***************************************************************************)
\* Every retained record belongs to the generation of the statement.
validate_statement_domain(n, g) ==
    wal[n] # << >> /\ \A r \in Records(n) : r.generation = g

\* What the process signs.  The history keeps each member's latest sample and
\* whether it ever signed two different ones with one epoch.
Sample(retention, bytes) ==
    [epoch |-> retention.epoch, last |-> retention.last,
     popped |-> retention.popped, bytes |-> bytes]

signed(n, retention, bytes) ==
    samples' = [samples EXCEPT ![n] =
        [latest |-> Sample(retention, bytes),
         clash  |-> \/ @.clash
                   \/ /\ @.latest.epoch >= retention.epoch
                      /\ @.latest # Sample(retention, bytes)]]

TLogCapacity(n, g) ==
    LET retention == load_or_recover_retention(n) IN
    /\ ~ effective_learner(n)
    /\ wal[n] = << >> \/ validate_statement_domain(n, g)
    /\ persist_retention(n, retention)
    /\ signed(n, retention, retained_frame_bytes(n, retention.popped))
    /\ UNCHANGED << wal, torn, fence, fence_tmp, activation, published, acked, verdicts >>

\* The publication authority certifies a pop frontier that its root covers.
Publish(frontier) ==
    /\ frontier > published
    /\ published' = frontier
    /\ UNCHANGED << memberVars, ghostVars >>

validate_pop_statement(n, g, frontier) ==
    /\ ~ effective_learner(n)
    /\ frontier <= published
    /\ frontier >= load_or_recover_retention(n).popped
    /\ validate_statement_domain(n, g)
    /\ frontier <= SetMax({r.version : r \in Records(n)})

\* Mutated form: the record after the frontier is dropped with the popped ones.
kept_from(n, frontier) == SelectSeq(wal[n], LAMBDA r : r.version > frontier + 1)

kept_suffix(n, frontier) == SelectSeq(wal[n], LAMBDA r : r.version > frontier)

\* Mutated form: the pop is not counted as a new sample.
popped_unsampled(n, frontier) ==
    [load_or_recover_retention(n) EXCEPT !.popped = frontier]

popped_state(n, frontier) ==
    [load_or_recover_retention(n) EXCEPT !.popped = frontier, !.epoch = @ + 1]

\* The watermark is synchronized before the log is rewritten.
TLogPop(n, g, frontier, answered) ==
    LET retention == load_or_recover_retention(n)
        popped    == popped_state(n, frontier) IN
    /\ validate_pop_statement(n, g, frontier)
    /\ frontier > retention.popped
    /\ persist_retention(n, popped)
    /\ IF answered
       THEN /\ wal_rewrite(n, kept_suffix(n, frontier))
            /\ signed(n, popped, Len(kept_suffix(n, frontier)))
       ELSE UNCHANGED << wal, torn, samples >>
    /\ UNCHANGED << fence, fence_tmp, activation, published, acked, verdicts >>

\* An exact retry of a pop that is already durable signs the state it finds.
TLogPopAgain(n, g, frontier) ==
    LET retention == load_or_recover_retention(n) IN
    /\ validate_pop_statement(n, g, frontier)
    /\ frontier = retention.popped
    /\ persist_retention(n, retention)
    /\ signed(n, retention, retained_frame_bytes(n, retention.popped))
    /\ UNCHANGED << wal, torn, fence, fence_tmp, activation, published, acked, verdicts >>

Statements(kind, g) ==
    LET windows == SUBSET {e \in Envelopes : e.generation = g} IN
    [recovery : Recoveries,
     window   : IF kind = "fence" THEN {w \in windows : Cardinality(w) = 1}
                ELSE windows \ {{}}]

\* The clients' side: the authority hands out versions and positions together, so
\* the records offered to one log come in the order of their versions.
next_in_order(n, e) ==
    e.version > SetMax({r.version : r \in Records(n)} \cup {kept[n].popped})

MemberStep(n) ==
    \/ Status(n)
    \/ \E e \in Envelopes, position \in 1 .. MaxPosition :
          /\ next_in_order(n, e)
          /\ \E answered \in BOOLEAN : TLogAppend(n, e, position, answered)
    \/ \E kind \in Kinds, g \in Generations :
          \/ \E statement \in Statements(kind, g), answered \in BOOLEAN :
                TLogFence(n, kind, g, statement, answered)
          \/ TLogFenceTorn(n, kind, g)
    \/ \E g \in Generations :
          \/ TLogCapacity(n, g)
          \/ \E frontier \in Versions :
                \/ \E answered \in BOOLEAN : TLogPop(n, g, frontier, answered)
                \/ TLogPopAgain(n, g, frontier)

MemberNext ==
    \/ \E frontier \in Versions : Publish(frontier)
    \/ \E n \in Nodes : MemberStep(n)

MemberSpec == MemberInit /\ [][MemberNext]_tlVars

\* The same members on a disk that may keep part of a frame when a process dies.
TornFrameNext ==
    \/ MemberNext
    \/ \E n \in Nodes, e \in Envelopes, position \in 1 .. MaxPosition :
          next_in_order(n, e) /\ TLogAppendTorn(n, e, position)

TornFrameSpec == MemberInit /\ [][TornFrameNext]_tlVars

-----------------------------------------------------------------------------
\* Type invariant of a member's root.
MemberTypeOK ==
    /\ \A n \in Nodes :
          Records(n) \subseteq [position : 1 .. MaxPosition, version : Versions,
                                generation : Generations]
    /\ torn \in [Nodes -> BOOLEAN]
    /\ kept \in [Nodes -> [last : 0 .. MaxPosition, popped : Versions \cup {0},
                           epoch : Nat]]

\* An acknowledged record stays readable, across every crash, until an object root
\* covers it: a scan of the log returns it or its version is below the watermark
\* (RFC-0044: restart preserves the pop watermark and the remaining suffix).
AckedRetained ==
    \A a \in acked : \/ a.record \in Records(a.node)
                     \/ a.record.version <= kept[a.node].popped

\* Positions are handed out once: the log is one run of consecutive positions, and
\* none is above what the retention state will say, so a lost answer never lets two
\* records share a position (an append names its position before it is durable).
PositionsConsecutive ==
    \A n \in Nodes :
       /\ \A k \in DOMAIN wal[n] : k > 1 =>
             wal[n][k].position = wal[n][k - 1].position + 1
       /\ \A a \in acked : a.node = n =>
             /\ a.record.position <= load_or_recover_retention(n).last
             /\ \A r \in Records(n) : r.position = a.record.position => r = a.record

\* A fence decides: what a member signed about a record that no object root covers
\* is what its log says ever after, whichever kind of fence it was and however the
\* process was interrupted (RFC-0042: "The process returns the same signed
\* observation on exact retry").
FenceVerdictFinal ==
    \A v \in verdicts : v.envelope.version > published =>
       v.present = record_present(v.node, v.envelope)

\* A sample epoch names one retention state and epochs only grow: a member never
\* signs a different state under an epoch it signed before or an older one, so the
\* authority may order samples by their epochs alone.
SampleIdentifiesState == \A n \in Nodes : ~ samples[n].clash
=============================================================================
