------------------------------ MODULE SimFencing ------------------------------
(* The generation-fencing simulation of okv-sim/src/lib.rs: an authority of a   *)
(* generation and a root that it persists in place, killed and restarted, and a *)
(* client whose requests or replies a partition may lose.  In the script part   *)
(* the client sends the frozen sequence; in the free part publishers of two     *)
(* generations and an activator send theirs in any order.                       *)
EXTENDS Integers, Sequences, FiniteSets

CONSTANTS
  MaxGeneration, MaxRoot,   \* bounds of the free part
  MaxCrashes,               \* crashes of the authority
  NULL

VARIABLES
  part,
  bug,        \* inject_stale_publication_bug
  state,      \* AuthorityState in memory; NULL while the authority is down
  written,    \* the file as written, which a crash may lose
  synced,     \* the file after its last sync
  request,    \* the request in progress; NULL
  reply,      \* the reply not yet received; NULL
  step,       \* replies the script received
  failed,     \* steps whose reply was not the required one
  accepted,   \* publications acknowledged: [generation, root]
  crashes

vars == <<part, bug, state, written, synced, request, reply, step, failed, accepted, crashes>>

State(g, r) == [generation |-> g, root |-> r]
Default == State(1, 0)
Request(op, g, expected, next) == [op |-> op, generation |-> g, expected |-> expected, next |-> next]

\* Mutated form: a publication only compares the root.
status_by_root(s, r) ==
  CASE r.op = "Read" -> "Current"
    [] r.op = "Activate" ->
         IF r.generation = s.generation + 1 /\ r.expected = s.root THEN "Accepted"
         ELSE IF r.generation <= s.generation THEN "StaleGeneration" ELSE "CompareFailed"
    [] r.op = "Publish" -> IF r.expected # s.root THEN "CompareFailed" ELSE "Accepted"

status(s, r) ==
  CASE r.op = "Read" -> "Current"
    [] r.op = "Activate" ->
         IF r.generation = s.generation + 1 /\ r.expected = s.root THEN "Accepted"
         ELSE IF r.generation <= s.generation THEN "StaleGeneration" ELSE "CompareFailed"
    [] r.op = "Publish" ->
         IF ~bug /\ r.generation # s.generation THEN "StaleGeneration"
         ELSE IF r.expected # s.root THEN "CompareFailed" ELSE "Accepted"

applied(s, r) ==
  IF status(s, r) # "Accepted" THEN s
  ELSE IF r.op = "Activate" THEN [s EXCEPT !.generation = r.generation] ELSE [s EXCEPT !.root = r.next]

\* load_state, persist_state, then listen.
Start ==
  /\ state = NULL
  /\ state' = synced /\ written' = synced
  /\ UNCHANGED <<part, bug, synced, request, reply, step, failed, accepted, crashes>>

\* An accepted change is in memory and in the file before the sync.
Handle ==
  /\ state # NULL /\ request # NULL /\ reply = NULL /\ written = synced
  /\ state' = applied(state, request)
  /\ written' = state'
  /\ reply' = IF state' = state THEN [status |-> status(state, request), state |-> state] ELSE NULL
  /\ UNCHANGED <<part, bug, synced, request, step, failed, accepted, crashes>>

Sync ==
  /\ state # NULL /\ written # synced
  /\ synced' = written
  /\ reply' = [status |-> "Accepted", state |-> state]
  /\ UNCHANGED <<part, bug, state, written, request, step, failed, accepted, crashes>>

\* Crash and bounce; the connection dies with the process.
Crash ==
  /\ state # NULL /\ crashes < MaxCrashes
  /\ part = "script" => step = 1 /\ request = NULL /\ crashes = 0
  /\ crashes' = crashes + 1
  /\ state' = NULL /\ written' = synced /\ reply' = NULL /\ request' = NULL
  /\ UNCHANGED <<part, bug, synced, step, failed, accepted>>

(***************************************************************************)
(* client_scenario.                                                        *)
(***************************************************************************)
Read == Request("Read", 0, 0, 0)
Script ==
  <<Request("Publish", 1, 0, 1), Read, Request("Activate", 2, 1, 1), Request("Publish", 1, 1, 2),
    Request("Publish", 2, 1, 2), Read>>
required(k, answer) ==
  CASE k \in {1, 3, 5} -> answer.status = "Accepted"
    [] k = 4 -> answer.status = "StaleGeneration"
    [] k = 2 -> answer.state = State(1, 1)
    [] k = 6 -> answer.state = State(2, 2)

\* The crash is injected between the first reply and the second request.
SendScripted ==
  /\ part = "script" /\ request = NULL /\ step < Len(Script) /\ (step = 1 => crashes = 1)
  /\ state # NULL
  /\ request' = Script[step + 1]
  /\ UNCHANGED <<part, bug, state, written, synced, reply, step, failed, accepted, crashes>>

ReceiveScripted ==
  /\ part = "script" /\ reply # NULL
  /\ step' = step + 1
  /\ failed' = IF required(step', reply) THEN failed ELSE failed \cup {step'}
  /\ request' = NULL /\ reply' = NULL
  /\ UNCHANGED <<part, bug, state, written, synced, accepted, crashes>>

(***************************************************************************)
(* Free part.                                                              *)
(***************************************************************************)
Send(r) ==
  /\ part = "free" /\ state # NULL /\ request = NULL
  /\ request' = r
  /\ UNCHANGED <<part, bug, state, written, synced, reply, step, failed, accepted, crashes>>

\* A partition drops the reply of a request that took effect.
Receive(lost) ==
  /\ part = "free" /\ reply # NULL
  /\ accepted' = IF ~lost /\ reply.status = "Accepted" /\ request.op = "Publish"
                 THEN accepted \cup {[generation |-> request.generation, root |-> request.next]} ELSE accepted
  /\ request' = NULL /\ reply' = NULL
  /\ UNCHANGED <<part, bug, state, written, synced, step, failed, crashes>>

FencingInit ==
  /\ part \in {"script", "free"} /\ bug \in IF part = "free" THEN {FALSE} ELSE BOOLEAN
  /\ state = NULL /\ written = Default /\ synced = Default
  /\ request = NULL /\ reply = NULL /\ step = 0 /\ failed = {} /\ accepted = {} /\ crashes = 0

FencingNext ==
  \/ Start \/ Handle \/ Sync \/ Crash \/ SendScripted \/ ReceiveScripted
  \/ \E g \in 1..MaxGeneration, e \in 0..MaxRoot, lost \in BOOLEAN :
       \/ Send(Request("Activate", g, e, e)) \/ Receive(lost)
       \/ e < MaxRoot /\ Send(Request("Publish", g, e, e + 1))

FencingSpec == FencingInit /\ [][FencingNext]_vars

-----------------------------------------------------------------------------
\* An acknowledged root survives every crash, and no root is acknowledged to two
\* generations: the stale publisher learns it is stale.
AcknowledgedRootsFenced ==
  part = "free" =>
    /\ \A a \in accepted : a.root <= synced.root /\ a.generation <= synced.generation
    /\ \A a, b \in accepted : a.root < b.root => a.generation <= b.generation

\* The scripted run fails exactly under the injected bug
\* (stale_publication_negative_control_fails).
FencingDetects == part = "script" /\ step = Len(Script) => ((failed = {}) <=> ~bug)
=============================================================================
