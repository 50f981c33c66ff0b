---------------------------- MODULE MCCommitPath ----------------------------
(***************************************************************************)
(* Instances of the commit path: a log set of three members and one of a   *)
(* single member, and transactions that write distinct keys.               *)
(***************************************************************************)
EXTENDS CommitPath, TLC

CONSTANTS n1, n2, n3, m1, d10, d20

MCReadSet  == [t \in Txns |-> {}]
MCWriteSet == [t \in Txns |-> Keys]

MCMembers == [set \in LogSets |-> IF set = d10 THEN {n1, n2, n3} ELSE {m1}]
MCQuorum  == [set \in LogSets |-> IF set = d10 THEN 2 ELSE 1]

\* Two log sets of one member each.
MCPairMembers == [set \in LogSets |-> IF set = d10 THEN {n1} ELSE {m1}]
MCPairQuorum  == [set \in LogSets |-> 1]

NoResolutions == {None}

Interchangeable == Permutations({n1, n2, n3}) \cup Permutations(Txns)
=============================================================================
