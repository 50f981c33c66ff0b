------------------------- MODULE MCCellTransaction -------------------------
(***************************************************************************)
(* Instances of the transaction authority: three transactions over two     *)
(* keys, of which t1 and t2 update one key each and t3 copies the first    *)
(* key to the second, so that some orders conflict and a window of three   *)
(* unresolved transactions exists; log sets of two members and of one.     *)
(***************************************************************************)
EXTENDS CellTransaction, TLC

CONSTANTS t1, t2, t3, t4, n1, n2, n3, d10, d20, x, y

MCReadSet  == [t \in Txns |-> CASE t = t1 -> {x} [] t = t2 -> {y} [] OTHER -> {x}]
MCWriteSet == [t \in Txns |-> CASE t = t1 -> {x} [] t = t2 -> {y} [] OTHER -> {y}]

MCMembers == [set \in LogSets |-> IF set = d10 THEN {n1, n2} ELSE {n3}]
MCQuorum  == [set \in LogSets |-> IF set = d10 THEN 2 ELSE 1]

\* One spare node beyond the members of the first log set's policy.
MCSparedMembers == [set \in LogSets |-> {n1, n2}]
MCSparedQuorum  == [set \in LogSets |-> 2]

NoResolutions == {None}

\* Resolver outcomes of two transaction systems, each refusing its candidate.
Refusals ==
    {None} \cup [candidate : 1 .. 3, generation : 1 .. 2, decision : {"Conflict"}]
=============================================================================
