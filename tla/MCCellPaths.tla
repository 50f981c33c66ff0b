----------------------------- MODULE MCCellPaths -----------------------------
(***************************************************************************)
(* Two instances of the transaction authority over the same variables, of  *)
(* which a behaviour runs one: the direct commit path with three           *)
(* transactions and resolver outcomes, and the capacity grants and policy  *)
(* transitions around one staged transaction of a rate-limited log set     *)
(* with a spare node.                                                      *)
(***************************************************************************)
EXTENDS MCCellTransaction

CONSTANTS x1, x2

VARIABLE path

P == INSTANCE CellTransaction WITH
       Txns <- {t1}, DirectTxns <- {}, RateLimited <- {d10}, TransitionIds <- {x1, x2},
       PolicyMembers <- MCSparedMembers, PolicyQuorum <- MCSparedQuorum,
       Resolutions <- NoResolutions, MaxSequence <- 5, MaxEpoch <- 2

PathsInit ==
    \/ path = "direct" /\ CellInit
    \/ path = "policies" /\ P!CellInit

PathsNext ==
    \/ path = "direct" /\ CellNext /\ UNCHANGED path
    \/ path = "policies" /\ P!CellNext /\ UNCHANGED path

PathsSpec == PathsInit /\ [][PathsNext]_<<path, authority, cellVars>>

\* On the direct path a committed transaction read nothing that was written between
\* its read version and its commit, and the chain of envelopes has no gap.
DirectReadsSerializable ==
    path = "direct" => SerializableReads /\ ChainUnbroken

\* An unresolved transaction of a rate-limited log set was granted capacity, and the
\* grant is spent.
GrantConsumed == path = "policies" => P!AdmissionConsumesGrant

\* No policy transition spans a transaction, and a pending one still starts from the
\* policy in force.
TransitionBound ==
    path = "policies" => P!TransitionHoldsStaging /\ P!TransitionBindsCurrentPolicy
=============================================================================
