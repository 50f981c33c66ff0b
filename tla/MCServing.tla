------------------------------ MODULE MCServing ------------------------------
(***************************************************************************)
(* The read side, in three instances of which a behaviour runs one: the    *)
(* recovery of a serving worker from objects and logs, the views a serving *)
(* process publishes and its workers reopen, and the client that routes    *)
(* reads over a range map.  The views keep their own variables, the other  *)
(* two have theirs in x1 .. x9; what the one that runs does not use holds  *)
(* None.                                                                   *)
(***************************************************************************)
EXTENDS RangeServing, TLC

VARIABLES side, x1, x2, x3, x4, x5, x6, x7, x8, x9

slots == << x1, x2, x3, x4, x5, x6, x7, x8, x9 >>

\* Three logs, a quorum of two, three versions over two keys and a record that
\* reaches one log only.
W == INSTANCE ServingRecovery WITH
       Nodes <- {1, 2, 3}, History <- << << "a", 1 >>, << "b", 1 >>, << "a", 0 >> >>,
       Stray <- << "b", 2 >>, StrayNodes <- {3}, Sources <- {"tlog", "authority"},
       committed <- x1, log <- x2, popped <- x3, up <- x4, snapshot <- x5, store <- x6,
       objectified <- x7, root <- x8, worker <- x9

\* Two roots that share one table, three versions over three keys: the tail
\* overwrites, clears and adds keys of the base.
MCHistory == << {<< 1, 11 >>, << 3, 13 >>}, {<< 2, 22 >>, << 3, 0 >>},
                {<< 1, 0 >>, << 2, 42 >>, << 3, 33 >>} >>
MCCovered == << 1, 2 >>
MCClosure == << {"root1", "shared"}, {"root2", "shared"} >>

\* The range over keys 1 to 3 is split: key 1 moves to a second process and the rest
\* stays under a new epoch, which the first process can take only once it lost the
\* old assignment; then the rest moves too.
Route(endpoint, range, epoch, start, end) ==
  [endpoint |-> endpoint, range |-> range, epoch |-> epoch, start |-> start, end |-> end]

C == INSTANCE RangeRead WITH
       Maps <- << << Route("e1", 70, 8, 1, 4) >>,
                  << Route("e2", 71, 9, 1, 2), Route("e1", 70, 9, 2, 4) >>,
                  << Route("e2", 71, 9, 1, 2), Route("e2", 70, 10, 2, 4) >> >>,
       Endpoints <- {"e1", "e2"}, Tasks <- {1, 2},
       Operation <- << [kind |-> "scan", start |-> 1, end |-> 4, limit |-> 3],
                       [kind |-> "point", start |-> 2, end |-> 3, limit |-> 1] >>,
       LiveKeys <- {1, 2, 3}, ReadVersion <- 1, MaxRefreshes <- 2, MaxDeaths <- 1,
       published <- x1, assigned <- x2, applied <- x3, deaths <- x4, cached <- x5, task <- x6

Idle9 == /\ x1 = None /\ x2 = None /\ x3 = None /\ x4 = None /\ x5 = None
         /\ x6 = None /\ x7 = None /\ x8 = None /\ x9 = None
NoViews == /\ authority = None /\ committed = None /\ objects = None /\ cache = None
           /\ worker = None /\ current = None /\ retained = None

ReadSideInit ==
    \/ side = "recovery" /\ W!ServingInit /\ NoViews
    \/ side = "views" /\ ServingInit /\ Idle9
    \/ side = "routes" /\ C!ReadInit /\ x7 = None /\ x8 = None /\ x9 = None /\ NoViews

ReadSideNext ==
    \/ side = "recovery" /\ W!ServingNext /\ UNCHANGED << side, servingVars >>
    \/ side = "views" /\ ServingNext /\ UNCHANGED << side, slots >>
    \/ side = "routes" /\ C!ReadNext /\ UNCHANGED << side, x7, x8, x9, servingVars >>

ReadSideSpec == ReadSideInit /\ [][ReadSideNext]_<< side, slots, servingVars >>

Symmetry == Permutations(Workers)

-----------------------------------------------------------------------------
\* A worker that reports its recovery complete holds exactly the committed prefix,
\* from whichever objects, logs and authority it recovered.
WorkerExact == side = "recovery" => W!WorkerExact

\* Every read answers with the history at its version: through a base and a tail of
\* certified records, and through a map that changes while the scan moves along it.
AnswersExact ==
    /\ side = "views" => ReadsExact
    /\ side = "routes" => C!ScanExact

\* Nothing a reader may still ask for is gone: the logs keep what neither the object
\* root nor the authority's snapshot covers, the store what an active lease names.
NeededKept ==
    /\ side = "recovery" => W!LogServesBoth
    /\ side = "views" => LeasedClosureStored

\* Neither a published view nor a client's range map ever goes back, whichever
\* replacement or refresh was prepared against an older one.
NeverBackwards ==
    [][ /\ side = "views" => NoRollbackStep
        /\ side = "routes" => C!MapAdvances ]_<< side, slots, servingVars >>
=============================================================================
