------------------------ MODULE MCObjectPublication -------------------------
(***************************************************************************)
(* Instances of publishers and a sweeper over one store.  The three jobs   *)
(* move one root m0 -> m1 -> m2; m0 and m2 share the data object x, which  *)
(* is garbage while the root is m1 and is wanted again by the third job.   *)
(***************************************************************************)
EXTENDS ObjectPublication

CONSTANTS m0, m1, m2, x, p0, p1, p2, root

MCKeys == {m0, m1, m2, x}
MCManifests == {m0, m1, m2}
MCClosure == [m \in MCManifests |-> IF m = m1 THEN {m1} ELSE {m, x}]
MCBeneath == [n \in Namespaces |-> {}]
MCJob == [p \in {p0, p1, p2} |->
            CASE p = p0 -> [manifest |-> m0, root |-> root, prior |-> None]
              [] p = p1 -> [manifest |-> m1, root |-> root, prior |-> m0]
              [] p = p2 -> [manifest |-> m2, root |-> root, prior |-> m1]]

=============================================================================
