-------------------------------- MODULE MCUv --------------------------------
(***************************************************************************)
(* The two components of libuv for TLC, on a small instance.  They share   *)
(* no state; calls fail while the tree is empty, which bounds the states.  *)
(***************************************************************************)
EXTENDS RBTree, UvErrno

\* The keys are the nodes' numbers, but the last node has the key of node 1.
MCKey == [n \in Nodes |-> IF n = Cardinality(Nodes) THEN 1 ELSE n]

MCInit == RB_INIT /\ UvInit

MCNext ==
    \/ /\ failure = NoFailure
       /\ TreeNext
       /\ UNCHANGED failure
    \/ /\ tree.root = NULL /\ Idle /\ ~loop.on
       /\ UvNext
       /\ UNCHANGED treeVars

MCSpec == MCInit /\ [][MCNext]_<<treeVars, failure>>
=============================================================================
