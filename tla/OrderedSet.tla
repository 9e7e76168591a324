----------------------------- MODULE OrderedSet -----------------------------
(***************************************************************************)
(* What a red-black tree of libuv promises its user: a set of nodes with   *)
(* pairwise different keys.  RB_INSERT refuses a node whose key is taken,  *)
(* RB_REMOVE takes one node out, and nothing else changes the set, however *)
(* the tree is rotated and recoloured.                                     *)
(***************************************************************************)
CONSTANTS Nodes, Key

VARIABLE members

Init == members = {}

Insert(n) ==
    /\ \A m \in members : Key[m] # Key[n]
    /\ members' = members \cup {n}

Remove(n) ==
    /\ n \in members
    /\ members' = members \ {n}

Next == \E n \in Nodes : Insert(n) \/ Remove(n)

Spec == Init /\ [][Next]_members
=============================================================================
