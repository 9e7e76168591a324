------------------------------- MODULE RBTree -------------------------------
(***************************************************************************)
(* The red-black trees of libuv (usockets/include/uv/tree.h), which keep   *)
(* the loop's handles ordered.  A tree is the record of its root, the two  *)
(* child pointers, the parent pointer and the colour of every node linked  *)
(* into it; NULL is the null pointer.  The fields of a node that is not    *)
(* linked are outside the domains, so that an operation that read them     *)
(* would be an error.                                                      *)
(*                                                                         *)
(* The macros write every case twice, once for each side; here the side is *)
(* a parameter and Other(s) its mirror image.  One iteration of a          *)
(* rebalancing loop is one step, op holding the loop's variables, so that  *)
(* the loops' invariants are invariants of the specification.              *)
(***************************************************************************)
EXTENDS Integers, Sequences, SequencesExt

CONSTANTS Nodes,      \* the nodes the user allocates
          Key,        \* their keys, as cmp orders them
          NULL,       \* the null pointer
          LoopNodes   \* bound: RB_FOREACH runs over trees of these nodes

ASSUME KeyAssumption == Key \in [Nodes -> Int]
ASSUME NULLAssumption == NULL \notin Nodes

VARIABLES tree,   \* the tree
          op,     \* the operation under way: its loop's elm and parent
          loop    \* the RB_FOREACH under way

treeVars == <<tree, op, loop>>

Sides == {"left", "right"}

Other(s) == IF s = "left" THEN "right" ELSE "left"

\* The nodes the tree's fields are defined for.
Linked(tr) == DOMAIN tr.color

\* Where a search may be: at a linked node, or past a leaf.
Places(tr) == Linked(tr) \cup {NULL}

Pointers == Nodes \cup {NULL}

-----------------------------------------------------------------------------
(* Field updates, RB_SET and the rotations.                                *)

\* if (child) RB_PARENT(child) = p
SetParent(tr, n, p) == IF n = NULL THEN tr ELSE [tr EXCEPT !.parent[n] = p]

\* if (n) RB_COLOR(n) = c
SetColor(tr, n, c) == IF n = NULL THEN tr ELSE [tr EXCEPT !.color[n] = c]

RB_SET_BLACKRED(tr, black, red) ==
    [tr EXCEPT !.color[black] = "black", !.color[red] = "red"]

IsRed(tr, n) == n # NULL /\ tr.color[n] = "red"

\* The side RB_LEFT(parent) == elm selects.
Side(tr, p, n) == IF tr.child["left"][p] = n THEN "left" ELSE "right"

\* Puts new in old's place below p, or at the root.
Replace(tr, p, old, new) ==
    IF p = NULL THEN [tr EXCEPT !.root = new]
                ELSE [tr EXCEPT !.child[Side(tr, p, old)][p] = new]

\* Mutant: the subtree that changes sides keeps its old parent.
RB_ROTATE_orphan(tr, elm, s) ==
    LET tmp == tr.child[Other(s)][elm]
        up  == tr.parent[elm]
        t1  == [tr EXCEPT !.child[Other(s)][elm] = tr.child[s][tmp]]
        t2  == Replace(SetParent(t1, tmp, up), up, elm, tmp)
    IN  SetParent([t2 EXCEPT !.child[s][tmp] = elm], elm, tmp)

RB_ROTATE(tr, elm, s) ==
    LET tmp == tr.child[Other(s)][elm]
        mid == tr.child[s][tmp]
        up  == tr.parent[elm]
        t1  == SetParent([tr EXCEPT !.child[Other(s)][elm] = mid], mid, elm)
        t2  == Replace(SetParent(t1, tmp, up), up, elm, tmp)
    IN  SetParent([t2 EXCEPT !.child[s][tmp] = elm], elm, tmp)

\* Links n below p as a red leaf on side s.
RB_SET(tr, n, p, s) ==
    LET Plus(f, v) == [m \in Linked(tr) \cup {n} |-> IF m = n THEN v ELSE f[m]]
        t1 == [root   |-> tr.root,
               child  |-> [d \in Sides |-> Plus(tr.child[d], NULL)],
               parent |-> Plus(tr.parent, p),
               color  |-> Plus(tr.color, "red")]
    IN  IF p = NULL THEN [t1 EXCEPT !.root = n]
                    ELSE [t1 EXCEPT !.child[s][p] = n]

\* The tree without the fields of a node that was unlinked.
Unlinked(tr, n) ==
    LET Minus(f) == [m \in Linked(tr) \ {n} |-> f[m]]
    IN  [root   |-> tr.root,
         child  |-> [d \in Sides |-> Minus(tr.child[d])],
         parent |-> Minus(tr.parent),
         color  |-> Minus(tr.color)]
-----------------------------------------------------------------------------
(* Searches and traversals.                                                *)

\* The side of the next node on the way to key k.
Toward(k, n) == IF k < Key[n] THEN "left" ELSE "right"

RB_FIND(tr, k) ==
    LET walk[n \in Places(tr)] ==
            IF n = NULL \/ k = Key[n] THEN n
                                      ELSE walk[tr.child[Toward(k, n)][n]]
    IN  walk[tr.root]

RB_NFIND(tr, k) ==
    LET walk[n \in Places(tr)] ==
            IF n = NULL \/ k = Key[n] THEN n
            ELSE IF k < Key[n] /\ walk[tr.child["left"][n]] = NULL THEN n
            ELSE walk[tr.child[Toward(k, n)][n]]
    IN  walk[tr.root]

\* The last node on the way to a key that is not in the tree.
InsertionPoint(tr, k) ==
    LET walk[n \in Linked(tr)] ==
            IF tr.child[Toward(k, n)][n] = NULL THEN n ELSE walk[tr.child[Toward(k, n)][n]]
    IN  IF tr.root = NULL THEN NULL ELSE walk[tr.root]

\* The outermost node of n's subtree on side s.
Outermost(tr, n, s) ==
    LET walk[m \in Linked(tr)] ==
            IF tr.child[s][m] = NULL THEN m ELSE walk[tr.child[s][m]]
    IN  walk[n]

\* RB_MIN is the left side, RB_MAX the right one.
RB_MINMAX(tr, s) == IF tr.root = NULL THEN NULL ELSE Outermost(tr, tr.root, s)

\* Mutant: a node without a subtree ahead is followed by its parent.
RB_NEXT_parent(tr, n, s) ==
    IF tr.child[s][n] # NULL
      THEN Outermost(tr, tr.child[s][n], Other(s))
      ELSE tr.parent[n]

\* RB_NEXT is the right side, RB_PREV the left one.
RB_NEXT(tr, n, s) ==
    LET climb[m \in Linked(tr)] ==
            LET p == tr.parent[m]
            IN  IF p # NULL /\ tr.child[s][p] = m THEN climb[p] ELSE p
    IN  IF tr.child[s][n] # NULL
          THEN Outermost(tr, tr.child[s][n], Other(s))
          ELSE climb[n]
-----------------------------------------------------------------------------
(* RB_INSERT: the node is linked as a red leaf, then RB_INSERT_COLOR moves *)
(* the red pair upwards until the parent is black.                         *)

Idle == op.pc = "idle"

Done == [pc |-> "idle", elm |-> NULL, parent |-> NULL]

\* Mutant: a node whose key is taken is linked next to the other.
RB_INSERT_twice(n) ==
    LET p == InsertionPoint(tree, Key[n])
    IN  /\ Idle /\ ~loop.on
        /\ n \notin Linked(tree)
        /\ tree' = RB_SET(tree, n, p, IF p = NULL THEN "left" ELSE Toward(Key[n], p))
        /\ op' = [pc |-> "insert_color", elm |-> n, parent |-> NULL]
        /\ UNCHANGED loop

\* A node whose key is taken is returned to the caller and nothing changes.
RB_INSERT(n) ==
    LET p == InsertionPoint(tree, Key[n])
    IN  /\ Idle /\ ~loop.on
        /\ n \notin Linked(tree)
        /\ RB_FIND(tree, Key[n]) = NULL
        /\ tree' = RB_SET(tree, n, p, IF p = NULL THEN "left" ELSE Toward(Key[n], p))
        /\ op' = [pc |-> "insert_color", elm |-> n, parent |-> NULL]
        /\ UNCHANGED loop

\* Mutant: the grandparent stays black.
InsertRecolor_black(tr, elm) ==
    LET p  == tr.parent[elm]
        gp == tr.parent[p]
        uncle == tr.child[Other(Side(tr, gp, p))][gp]
    IN  SetColor(SetColor(tr, uncle, "black"), p, "black")

\* The red uncle: both reds move one level up.
InsertRecolor(tr, elm) ==
    LET p  == tr.parent[elm]
        gp == tr.parent[p]
        uncle == tr.child[Other(Side(tr, gp, p))][gp]
    IN  RB_SET_BLACKRED(SetColor(tr, uncle, "black"), p, gp)

\* The black uncle: one or two rotations end the loop.
InsertRotate(tr, elm) ==
    LET p  == tr.parent[elm]
        gp == tr.parent[p]
        s  == Side(tr, gp, p)
        inner == tr.child[Other(s)][p] = elm
        t1 == IF inner THEN RB_ROTATE(tr, p, s) ELSE tr
    IN  RB_ROTATE(RB_SET_BLACKRED(t1, IF inner THEN elm ELSE p, gp), gp, Other(s))

RB_INSERT_COLOR ==
    LET p  == tree.parent[op.elm]
        gp == tree.parent[p]
        uncle == tree.child[Other(Side(tree, gp, p))][gp]
        inner == tree.child[Other(Side(tree, gp, p))][p] = op.elm
    IN  /\ op.pc = "insert_color"
        /\ p # NULL /\ tree.color[p] = "red"
        /\ \/ /\ IsRed(tree, uncle)
              /\ tree' = InsertRecolor(tree, op.elm)
              /\ op' = [op EXCEPT !.elm = gp]
           \/ /\ ~IsRed(tree, uncle)
              /\ tree' = InsertRotate(tree, op.elm)
              /\ op' = [op EXCEPT !.elm = IF inner THEN p ELSE op.elm]
        /\ UNCHANGED loop

InsertDone ==
    /\ op.pc = "insert_color"
    /\ ~IsRed(tree, tree.parent[op.elm])
    /\ tree' = SetColor(tree, tree.root, "black")
    /\ op' = Done
    /\ UNCHANGED loop
-----------------------------------------------------------------------------
(* RB_REMOVE: a node with two children is replaced by its successor; the   *)
(* place left empty is one black node short if the node that left it was   *)
(* black, and RB_REMOVE_COLOR moves the shortage upwards until a rotation  *)
(* or a red node makes up for it.                                          *)

\* The child of a node that has at most one.
OnlyChild(tr, n) ==
    IF tr.child["left"][n] = NULL THEN tr.child["right"][n] ELSE tr.child["left"][n]

\* The only child of elm takes its place.
Splice(tr, elm) ==
    LET child == OnlyChild(tr, elm)
        p     == tr.parent[elm]
    IN  Replace(SetParent(tr, child, p), p, elm, child)

\* (elm)->field = (old)->field and what follows: elm, which was spliced out,
\* takes the place of old with its links and its colour.
TakePlace(tr, old, elm) ==
    LET t1 == [tr EXCEPT !.child = [s \in Sides |-> [@[s] EXCEPT ![elm] = tr.child[s][old]]],
                         !.parent[elm] = tr.parent[old],
                         !.color[elm] = tr.color[old]]
        t2 == Replace(t1, tr.parent[old], old, elm)
    IN  SetParent(SetParent(t2, t2.child["left"][old], elm), t2.child["right"][old], elm)

\* The tree without old, and the place the shortage is at: its child, the
\* parent, and the colour of the node that left the place.
RB_REMOVE(tr, old) ==
    LET two == \A s \in Sides : tr.child[s][old] # NULL
        elm == IF two THEN Outermost(tr, tr.child["right"][old], "left") ELSE old
        p   == tr.parent[elm]
        t1  == Splice(tr, elm)
    IN  [t      |-> Unlinked(IF two THEN TakePlace(t1, old, elm) ELSE t1, old),
         elm    |-> OnlyChild(tr, elm),
         parent |-> IF two /\ p = old THEN elm ELSE p,
         color  |-> tr.color[elm]]

StartRemove(n) ==
    LET r == RB_REMOVE(tree, n)
    IN  /\ tree' = r.t
        /\ op' = IF r.color = "black"
                   THEN [pc |-> "remove_color", elm |-> r.elm, parent |-> r.parent]
                   ELSE Done

RemoveNode(n) ==
    /\ Idle /\ ~loop.on
    /\ n \in Linked(tree)
    /\ StartRemove(n)
    /\ UNCHANGED loop

Short == ~IsRed(tree, op.elm) /\ op.elm # tree.root

\* A red sibling is rotated above the parent, and the next one is black.
BlackSibling(tr, p, s) ==
    LET sib == tr.child[Other(s)][p]
    IN  IF IsRed(tr, sib) THEN RB_ROTATE(RB_SET_BLACKRED(tr, sib, p), p, s) ELSE tr

\* The sibling's outer child must be red before the last rotation.
RedOutside(tr, p, s) ==
    LET o   == Other(s)
        tmp == tr.child[o][p]
        inner == SetColor(SetColor(tr, tr.child[s][tmp], "black"), tmp, "red")
    IN  IF IsRed(tr, tr.child[o][tmp]) THEN tr ELSE RB_ROTATE(inner, tmp, o)

\* The last rotation brings a black node to the side that is short of one.
LastRotation(tr, p, s) ==
    LET tmp   == tr.child[Other(s)][p]
        outer == tr.child[Other(s)][tmp]
        t1    == SetColor(SetColor(tr, tmp, tr.color[p]), p, "black")
    IN  RB_ROTATE(SetColor(t1, outer, "black"), p, s)

RB_REMOVE_COLOR ==
    LET p   == op.parent
        s   == Side(tree, p, op.elm)
        t1  == BlackSibling(tree, p, s)
        tmp == t1.child[Other(s)][p]
        t2  == LastRotation(RedOutside(t1, p, s), p, s)
    IN  /\ op.pc = "remove_color"
        /\ Short
        /\ \/ /\ \A d \in Sides : ~IsRed(t1, t1.child[d][tmp])
              /\ tree' = SetColor(t1, tmp, "red")
              /\ op' = [op EXCEPT !.elm = p, !.parent = t1.parent[p]]
           \/ /\ \E d \in Sides : IsRed(t1, t1.child[d][tmp])
              /\ tree' = t2
              /\ op' = [op EXCEPT !.elm = t2.root]
        /\ UNCHANGED loop

RemoveDone ==
    /\ op.pc = "remove_color"
    /\ ~Short
    /\ tree' = SetColor(tree, op.elm, "black")
    /\ op' = Done
    /\ UNCHANGED loop
-----------------------------------------------------------------------------
(* RB_FOREACH and its variants.  The _SAFE and _FROM forms fetch the next  *)
(* node before the body, which may therefore remove the node it is given.  *)

NoLoop == [on |-> FALSE, x |-> NULL, dir |-> "right", seen |-> <<>>, due |-> <<>>]

\* A set of nodes with different keys as a sequence in direction d.
InKeyOrder(S, d) ==
    LET before(n) == {m \in S : IF d = "right" THEN Key[m] < Key[n] ELSE Key[m] > Key[n]}
    IN  [i \in 1..Cardinality(S) |->
            CHOOSE n \in S : Cardinality(before(n)) = i - 1]

Ahead(n, d) == {m \in Linked(tree) : IF d = "right" THEN Key[m] >= Key[n] ELSE Key[m] <= Key[n]}

\* RB_FOREACH(_SAFE) starts at the first node, RB_FOREACH_FROM at any.
RB_FOREACH(d, n) ==
    /\ Idle /\ ~loop.on
    /\ Linked(tree) \subseteq LoopNodes
    /\ n \in Linked(tree) \cup {RB_MINMAX(tree, Other(d))}
    /\ loop' = [on |-> TRUE, x |-> n, dir |-> d, seen |-> <<>>,
                due |-> IF n = NULL THEN <<>> ELSE InKeyOrder(Ahead(n, d), d)]
    /\ UNCHANGED <<tree, op>>

\* The body leaves the node alone or removes it.
ForeachStep ==
    /\ Idle /\ loop.on /\ loop.x # NULL
    /\ loop' = [loop EXCEPT !.x = RB_NEXT(tree, loop.x, loop.dir),
                            !.seen = Append(@, loop.x)]
    /\ \/ UNCHANGED <<tree, op>>
       \/ StartRemove(loop.x)

ForeachEnd ==
    /\ Idle /\ loop.on /\ loop.x = NULL
    /\ loop' = NoLoop
    /\ UNCHANGED <<tree, op>>
-----------------------------------------------------------------------------
RB_INIT ==
    /\ tree = [root |-> NULL, child |-> [s \in Sides |-> <<>>],
               parent |-> <<>>, color |-> <<>>]
    /\ op = Done
    /\ loop = NoLoop

TreeNext ==
    \/ \E n \in Nodes : RB_INSERT(n) \/ RemoveNode(n)
    \/ RB_INSERT_COLOR
    \/ InsertDone
    \/ RB_REMOVE_COLOR
    \/ RemoveDone
    \/ \E d \in Sides, n \in Pointers : RB_FOREACH(d, n)
    \/ ForeachStep
    \/ ForeachEnd

TreeSpec == RB_INIT /\ [][TreeNext]_treeVars
-----------------------------------------------------------------------------
(* Properties.                                                             *)

TreeTypeOK ==
    /\ Linked(tree) \subseteq Nodes
    /\ tree.root \in Linked(tree) \cup {NULL}
    /\ tree.child \in [Sides -> [Linked(tree) -> Linked(tree) \cup {NULL}]]
    /\ tree.parent \in [Linked(tree) -> Linked(tree) \cup {NULL}]
    /\ tree.color \in [Linked(tree) -> {"red", "black"}]
    /\ op.pc \in {"idle", "insert_color", "remove_color"}
    /\ {op.elm, op.parent} \subseteq Linked(tree) \cup {NULL}
    /\ loop.x \in Linked(tree) \cup {NULL}

\* The nodes reached from the root through the child pointers, in order.
Traversal(tr) ==
    LET walk[n \in Places(tr)] ==
            IF n = NULL THEN <<>>
            ELSE walk[tr.child["left"][n]] \o <<n>> \o walk[tr.child["right"][n]]
    IN  walk[tr.root]

\* At every iteration of every loop, each linked node is reached from the
\* root once and in the order of the keys, and the parent pointers are the
\* inverse of the child pointers: no rotation loses, doubles or misplaces a
\* node, and a search may be done at any time.
SearchTree ==
    /\ Traversal(tree) = InKeyOrder(Linked(tree), "right")
    /\ \A n \in Linked(tree) :
          /\ tree.parent[n] = NULL <=> n = tree.root
          /\ \A s \in Sides : tree.child[s][n] # NULL => tree.parent[tree.child[s][n]] = n

\* The black nodes between the root and n, and whether e is on that path.
BlackDepth(n) ==
    LET up[m \in Places(tree)] ==
            IF m = NULL THEN 0
            ELSE (IF tree.color[m] = "black" THEN 1 ELSE 0) + up[tree.parent[m]]
    IN  up[n]

Below(n, e) ==
    LET up[m \in Places(tree)] == m # NULL /\ (m = e \/ up[tree.parent[m]])
    IN  up[n]

\* The conditions tree.h:38-44 lists, with what the loops are allowed to
\* break: every path to a leaf has as many black nodes, the paths through
\* the place of a removed black node one less; a red node has a black
\* parent, except at the element the loop is working on.  Idle trees meet
\* the conditions as they stand.
RedBlack ==
    LET removing == op.pc = "remove_color"
        missing(n, s) ==
            removing /\ IF op.elm = NULL
                           THEN n = op.parent /\ s = Side(tree, n, NULL)
                           ELSE Below(n, op.elm)
        leaves == {l \in Linked(tree) \X Sides : tree.child[l[2]][l[1]] = NULL}
        blacks == {BlackDepth(l[1]) + IF missing(l[1], l[2]) THEN 1 ELSE 0 : l \in leaves}
    IN  /\ \A a, b \in blacks : a = b
        /\ \A n \in Linked(tree) :
              IsRed(tree, n) /\ (n = tree.root \/ IsRed(tree, tree.parent[n])) =>
                  \/ n = op.elm
                  \/ removing /\ n # tree.root /\ tree.parent[n] = op.elm

\* The searches agree with the keys of the linked nodes: RB_FIND finds the
\* node with the key if there is one, RB_NFIND the first node that is not
\* less, RB_NEXT and RB_PREV the neighbours, RB_MIN and RB_MAX the ends.
LookupsAgree ==
    LET order == InKeyOrder(Linked(tree), "right")
        len   == Len(order)
        at(i) == IF i \in 1..len THEN order[i] ELSE NULL
        below(k) == Cardinality({n \in Linked(tree) : Key[n] < k})
    IN  Idle =>
          /\ \A k \in {Key[n] : n \in Nodes} :
                /\ RB_NFIND(tree, k) = at(below(k) + 1)
                /\ RB_FIND(tree, k) = IF \E n \in Linked(tree) : Key[n] = k
                                     THEN at(below(k) + 1) ELSE NULL
          /\ \A i \in 1..len : /\ RB_NEXT(tree, order[i], "right") = at(i + 1)
                              /\ RB_NEXT(tree, order[i], "left") = at(i - 1)
          /\ RB_MINMAX(tree, "left") = at(1)
          /\ RB_MINMAX(tree, "right") = at(len)

\* A loop visits the nodes that were ahead of it, each once and in order,
\* whichever of them its body removes on the way, and ends after the last.
ForeachComplete ==
    loop.on => /\ IsPrefix(loop.seen, loop.due)
               /\ loop.x = NULL => loop.seen = loop.due

\* Lookups and loops, also those whose body removes nodes, see what an ordered
\* set with the tree's elements would show (RB_FIND, RB_NFIND, RB_FOREACH_SAFE).
ReadersAgree == LookupsAgree /\ ForeachComplete

\* The tree implements an ordered set: what is reached from the root changes
\* by the one node inserted or removed, and never while rebalancing.
Set == INSTANCE OrderedSet WITH members <- ToSet(Traversal(tree))
ImplementsSet == Set!Spec
=============================================================================
