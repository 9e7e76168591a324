------------------------------ MODULE Uv_proofs ------------------------------
(***************************************************************************)
(* The red-black trees of libuv, for any nodes and keys, and its error     *)
(* codes, for any numbers a platform gives its errors.                     *)
(*                                                                         *)
(* The properties of RBTree are about walks through the tree and are not   *)
(* inductive.  The invariant TreeIInv says instead that there are two      *)
(* functions on the linked nodes: sub, the set of nodes below each, whose  *)
(* members are on their sides of it and which the child pointers split     *)
(* (Tree); and h, the number of black nodes on every path down from it,    *)
(* with one place that may miss one (Heights).  A rotation changes either  *)
(* at two nodes only.  RedRule is the condition on red nodes with the      *)
(* exception each loop makes, OpShape what op points at, and LoopState     *)
(* that what an RB_FOREACH has seen, followed by what lies ahead of it, is *)
(* what was due when it started.  Given sub and h, each walk is computed   *)
(* by induction on the number of nodes below or above a node (Descent,     *)
(* Ascent).                                                                *)
(***************************************************************************)
EXTENDS MCUv, FiniteSetTheorems, SequenceTheorems, WellFoundedInduction, TLAPS

-----------------------------------------------------------------------------
(* Search trees, with the nodes below each node.                           *)

\* a comes before b on side s.
Before(s, a, b) == IF s = "left" THEN Key[a] < Key[b] ELSE Key[a] > Key[b]

\* The fields of the tree are defined for the linked nodes and name only those.
Shaped(tr) ==
    /\ tr = [root |-> tr.root, child |-> tr.child, parent |-> tr.parent, color |-> tr.color]
    /\ Linked(tr) \subseteq Nodes /\ IsFiniteSet(Linked(tr))
    /\ tr.root \in Places(tr)
    /\ tr.child \in [Sides -> [Linked(tr) -> Places(tr)]]
    /\ tr.parent \in [Linked(tr) -> Places(tr)]
    /\ tr.color \in [Linked(tr) -> {"red", "black"}]

\* The parent pointers are the inverse of the child pointers.
LinkedUp(tr) ==
    /\ \A n \in Linked(tr) : tr.parent[n] = NULL <=> n = tr.root
    /\ \A n \in Linked(tr), s \in Sides : tr.child[s][n] # NULL => tr.parent[tr.child[s][n]] = n
    /\ \A n \in Linked(tr) : tr.parent[n] # NULL => \E s \in Sides : tr.child[s][tr.parent[n]] = n

\* sub gives every node the nodes below it and itself.
Sub(sub, n) == IF n = NULL THEN {} ELSE sub[n]

\* The nodes below each node are on their sides of it, and all are below the root.
Spans(tr, sub) ==
    /\ sub \in [Linked(tr) -> SUBSET Linked(tr)]
    /\ Sub(sub, tr.root) = Linked(tr)
    /\ \A n \in Linked(tr) :
          sub[n] = {n} \cup Sub(sub, tr.child["left"][n]) \cup Sub(sub, tr.child["right"][n])
    /\ \A n \in Linked(tr), s \in Sides : \A m \in Sub(sub, tr.child[s][n]) : Before(s, m, n)

\* A search tree, at any moment of any operation.
Tree(tr, sub) == Shaped(tr) /\ LinkedUp(tr) /\ Spans(tr, sub)

\* The sides are each other's mirror images.
LEMMA OtherSide ==
  ASSUME NEW s \in Sides
  PROVE  Other(s) \in Sides /\ Other(s) # s /\ Sides = {s, Other(s)} /\ Other(Other(s)) = s
  BY DEF Sides, Other

\* No node comes before itself, and before on one side is after on the other.
LEMMA BeforeIrreflexive ==
  ASSUME NEW n \in Nodes, NEW m \in Nodes, NEW s \in Sides, Before(s, n, m)
  PROVE  n # m /\ ~Before(Other(s), n, m) /\ Before(Other(s), m, n)
  BY KeyAssumption DEF Before, Sides, Other

\* The order of the keys is transitive.
LEMMA BeforeTransitive ==
  ASSUME NEW a \in Nodes, NEW b \in Nodes, NEW c \in Nodes, NEW s \in Sides, Before(s, a, b), Before(s, b, c)
  PROVE  Before(s, a, c)
  BY KeyAssumption DEF Before, Sides

\* A node is below itself, and its children's sets are on their sides of it.
LEMMA SubSides ==
  ASSUME NEW tr, NEW sub, Tree(tr, sub), NEW n \in Linked(tr), NEW s \in Sides
  PROVE  /\ n \in sub[n] /\ sub[n] \subseteq Linked(tr)
         /\ sub[n] = {n} \cup Sub(sub, tr.child[s][n]) \cup Sub(sub, tr.child[Other(s)][n])
         /\ tr.child[s][n] \in Places(tr)
         /\ Sub(sub, tr.child[s][n]) \subseteq Linked(tr)
         /\ \A m \in Sub(sub, tr.child[s][n]) : Before(s, m, n)
<1>1. sub[n] = {n} \cup Sub(sub, tr.child["left"][n]) \cup Sub(sub, tr.child["right"][n])
  BY DEF Tree, Spans
<1>2. sub[n] = {n} \cup Sub(sub, tr.child[s][n]) \cup Sub(sub, tr.child[Other(s)][n])
  BY <1>1 DEF Sides, Other
<1>3. tr.child[s][n] \in Places(tr)
  BY DEF Tree, Shaped
<1>4. sub[n] \subseteq Linked(tr)
  BY DEF Tree, Spans
<1> QED
  BY <1>2, <1>3, <1>4 DEF Tree, Spans

\* A node is the child of one node, on one side, and not of itself.
LEMMA OneParent ==
  ASSUME NEW tr, NEW sub, Tree(tr, sub), NEW n \in Linked(tr), NEW s \in Sides,
         tr.child[s][n] # NULL
  PROVE  /\ tr.child[s][n] \in Linked(tr) /\ tr.child[s][n] # n
         /\ tr.parent[tr.child[s][n]] = n
         /\ tr.child[s][n] # tr.root
         /\ \A m \in Linked(tr), d \in Sides : tr.child[d][m] = tr.child[s][n] => m = n /\ d = s
<1> DEFINE c == tr.child[s][n]
<1>1. c \in Linked(tr) /\ c \in Nodes /\ n \in Nodes
  BY SubSides DEF Places, Tree, Shaped
<1>2. c \in Sub(sub, c) /\ Before(s, c, n)
  BY <1>1, SubSides, OtherSide DEF Sub
<1>3. c # n
  BY <1>1, <1>2, BeforeIrreflexive
<1>4. tr.parent[c] = n
  BY DEF Tree, LinkedUp
<1>5. c # tr.root
  BY <1>1, <1>4, NULLAssumption DEF Tree, LinkedUp
<1>6. ASSUME NEW m \in Linked(tr), NEW d \in Sides, tr.child[d][m] = c
      PROVE  m = n /\ d = s
  <2>1. m = n
    BY <1>4, <1>6 DEF Tree, LinkedUp
  <2>2. Before(d, c, n)
    BY <1>2, <1>6, <2>1, SubSides
  <2>3. d = s
    BY <1>1, <1>2, <2>2, BeforeIrreflexive, OtherSide
  <2> QED
    BY <2>1, <2>3
<1> QED
  BY <1>1, <1>3, <1>4, <1>5, <1>6

-----------------------------------------------------------------------------
(* Rotations.                                                              *)

\* q is tr with tmp, the child of elm on the side other than s, rotated above elm.
Rotated(tr, q, elm, tmp, s) ==
    /\ q = [root |-> q.root, child |-> q.child, parent |-> q.parent, color |-> tr.color]
    /\ q.root = IF tr.root = elm THEN tmp ELSE tr.root
    /\ q.child \in [Sides -> [Linked(tr) -> Places(tr)]]
    /\ q.parent \in [Linked(tr) -> Places(tr)]
    /\ \A n \in Linked(tr), d \in Sides :
          q.child[d][n] = IF n = elm THEN IF d = s THEN tr.child[s][elm] ELSE tr.child[s][tmp]
                          ELSE IF n = tmp THEN IF d = s THEN elm ELSE tr.child[Other(s)][tmp]
                          ELSE IF tr.child[d][n] = elm THEN tmp ELSE tr.child[d][n]
    /\ \A n \in Linked(tr) :
          q.parent[n] = IF n = elm THEN tmp
                        ELSE IF n = tmp THEN tr.parent[elm]
                        ELSE IF n = tr.child[s][tmp] THEN elm ELSE tr.parent[n]

\* The side a pointer to n is on.
LEMMA SideOf ==
  ASSUME NEW tr, NEW sub, Tree(tr, sub), NEW p \in Linked(tr), NEW s \in Sides, NEW n,
         tr.child[s][p] = n, n # NULL \/ tr.child[Other(s)][p] # NULL
  PROVE  Side(tr, p, n) = s
<1>1. CASE s = "left"
  BY <1>1 DEF Side
<1>2. CASE s = "right"
  <2>1. tr.child["left"][p] # n
    <3>1. CASE n # NULL
      BY <1>2, <3>1, OneParent DEF Sides
    <3>2. CASE n = NULL
      BY <1>2, <3>2 DEF Other
    <3> QED
      BY <3>1, <3>2
  <2> QED
    BY <1>2, <2>1 DEF Side
<1> QED
  BY <1>1, <1>2 DEF Sides

\* The child pointers after one of them was set.
LEMMA ChildUpdate ==
  ASSUME NEW L, NEW P, NEW c, c \in [Sides -> [L -> P]], NEW d, d \in Sides, NEW n, n \in L, NEW v, v \in P,
         NEW r, r = [c EXCEPT ![d][n] = v]
  PROVE  /\ r \in [Sides -> [L -> P]]
         /\ \A e \in Sides, m \in L : r[e][m] = IF e = d /\ m = n THEN v ELSE c[e][m]
  OBVIOUS

\* The nodes a rotation moves are different ones.
LEMMA Neighbours ==
  ASSUME NEW tr, NEW sub, Tree(tr, sub), NEW elm \in Linked(tr), NEW s \in Sides,
         NEW tmp \in Linked(tr), tmp = tr.child[s][elm],
         NEW d \in Sides, NEW mid, mid = tr.child[d][tmp], NEW up, up = tr.parent[elm]
  PROVE  /\ tmp # elm /\ mid \in Places(tr) /\ up \in Places(tr) /\ tr.parent[tmp] = elm
         /\ mid # NULL => mid \in Linked(tr) /\ mid # tmp /\ mid # elm /\ tr.parent[mid] = tmp
         /\ up # NULL => up \in Linked(tr) /\ up # elm /\ up # tmp /\ \E e \in Sides : tr.child[e][up] = elm
<1>0. Linked(tr) \subseteq Nodes /\ NULL \notin Linked(tr) /\ tmp # NULL /\ tmp \in Nodes /\ elm \in Nodes
  BY NULLAssumption DEF Tree, Shaped
<1>1. tmp # elm /\ mid \in Places(tr) /\ up \in Places(tr) /\ tr.parent[tmp] = elm
  BY <1>0, OneParent, SubSides DEF Tree, Shaped
<1>2. ASSUME NEW m \in Linked(tr), m \in Sub(sub, tmp) PROVE m # elm
  <2>1. Before(s, m, elm)
    BY <1>0, <1>2, SubSides
  <2> QED
    BY <1>0, <2>1, BeforeIrreflexive
<1>3. ASSUME mid # NULL PROVE mid \in Linked(tr) /\ mid # tmp /\ mid # elm /\ tr.parent[mid] = tmp
  <2>1. mid \in Linked(tr) /\ mid # tmp /\ tr.parent[mid] = tmp
    BY <1>3, OneParent
  <2>2. mid \in Sub(sub, mid)
    BY <1>3, <2>1, SubSides DEF Sub
  <2>3. mid \in Sub(sub, tmp)
    <3>1. sub[tmp] = {tmp} \cup Sub(sub, tr.child[d][tmp]) \cup Sub(sub, tr.child[Other(d)][tmp])
      BY SubSides
    <3> QED
      BY <1>0, <2>2, <3>1 DEF Sub
  <2> QED
    BY <1>2, <2>1, <2>3
<1>4. ASSUME up # NULL
      PROVE  up \in Linked(tr) /\ up # elm /\ up # tmp /\ \E e \in Sides : tr.child[e][up] = elm
  <2>1. PICK e \in Sides : tr.child[e][up] = elm
    BY <1>4 DEF Tree, LinkedUp
  <2>2. up \in Linked(tr)
    BY <1>1, <1>4 DEF Places
  <2>3. up # elm
    BY <1>0, <2>1, <2>2, OneParent
  <2>4. up # tmp
    <3>1. SUFFICES ASSUME up = tmp PROVE FALSE
      OBVIOUS
    <3>2. elm \in Sub(sub, tr.child[e][tmp])
      BY <1>0, <2>1, <3>1, SubSides DEF Sub
    <3>3. elm \in Sub(sub, tmp)
      BY <1>0, <3>2, SubSides DEF Sub
    <3> QED
      BY <1>2, <3>3
  <2> QED
    BY <2>1, <2>2, <2>3, <2>4
<1> QED
  BY <1>1, <1>3, <1>4

\* if (n) RB_PARENT(n) = p
LEMMA ParentUpdate ==
  ASSUME NEW L, NEW P, NULL \notin L, NEW f \in [L -> P], NEW n \in L \cup {NULL}, NEW v \in P
  PROVE  /\ (IF n = NULL THEN f ELSE [f EXCEPT ![n] = v]) \in [L -> P]
         /\ \A m \in L : (IF n = NULL THEN f ELSE [f EXCEPT ![n] = v])[m] = IF m = n THEN v ELSE f[m]
  OBVIOUS

\* RB_ROTATE with its local variables.
RotateWith(tr, elm, s, o, tmp, mid, up) ==
    SetParent([Replace(SetParent(SetParent([tr EXCEPT !.child[o][elm] = mid], mid, elm), tmp, up), up, elm, tmp)
                 EXCEPT !.child[s][tmp] = elm], elm, tmp)

\* What RB_ROTATE does to each field.
LEMMA RotateFields ==
  ASSUME NEW tr, NEW sub, Tree(tr, sub), NEW elm \in Linked(tr), NEW s \in Sides,
         NEW tmp \in Linked(tr), tmp = tr.child[Other(s)][elm]
  PROVE  Rotated(tr, RB_ROTATE(tr, elm, s), elm, tmp, s)
<1>a. PICK o, mid, up, L, P, q : /\ o = Other(s) /\ mid = tr.child[s][tmp] /\ up = tr.parent[elm]
                              /\ L = Linked(tr) /\ P = Places(tr) /\ q = RB_ROTATE(tr, elm, s)
  OBVIOUS
<1>b. PICK c1, p1, p2 : /\ c1 = [tr.child EXCEPT ![o][elm] = mid]
                        /\ p1 = IF mid = NULL THEN tr.parent ELSE [tr.parent EXCEPT ![mid] = elm]
                        /\ p2 = [p1 EXCEPT ![tmp] = up]
  OBVIOUS
<1>c. PICK t1, t2 : /\ t1 = [root |-> tr.root, child |-> c1, parent |-> p1, color |-> tr.color]
                    /\ t2 = [root |-> tr.root, child |-> c1, parent |-> p2, color |-> tr.color]
  OBVIOUS
<1>d. PICK u, c2, r2, c3, p3 : /\ u = Side(t2, up, elm)
                               /\ c2 = IF up = NULL THEN c1 ELSE [c1 EXCEPT ![u][up] = tmp]
                               /\ r2 = IF up = NULL THEN tmp ELSE tr.root
                               /\ c3 = [c2 EXCEPT ![s][tmp] = elm]
                               /\ p3 = [p2 EXCEPT ![elm] = tmp]
  OBVIOUS
<1>0. /\ o \in Sides /\ o # s /\ Sides = {s, o} /\ NULL \notin L /\ tmp # NULL /\ elm # NULL
      /\ P = L \cup {NULL} /\ tmp \in L /\ elm \in L /\ tmp \in P /\ elm \in P
      /\ tr.child \in [Sides -> [L -> P]] /\ tr.parent \in [L -> P]
      /\ tr = [root |-> tr.root, child |-> tr.child, parent |-> tr.parent, color |-> tr.color]
      /\ tmp = tr.child[o][elm]
  BY <1>a, OtherSide, NULLAssumption DEF Tree, Shaped, Places
<1>1. /\ tmp # elm /\ mid \in P /\ up \in P /\ tr.parent[tmp] = elm
      /\ mid # NULL => mid \in L /\ mid # tmp /\ mid # elm /\ tr.parent[mid] = tmp
      /\ up # NULL => up \in L /\ up # elm /\ up # tmp /\ \E d \in Sides : tr.child[d][up] = elm
  BY <1>a, <1>0, Neighbours
<1>4. /\ c1 \in [Sides -> [L -> P]]
      /\ \A d \in Sides, n \in L : c1[d][n] = IF d = o /\ n = elm THEN mid ELSE tr.child[d][n]
  BY <1>b, <1>0, <1>1, ChildUpdate
<1>5. /\ p1 \in [L -> P]
      /\ \A n \in L : p1[n] = IF n = mid THEN elm ELSE tr.parent[n]
  BY <1>b, <1>0, <1>1, ParentUpdate
<1>6. /\ p2 \in [L -> P]
      /\ \A n \in L : p2[n] = IF n = tmp THEN up ELSE IF n = mid THEN elm ELSE tr.parent[n]
  BY <1>b, <1>0, <1>1, <1>5
<1>7. up # NULL => u \in Sides /\ tr.child[u][up] = elm
  <2> SUFFICES ASSUME up # NULL PROVE u \in Sides /\ tr.child[u][up] = elm
    OBVIOUS
  <2>1. PICK d \in Sides : tr.child[d][up] = elm
    BY <1>1
  <2>2. c1["left"][up] = tr.child["left"][up]
    BY <1>1, <1>4 DEF Sides
  <2>3. u = IF tr.child["left"][up] = elm THEN "left" ELSE "right"
    BY <1>c, <1>d, <2>2 DEF Side
  <2> QED
    BY <2>1, <2>3 DEF Sides
<1>8. /\ c2 \in [Sides -> [L -> P]]
      /\ \A d \in Sides, n \in L : c2[d][n] = IF up # NULL /\ d = u /\ n = up THEN tmp
                                              ELSE IF d = o /\ n = elm THEN mid ELSE tr.child[d][n]
  <2>1. CASE up = NULL
    BY <1>d, <1>4, <2>1
  <2>2. CASE up # NULL
    <3>1. u \in Sides /\ up \in L /\ c2 = [c1 EXCEPT ![u][up] = tmp]
      BY <1>d, <1>1, <1>7, <2>2
    <3>2. /\ c2 \in [Sides -> [L -> P]]
          /\ \A d \in Sides, n \in L : c2[d][n] = IF d = u /\ n = up THEN tmp ELSE c1[d][n]
      BY <1>0, <1>4, <3>1, ChildUpdate
    <3> QED
      BY <1>4, <2>2, <3>2
  <2> QED
    BY <2>1, <2>2
<1>9. /\ c3 \in [Sides -> [L -> P]]
      /\ \A d \in Sides, n \in L : c3[d][n] = IF d = s /\ n = tmp THEN elm ELSE c2[d][n]
  <2>1. c3 = [c2 EXCEPT ![s][tmp] = elm] /\ c2 \in [Sides -> [L -> P]] /\ tmp \in L /\ elm \in P
    BY <1>d, <1>0, <1>8
  <2> QED
    BY <2>1, ChildUpdate
<1>10. ASSUME NEW d \in Sides, NEW n \in L, n # elm
      PROVE  (up # NULL /\ d = u /\ n = up) <=> tr.child[d][n] = elm
  <2>1. ASSUME tr.child[d][n] = elm PROVE up # NULL /\ d = u /\ n = up
    <3>1. n = up /\ up # NULL
      BY <1>0, <1>a, <2>1, OneParent
    <3>2. tr.child[u][n] = elm /\ u \in Sides
      BY <1>7, <3>1
    <3>3. d = u
      BY <1>0, <1>a, <2>1, <3>2, OneParent
    <3> QED
      BY <3>1, <3>3
  <2>2. ASSUME up # NULL /\ d = u /\ n = up PROVE tr.child[d][n] = elm
    BY <1>7, <2>2
  <2> QED
    BY <2>1, <2>2
<1>11. /\ p3 \in [L -> P]
       /\ \A n \in L : p3[n] = IF n = elm THEN tmp ELSE IF n = tmp THEN up ELSE IF n = mid THEN elm ELSE tr.parent[n]
  BY <1>d, <1>0, <1>6
<1>12. q = [root |-> r2, child |-> c3, parent |-> p3, color |-> tr.color]
  <2>1. PICK t3, t4 : /\ t3 = [root |-> r2, child |-> c2, parent |-> p2, color |-> tr.color]
                      /\ t4 = [root |-> r2, child |-> c3, parent |-> p2, color |-> tr.color]
    OBVIOUS
  <2>2. t1 = SetParent([tr EXCEPT !.child[o][elm] = mid], mid, elm)
    BY <1>0, <1>b, <1>c DEF SetParent
  <2>3. t2 = SetParent(t1, tmp, up)
    BY <1>0, <1>b, <1>c DEF SetParent
  <2>4. t3 = Replace(t2, up, elm, tmp)
    BY <1>c, <1>d, <2>1 DEF Replace
  <2>5. t4 = [t3 EXCEPT !.child[s][tmp] = elm]
    <3>1. t3.child = c2
      BY <2>1
    <3>2. [t3 EXCEPT !.child[s][tmp] = elm] = [t3 EXCEPT !.child = [t3.child EXCEPT ![s][tmp] = elm]]
      BY <2>1
    <3> QED
      BY <1>d, <2>1, <3>1, <3>2
  <2>6. SetParent(t4, elm, tmp) = [root |-> r2, child |-> c3, parent |-> p3, color |-> tr.color]
    BY <1>0, <1>d, <2>1 DEF SetParent
  <2>7. q = SetParent([Replace(SetParent(SetParent([tr EXCEPT !.child[o][elm] = mid], mid, elm), tmp, up), up, elm, tmp)
                         EXCEPT !.child[s][tmp] = elm], elm, tmp)
    <3>1. q = RotateWith(tr, elm, s, Other(s), tr.child[Other(s)][elm], tr.child[s][tr.child[Other(s)][elm]], tr.parent[elm])
      BY <1>a DEF RB_ROTATE, RotateWith
    <3>2. q = RotateWith(tr, elm, s, o, tmp, mid, up)
      BY <1>a, <3>1
    <3> QED
      BY <3>2 DEF RotateWith
  <2>8. q = SetParent([Replace(t2, up, elm, tmp) EXCEPT !.child[s][tmp] = elm], elm, tmp)
    BY <2>2, <2>3, <2>7, Zenon
  <2>9. q = SetParent(t4, elm, tmp)
    BY <2>4, <2>5, <2>8, Zenon
  <2> QED
    BY <2>6, <2>9
<1>13. r2 = IF tr.root = elm THEN tmp ELSE tr.root
  BY <1>a, <1>d DEF Tree, LinkedUp
<1>14. \A n \in L, d \in Sides :
          c3[d][n] = IF n = elm THEN IF d = s THEN tr.child[s][elm] ELSE mid
                          ELSE IF n = tmp THEN IF d = s THEN elm ELSE tr.child[o][tmp]
                          ELSE IF tr.child[d][n] = elm THEN tmp ELSE tr.child[d][n]
  BY <1>0, <1>1, <1>8, <1>9, <1>10
<1>15. \A n \in L, d \in Sides : c3[d][n] \in P
  BY <1>9
<1> QED
  BY <1>a, <1>9, <1>11, <1>12, <1>13, <1>14 DEF Rotated

\* The nodes below each node after the rotation.
RotatedSub(tr, sub, elm, tmp, s) ==
    [n \in Linked(tr) |-> IF n = tmp THEN sub[elm]
                          ELSE IF n = elm THEN {elm} \cup Sub(sub, tr.child[s][elm]) \cup Sub(sub, tr.child[s][tmp])
                          ELSE sub[n]]

\* n is no node, or a child of p and none of S.
ChildApart(tr, n, p, S) ==
    n # NULL => n \in Linked(tr) /\ n \notin S /\ n # tr.root /\ tr.parent[n] = p

\* What is known of the nodes of a rotation.
LEMMA RotateFacts ==
  ASSUME NEW tr, NEW sub, Tree(tr, sub), NEW elm \in Linked(tr), NEW s \in Sides,
         NEW tmp \in Linked(tr), tmp = tr.child[Other(s)][elm],
         NEW x, x = tr.child[s][elm], NEW mid, mid = tr.child[s][tmp], NEW y, y = tr.child[Other(s)][tmp]
  PROVE  /\ ChildApart(tr, x, elm, {elm, tmp, mid, y})
         /\ ChildApart(tr, mid, tmp, {elm, tmp, x, y})
         /\ ChildApart(tr, y, tmp, {elm, tmp, x, mid})
<1>1. Other(s) \in Sides /\ Other(s) # s
  BY OtherSide
<1>2. NULL \notin Linked(tr) /\ tmp # NULL /\ elm # tmp
  BY <1>1, NULLAssumption, OneParent DEF Tree, Shaped
<1>3. x # NULL => /\ x \in Linked(tr) /\ x # elm /\ x # tr.root /\ tr.parent[x] = elm
                  /\ \A m \in Linked(tr), d \in Sides : tr.child[d][m] = x => m = elm /\ d = s
  BY OneParent
<1>4. mid # NULL => /\ mid \in Linked(tr) /\ mid # tmp /\ mid # tr.root /\ tr.parent[mid] = tmp
                    /\ \A m \in Linked(tr), d \in Sides : tr.child[d][m] = mid => m = tmp /\ d = s
  BY OneParent
<1>5. y # NULL => /\ y \in Linked(tr) /\ y # tmp /\ y # tr.root /\ tr.parent[y] = tmp
                  /\ \A m \in Linked(tr), d \in Sides : tr.child[d][m] = y => m = tmp /\ d = Other(s)
  BY <1>1, OneParent
<1>6. (mid # NULL => mid # elm) /\ (y # NULL => y # elm)
  BY <1>1, Neighbours
<1>7. x # NULL => x # tmp
  BY <1>1, <1>3
<1> QED
  BY <1>1, <1>2, <1>3, <1>4, <1>5, <1>6, <1>7 DEF ChildApart

\* After a rotation the parent pointers still invert the child pointers.
LEMMA RotateLinks ==
  ASSUME NEW tr, NEW sub, Tree(tr, sub), NEW elm \in Linked(tr), NEW s \in Sides,
         NEW tmp \in Linked(tr), tmp = tr.child[Other(s)][elm], NEW q, Rotated(tr, q, elm, tmp, s)
  PROVE  Shaped(q) /\ LinkedUp(q) /\ Linked(q) = Linked(tr)
<1>a. PICK o, x, mid, y, up, L : /\ o = Other(s) /\ x = tr.child[s][elm] /\ mid = tr.child[s][tmp]
                              /\ y = tr.child[o][tmp] /\ up = tr.parent[elm] /\ L = Linked(tr)
  OBVIOUS
<1>0. /\ o \in Sides /\ o # s /\ Sides = {s, o} /\ NULL \notin L /\ tmp # NULL /\ elm # NULL
      /\ tmp \in L /\ elm \in L /\ tmp = tr.child[o][elm]
  BY <1>a, OtherSide, NULLAssumption DEF Tree, Shaped
<1>1. /\ tmp # elm /\ tr.parent[tmp] = elm /\ tmp # tr.root
      /\ up # NULL => up \in L /\ up # elm /\ up # tmp /\ \E d \in Sides : tr.child[d][up] = elm
  BY <1>a, <1>0, Neighbours, OneParent
<1>2. /\ x # NULL => x \in L /\ x \notin {elm, tmp, mid, y, tr.root} /\ tr.parent[x] = elm
      /\ mid # NULL => mid \in L /\ mid \notin {elm, tmp, x, y, tr.root} /\ tr.parent[mid] = tmp
      /\ y # NULL => y \in L /\ y \notin {elm, tmp, x, mid, tr.root} /\ tr.parent[y] = tmp
  <2>1. x = tr.child[s][elm] /\ mid = tr.child[s][tmp] /\ y = tr.child[Other(s)][tmp]
    BY <1>a
  <2>2. /\ ChildApart(tr, x, elm, {elm, tmp, mid, y})
        /\ ChildApart(tr, mid, tmp, {elm, tmp, x, y})
        /\ ChildApart(tr, y, tmp, {elm, tmp, x, mid})
    BY <2>1, RotateFacts
  <2> QED
    BY <1>a, <2>2 DEF ChildApart
<1>3. /\ q.root = IF tr.root = elm THEN tmp ELSE tr.root
      /\ \A n \in L, d \in Sides :
          q.child[d][n] = IF n = elm THEN IF d = s THEN x ELSE mid
                          ELSE IF n = tmp THEN IF d = s THEN elm ELSE y
                          ELSE IF tr.child[d][n] = elm THEN tmp ELSE tr.child[d][n]
      /\ \A n \in L : q.parent[n] = IF n = elm THEN tmp ELSE IF n = tmp THEN up
                                    ELSE IF n = mid THEN elm ELSE tr.parent[n]
  BY <1>a DEF Rotated
<1>4. Linked(q) = L /\ Places(q) = Places(tr)
  BY <1>a DEF Rotated, Linked, Places
<1>5. Shaped(q)
  BY <1>a, <1>3, <1>4 DEF Tree, Shaped, Rotated, Places
<1>6. /\ \A n \in L : tr.parent[n] = NULL <=> n = tr.root
      /\ \A n \in L, d \in Sides : tr.child[d][n] # NULL => tr.parent[tr.child[d][n]] = n
      /\ \A n \in L : tr.parent[n] # NULL => \E d \in Sides : tr.child[d][tr.parent[n]] = n
      /\ \A n \in L, d \in Sides : tr.child[d][n] \in L \cup {NULL}
      /\ \A n \in L : tr.parent[n] \in L \cup {NULL}
  BY <1>a DEF Tree, LinkedUp, Shaped, Places
<1>7. ASSUME NEW n \in L PROVE q.parent[n] = NULL <=> n = q.root
  <2>1. CASE n = elm
    BY <1>0, <1>1, <1>3, <2>1
  <2>2. CASE n = tmp
    BY <1>0, <1>1, <1>3, <1>6, <1>a, <2>2
  <2>3. CASE n = mid /\ n # elm /\ n # tmp
    BY <1>0, <1>1, <1>2, <1>3, <2>3
  <2>4. CASE n # mid /\ n # elm /\ n # tmp
    BY <1>0, <1>1, <1>3, <1>6, <2>4
  <2> QED
    BY <2>1, <2>2, <2>3, <2>4
<1>8. ASSUME NEW n \in L, NEW d \in Sides, q.child[d][n] # NULL PROVE q.parent[q.child[d][n]] = n
  <2>1. CASE n = elm
    <3>1. CASE d = s
      BY <1>0, <1>1, <1>2, <1>3, <1>8, <2>1, <3>1
    <3>2. CASE d = o
      BY <1>0, <1>1, <1>2, <1>3, <1>8, <2>1, <3>2
    <3> QED
      BY <1>0, <3>1, <3>2
  <2>2. CASE n = tmp
    <3>1. CASE d = s
      BY <1>0, <1>1, <1>2, <1>3, <1>8, <2>2, <3>1
    <3>2. CASE d = o
      <4>1. q.child[d][n] = y /\ y # NULL
        BY <1>0, <1>1, <1>3, <1>8, <2>2, <3>2
      <4>2. y \in L /\ y # elm /\ y # tmp /\ y # mid /\ tr.parent[y] = tmp
        BY <1>2, <4>1
      <4> QED
        BY <1>3, <2>2, <4>1, <4>2
    <3> QED
      BY <1>0, <3>1, <3>2
  <2>3. CASE n # elm /\ n # tmp
    <3>1. CASE tr.child[d][n] = elm
      BY <1>0, <1>1, <1>3, <1>6, <1>a, <2>3, <3>1
    <3>2. CASE tr.child[d][n] # elm
      <4>1. PICK c \in L : c = tr.child[d][n] /\ c = q.child[d][n] /\ tr.parent[c] = n
        BY <1>3, <1>6, <1>8, <2>3, <3>2
      <4>2. c # mid
        <5>1. mid # NULL => tr.parent[mid] = tmp
          BY <1>2
        <5> QED
          BY <1>0, <2>3, <4>1, <5>1
      <4> QED
        BY <1>0, <1>1, <1>3, <2>3, <3>2, <4>1, <4>2
    <3> QED
      BY <3>1, <3>2
  <2> QED
    BY <2>1, <2>2, <2>3
<1>9. ASSUME NEW n \in L, q.parent[n] # NULL PROVE \E d \in Sides : q.child[d][q.parent[n]] = n
  <2>1. CASE n = elm
    BY <1>0, <1>1, <1>3, <2>1
  <2>2. CASE n = tmp
    <3>1. up # NULL /\ q.parent[n] = up
      BY <1>1, <1>3, <1>9, <2>2
    <3>2. PICK d \in Sides : tr.child[d][up] = elm
      BY <1>1, <3>1
    <3>3. q.child[d][up] = tmp
      BY <1>1, <1>3, <3>1, <3>2
    <3> QED
      BY <2>2, <3>1, <3>3
  <2>3. CASE n = mid /\ n # elm /\ n # tmp
    BY <1>0, <1>1, <1>3, <2>3
  <2>4. CASE n # mid /\ n # elm /\ n # tmp
    <3>1. PICK p \in L : p = tr.parent[n] /\ p = q.parent[n]
      BY <1>3, <1>6, <1>9, <2>4
    <3>2. PICK d \in Sides : tr.child[d][p] = n
      BY <1>0, <1>6, <3>1
    <3>3. CASE p = elm
      BY <1>0, <1>3, <1>a, <2>4, <3>1, <3>2, <3>3
    <3>4. CASE p = tmp
      BY <1>0, <1>1, <1>3, <1>a, <2>4, <3>1, <3>2, <3>4
    <3>5. CASE p # elm /\ p # tmp
      BY <1>3, <2>4, <3>1, <3>2, <3>5
    <3> QED
      BY <3>3, <3>4, <3>5
  <2> QED
    BY <2>1, <2>2, <2>3, <2>4
<1> QED
  BY <1>4, <1>5, <1>7, <1>8, <1>9, <1>a DEF LinkedUp

\* After a rotation the nodes below each node are on their sides of it.
LEMMA RotateSpans ==
  ASSUME NEW tr, NEW sub, Tree(tr, sub), NEW elm \in Linked(tr), NEW s \in Sides,
         NEW tmp \in Linked(tr), tmp = tr.child[Other(s)][elm], NEW q, Rotated(tr, q, elm, tmp, s),
         NEW r, r = RotatedSub(tr, sub, elm, tmp, s)
  PROVE  Spans(q, r)
<1>a. PICK o, x, mid, y, L : /\ o = Other(s) /\ x = tr.child[s][elm] /\ mid = tr.child[s][tmp]
                          /\ y = tr.child[o][tmp] /\ L = Linked(tr)
  OBVIOUS
<1>0. /\ o \in Sides /\ o # s /\ Sides = {s, o} /\ NULL \notin L /\ tmp # NULL /\ elm # NULL
      /\ tmp \in L /\ elm \in L /\ tmp = tr.child[o][elm] /\ L \subseteq Nodes
  BY <1>a, OtherSide, NULLAssumption DEF Tree, Shaped
<1>1. /\ tmp # elm /\ tmp # tr.root /\ tr.root \in L \cup {NULL}
  BY <1>a, <1>0, OneParent DEF Tree, Shaped, Places
<1>2. \A n \in {x, mid, y} : n # NULL => n \in L /\ n # elm /\ n # tmp
  <2>1. y = tr.child[Other(s)][tmp]
    BY <1>a
  <2>2. /\ ChildApart(tr, x, elm, {elm, tmp, mid, y})
        /\ ChildApart(tr, mid, tmp, {elm, tmp, x, y})
        /\ ChildApart(tr, y, tmp, {elm, tmp, x, mid})
    BY <1>a, <2>1, RotateFacts
  <2> QED
    BY <1>a, <2>2 DEF ChildApart
<1>3. /\ q.root = IF tr.root = elm THEN tmp ELSE tr.root
      /\ \A n \in L, d \in Sides :
          q.child[d][n] = IF n = elm THEN IF d = s THEN x ELSE mid
                          ELSE IF n = tmp THEN IF d = s THEN elm ELSE y
                          ELSE IF tr.child[d][n] = elm THEN tmp ELSE tr.child[d][n]
  BY <1>a DEF Rotated
<1>4. Linked(q) = L
  BY <1>a DEF Rotated, Linked
<1>5. \A n \in L : r[n] = IF n = tmp THEN sub[elm]
                          ELSE IF n = elm THEN {elm} \cup Sub(sub, x) \cup Sub(sub, mid) ELSE sub[n]
  BY <1>a DEF RotatedSub
<1>6. /\ \A n \in L : sub[n] \subseteq L
      /\ sub[elm] = {elm} \cup Sub(sub, x) \cup sub[tmp]
      /\ sub[tmp] = {tmp} \cup Sub(sub, mid) \cup Sub(sub, y)
  <2>1. \A n \in L : sub[n] \subseteq L
    BY <1>a, SubSides
  <2>2. sub[elm] = {elm} \cup Sub(sub, x) \cup Sub(sub, tmp)
    BY <1>a, SubSides
  <2>3. sub[tmp] = {tmp} \cup Sub(sub, mid) \cup Sub(sub, y)
    BY <1>a, SubSides
  <2> QED
    BY <1>0, <2>1, <2>2, <2>3 DEF Sub
<1>7. r \in [L -> SUBSET L]
  <2>1. r = [n \in L |-> IF n = tmp THEN sub[elm]
                          ELSE IF n = elm THEN {elm} \cup Sub(sub, x) \cup Sub(sub, mid) ELSE sub[n]]
    BY <1>a DEF RotatedSub
  <2>2. Sub(sub, x) \subseteq L /\ Sub(sub, mid) \subseteq L /\ sub[elm] \subseteq L
    <3>1. sub[elm] \subseteq L /\ sub[tmp] \subseteq L
      BY <1>0, <1>6
    <3>2. Sub(sub, x) \subseteq sub[elm] /\ Sub(sub, mid) \subseteq sub[tmp]
      BY <1>6
    <3> QED
      BY <3>1, <3>2
  <2>3. {elm} \cup Sub(sub, x) \cup Sub(sub, mid) \subseteq L
    BY <1>0, <2>2
  <2>4. \A n \in L : (IF n = tmp THEN sub[elm]
                          ELSE IF n = elm THEN {elm} \cup Sub(sub, x) \cup Sub(sub, mid) ELSE sub[n]) \subseteq L
    BY <1>6, <2>2, <2>3
  <2> QED
    BY <2>1, <2>4
<1>8. \A n \in L \cup {NULL} : n # elm /\ n # tmp => Sub(r, n) = Sub(sub, n)
  BY <1>5 DEF Sub
<1>9. Sub(r, x) = Sub(sub, x) /\ Sub(r, mid) = Sub(sub, mid) /\ Sub(r, y) = Sub(sub, y)
  BY <1>2, <1>0, <1>8
<1>10. Sub(r, tmp) = sub[elm] /\ Sub(r, elm) = {elm} \cup Sub(sub, x) \cup Sub(sub, mid) /\ Sub(sub, elm) = sub[elm]
  BY <1>0, <1>1, <1>5 DEF Sub
<1>11. Sub(r, q.root) = L
  <2>1. Sub(sub, tr.root) = L
    BY <1>a DEF Tree, Spans
  <2> QED
    BY <1>1, <1>3, <1>8, <1>10, <2>1
<1>12. \A n \in L, d \in Sides : n # elm /\ n # tmp => Sub(r, q.child[d][n]) = Sub(sub, tr.child[d][n])
  <2> SUFFICES ASSUME NEW n \in L, NEW d \in Sides, n # elm, n # tmp
               PROVE  Sub(r, q.child[d][n]) = Sub(sub, tr.child[d][n])
    OBVIOUS
  <2>1. CASE tr.child[d][n] = elm
    BY <1>3, <1>10, <2>1
  <2>2. CASE tr.child[d][n] # elm
    <3>1. tr.child[d][n] \in L \cup {NULL}
      BY <1>a DEF Tree, Shaped, Places
    <3>2. tr.child[d][n] # tmp
      BY <1>0, <1>a, OneParent
    <3> QED
      BY <1>3, <1>8, <2>2, <3>1, <3>2
  <2> QED
    BY <2>1, <2>2
<1>13. ASSUME NEW n \in L
       PROVE  r[n] = {n} \cup Sub(r, q.child[s][n]) \cup Sub(r, q.child[o][n])
  <2>1. CASE n = elm
    BY <1>0, <1>1, <1>3, <1>5, <1>9, <2>1
  <2>2. CASE n = tmp
    <3>1. Sub(r, q.child[s][n]) = {elm} \cup Sub(sub, x) \cup Sub(sub, mid)
      BY <1>0, <1>1, <1>3, <1>10, <2>2
    <3>2. Sub(r, q.child[o][n]) = Sub(sub, y)
      BY <1>0, <1>1, <1>3, <1>9, <2>2
    <3>3. r[n] = {elm} \cup Sub(sub, x) \cup ({tmp} \cup Sub(sub, mid) \cup Sub(sub, y))
      BY <1>5, <1>6, <2>2
    <3> QED
      BY <2>2, <3>1, <3>2, <3>3
  <2>3. CASE n # elm /\ n # tmp
    <3>1. sub[n] = {n} \cup Sub(sub, tr.child[s][n]) \cup Sub(sub, tr.child[o][n])
      BY <1>a, SubSides
    <3> QED
      BY <1>0, <1>5, <1>12, <2>3, <3>1
  <2> QED
    BY <2>1, <2>2, <2>3
<1>14. ASSUME NEW n \in L, NEW d \in Sides, NEW m \in Sub(r, q.child[d][n])
       PROVE  Before(d, m, n)
  <2>0. /\ \A k \in Sub(sub, x) : Before(s, k, elm)
        /\ \A k \in sub[tmp] : Before(o, k, elm)
        /\ \A k \in Sub(sub, mid) : Before(s, k, tmp)
        /\ \A k \in Sub(sub, y) : Before(o, k, tmp)
    <3>1. \A k \in Sub(sub, tmp) : Before(o, k, elm)
      BY <1>0, <1>a, SubSides
    <3> QED
      BY <1>0, <1>a, <3>1, SubSides DEF Sub
  <2>1. CASE n = elm
    BY <1>0, <1>1, <1>3, <1>6, <1>9, <2>0, <2>1
  <2>2. CASE n = tmp /\ d = s
    <3>1. Before(s, elm, tmp)
      <4>1. Before(o, tmp, elm)
        BY <1>6, <2>0
      <4> QED
        BY <1>0, <1>a, <4>1, BeforeIrreflexive, OtherSide
    <3>2. ASSUME NEW k \in Sub(sub, x) PROVE Before(s, k, tmp)
      <4>1. k \in Nodes /\ Before(s, k, elm)
        BY <1>0, <1>6, <2>0
      <4> QED
        BY <1>0, <3>1, <4>1, BeforeTransitive
    <3>3. m \in {elm} \cup Sub(sub, x) \cup Sub(sub, mid)
      BY <1>0, <1>1, <1>3, <1>10, <2>2
    <3> QED
      BY <2>0, <2>2, <3>1, <3>2, <3>3
  <2>3. CASE n = tmp /\ d = o
    BY <1>0, <1>1, <1>3, <1>9, <2>0, <2>3
  <2>4. CASE n # elm /\ n # tmp
    BY <1>12, <1>a, <2>4, SubSides
  <2> QED
    BY <1>0, <2>1, <2>2, <2>3, <2>4
<1>15. \A n \in L : r[n] = {n} \cup Sub(r, q.child["left"][n]) \cup Sub(r, q.child["right"][n])
  BY <1>0, <1>13 DEF Sides
<1> QED
  BY <1>4, <1>7, <1>11, <1>14, <1>15 DEF Spans

\* RB_ROTATE keeps the search tree.
LEMMA RotateTree ==
  ASSUME NEW tr, NEW sub, Tree(tr, sub), NEW elm \in Linked(tr), NEW s \in Sides,
         NEW tmp, tmp = tr.child[Other(s)][elm], tmp # NULL
  PROVE  /\ Rotated(tr, RB_ROTATE(tr, elm, s), elm, tmp, s)
         /\ Tree(RB_ROTATE(tr, elm, s), RotatedSub(tr, sub, elm, tmp, s))
         /\ Linked(RB_ROTATE(tr, elm, s)) = Linked(tr)
<1>1. tmp \in Linked(tr)
  BY OneParent, OtherSide
<1> QED
  BY <1>1, RotateFields, RotateLinks, RotateSpans DEF Tree

-----------------------------------------------------------------------------
(* Colours.                                                                *)

\* The colours of a node.
Colors == {"red", "black"}

\* q is tr with other colours.
Recolored(tr, q) ==
    /\ q = [root |-> tr.root, child |-> tr.child, parent |-> tr.parent, color |-> q.color]
    /\ q.color \in [Linked(tr) -> Colors]

\* Colours do not matter to the search tree.
LEMMA RecolorTree ==
  ASSUME NEW tr, NEW sub, Tree(tr, sub), NEW q, Recolored(tr, q)
  PROVE  /\ Tree(q, sub) /\ Linked(q) = Linked(tr)
         /\ q.root = tr.root /\ q.child = tr.child /\ q.parent = tr.parent
<1>1. q.root = tr.root /\ q.child = tr.child /\ q.parent = tr.parent
  BY DEF Recolored
<1>2. Linked(q) = Linked(tr) /\ Places(q) = Places(tr)
  BY DEF Recolored, Linked, Places
<1>3. Shaped(q)
  BY <1>1, <1>2 DEF Shaped, Tree, Recolored, Colors
<1>4. LinkedUp(q)
  BY <1>1, <1>2 DEF LinkedUp, Tree
<1>5. Spans(q, sub)
  BY <1>1, <1>2 DEF Spans, Tree
<1> QED
  BY <1>1, <1>2, <1>3, <1>4, <1>5 DEF Tree

\* Two recolourings in a row are one.
LEMMA RecolorTwice ==
  ASSUME NEW tr, NEW q, Recolored(tr, q), NEW r, Recolored(q, r)
  PROVE  Recolored(tr, r)
  BY DEF Recolored, Linked

\* What SetColor changes.
LEMMA SetColorFields ==
  ASSUME NEW tr, Shaped(tr), NEW n \in Places(tr), NEW c \in Colors, NEW q, q = SetColor(tr, n, c)
  PROVE  /\ Recolored(tr, q)
         /\ \A m \in Linked(tr) : q.color[m] = IF m = n THEN c ELSE tr.color[m]
<1>1. NULL \notin Linked(tr)
  BY NULLAssumption DEF Shaped
<1>2. tr.color \in [Linked(tr) -> Colors]
  BY DEF Shaped, Colors
<1>3. CASE n = NULL
  BY <1>1, <1>2, <1>3 DEF SetColor, Recolored, Shaped
<1>4. CASE n # NULL
  <2>1. n \in Linked(tr)
    BY <1>4 DEF Places
  <2>2. q = [tr EXCEPT !.color = [tr.color EXCEPT ![n] = c]]
    BY <1>4 DEF SetColor, Shaped
  <2>3. q = [root |-> tr.root, child |-> tr.child, parent |-> tr.parent, color |-> [tr.color EXCEPT ![n] = c]]
    BY <2>2 DEF Shaped
  <2> QED
    BY <1>2, <2>1, <2>3 DEF Recolored
<1> QED
  BY <1>3, <1>4

\* What RB_SET_BLACKRED changes.
LEMMA BlackRedFields ==
  ASSUME NEW tr, Shaped(tr), NEW b \in Linked(tr), NEW r \in Linked(tr), NEW q, q = RB_SET_BLACKRED(tr, b, r)
  PROVE  /\ Recolored(tr, q)
         /\ \A m \in Linked(tr) : q.color[m] = IF m = r THEN "red" ELSE IF m = b THEN "black" ELSE tr.color[m]
<1>1. tr.color \in [Linked(tr) -> Colors]
  BY DEF Shaped, Colors
<1>2. PICK f : f = [[tr.color EXCEPT ![b] = "black"] EXCEPT ![r] = "red"]
  OBVIOUS
<1>3. q = [root |-> tr.root, child |-> tr.child, parent |-> tr.parent, color |-> f]
  BY <1>2 DEF Shaped, RB_SET_BLACKRED
<1>4. f \in [Linked(tr) -> Colors] /\ \A m \in Linked(tr) : f[m] = IF m = r THEN "red" ELSE IF m = b THEN "black" ELSE tr.color[m]
  BY <1>1, <1>2 DEF Colors
<1> QED
  BY <1>3, <1>4 DEF Recolored

\* The side a node is on below its parent.
LEMMA SideIs ==
  ASSUME NEW tr, NEW sub, Tree(tr, sub), NEW n \in Linked(tr), NEW p, p = tr.parent[n], p # NULL
  PROVE  p \in Linked(tr) /\ p # n /\ Side(tr, p, n) \in Sides /\ tr.child[Side(tr, p, n)][p] = n
<1>1. p \in Linked(tr)
  BY DEF Tree, Shaped, Places
<1>2. PICK d \in Sides : tr.child[d][p] = n
  BY DEF Tree, LinkedUp
<1>3. n # NULL
  BY NULLAssumption DEF Tree, Shaped
<1>4. p # n
  BY <1>1, <1>2, <1>3, OneParent
<1> QED
  BY <1>1, <1>2, <1>4 DEF Side, Sides

-----------------------------------------------------------------------------
(* The number of black nodes on the way down.                              *)

\* h is the number of black nodes on the paths down from a node.
Height(h, n) == IF n = NULL THEN 0 ELSE h[n]

\* What a node counts for on a path.
BlackOf(tr, n) == IF tr.color[n] = "black" THEN 1 ELSE 0

\* What is missing on side s of n.
Gap(gn, gs, n, s) == IF n = gn /\ s = gs THEN 1 ELSE 0

\* It is the same on both sides of a node, but one less on side gs of gn.
Heights(tr, h, gn, gs) ==
    /\ h \in [Linked(tr) -> Nat]
    /\ \A n \in Linked(tr), s \in Sides :
          h[n] = Height(h, tr.child[s][n]) + Gap(gn, gs, n, s) + BlackOf(tr, n)

\* t1 is tr with the colours of a and b exchanged.
Swapped(tr, t1, a, b) ==
    /\ Recolored(tr, t1)
    /\ \A n \in Linked(tr) :
          t1.color[n] = IF n = a THEN tr.color[b] ELSE IF n = b THEN tr.color[a] ELSE tr.color[n]

\* A rotation that swaps the colours with a red node moved up keeps the heights.
LEMMA RotateHeights ==
  ASSUME NEW tr, NEW sub, Tree(tr, sub), NEW elm \in Linked(tr), NEW s \in Sides,
         NEW tmp \in Linked(tr), tmp = tr.child[Other(s)][elm], NEW t1, Swapped(tr, t1, elm, tmp),
         tr.color[tmp] = "red", NEW q, Rotated(t1, q, elm, tmp, s),
         NEW h, NEW gn, NEW gs, Heights(tr, h, gn, gs), gn # tmp, gn = elm => gs = s
  PROVE  \E g : Heights(q, g, gn, gs)
<1>a. PICK o, x, mid, y, L : /\ o = Other(s) /\ x = tr.child[s][elm] /\ mid = tr.child[s][tmp]
                          /\ y = tr.child[o][tmp] /\ L = Linked(tr)
  OBVIOUS
<1>0. /\ o \in Sides /\ o # s /\ Sides = {s, o} /\ NULL \notin L /\ tmp # NULL /\ elm # NULL
      /\ tmp \in L /\ elm \in L /\ tmp = tr.child[o][elm]
  BY <1>a, OtherSide, NULLAssumption DEF Tree, Shaped
<1>1. tmp # elm
  BY <1>a, <1>0, OneParent
<1>2. (x # NULL => x \in L /\ x # elm /\ x # tmp) /\ (mid # NULL => mid \in L /\ mid # elm /\ mid # tmp)
      /\ (y # NULL => y \in L /\ y # elm /\ y # tmp)
  <2>1. x = tr.child[s][elm] /\ mid = tr.child[s][tmp] /\ y = tr.child[Other(s)][tmp]
    BY <1>a
  <2>2. /\ ChildApart(tr, x, elm, {elm, tmp, mid, y})
        /\ ChildApart(tr, mid, tmp, {elm, tmp, x, y})
        /\ ChildApart(tr, y, tmp, {elm, tmp, x, mid})
    BY <2>1, RotateFacts
  <2> QED
    BY <1>a, <2>2 DEF ChildApart
<1>3. /\ Linked(t1) = L /\ t1.child = tr.child
  BY <1>a, RecolorTree DEF Swapped
<1>b. PICK g : g = [h EXCEPT ![tmp] = h[elm], ![elm] = h[tmp]]
  OBVIOUS
<1>4. \A n \in L, d \in Sides :
          q.child[d][n] = IF n = elm THEN IF d = s THEN x ELSE mid
                          ELSE IF n = tmp THEN IF d = s THEN elm ELSE y
                          ELSE IF tr.child[d][n] = elm THEN tmp ELSE tr.child[d][n]
  BY <1>a, <1>3 DEF Rotated
<1>5. Linked(q) = L /\ \A n \in L : q.color[n] = IF n = elm THEN "red" ELSE IF n = tmp THEN tr.color[elm] ELSE tr.color[n]
  BY <1>3, <1>a DEF Rotated, Linked, Swapped
<1>6. h \in [L -> Nat] /\ \A n \in L, d \in Sides :
          h[n] = Height(h, tr.child[d][n]) + Gap(gn, gs, n, d) + BlackOf(tr, n)
  BY <1>a DEF Heights
<1>7. g \in [L -> Nat] /\ \A n \in L : g[n] = IF n = elm THEN h[tmp] ELSE IF n = tmp THEN h[elm] ELSE h[n]
  BY <1>b, <1>0, <1>1, <1>6
<1>8. \A n \in L \cup {NULL} : Height(h, n) \in Nat /\ (n # elm /\ n # tmp => Height(g, n) = Height(h, n))
  BY <1>6, <1>7 DEF Height
<1>9. Height(g, x) = Height(h, x) /\ Height(g, mid) = Height(h, mid) /\ Height(g, y) = Height(h, y)
      /\ Height(g, tmp) = h[elm] /\ Height(g, elm) = h[tmp]
  <2>1. x \in L \cup {NULL} /\ mid \in L \cup {NULL} /\ y \in L \cup {NULL}
    BY <1>2
  <2> QED
    BY <1>0, <1>1, <1>2, <1>7, <1>8, <2>1 DEF Height
<1>10. \A d \in Sides : Gap(gn, gs, tmp, d) = 0 /\ Gap(gn, gs, elm, o) = 0
  BY <1>0 DEF Gap
<1>11. /\ h[elm] = h[tmp] + BlackOf(tr, elm)
       /\ h[elm] = Height(h, x) + Gap(gn, gs, elm, s) + BlackOf(tr, elm)
       /\ h[tmp] = Height(h, mid) /\ h[tmp] = Height(h, y)
  <2>1. BlackOf(tr, tmp) = 0 /\ BlackOf(tr, elm) \in Nat
    BY DEF BlackOf
  <2>2. h[tmp] = Height(h, mid) + 0 + 0 /\ h[tmp] = Height(h, y) + 0 + 0 /\ h[elm] = Height(h, tmp) + 0 + BlackOf(tr, elm)
    BY <1>0, <1>6, <1>10, <1>a, <2>1
  <2>3. h[elm] = Height(h, x) + Gap(gn, gs, elm, s) + BlackOf(tr, elm)
    BY <1>0, <1>6, <1>a
  <2>4. Height(h, tmp) = h[tmp] /\ h[tmp] \in Nat /\ Height(h, mid) \in Nat /\ Height(h, y) \in Nat
    BY <1>0, <1>2, <1>6, <1>8 DEF Height
  <2> QED
    BY <2>1, <2>2, <2>3, <2>4
<1>12. /\ BlackOf(q, elm) = 0 /\ BlackOf(q, tmp) = BlackOf(tr, elm)
       /\ \A n \in L : n # elm /\ n # tmp => BlackOf(q, n) = BlackOf(tr, n)
       /\ \A n \in L : BlackOf(tr, n) \in Nat
  BY <1>0, <1>1, <1>5 DEF BlackOf
<1>13. ASSUME NEW n \in L, NEW d \in Sides
       PROVE  g[n] = Height(g, q.child[d][n]) + Gap(gn, gs, n, d) + BlackOf(q, n)
  <2>0. h[tmp] \in Nat /\ h[elm] \in Nat /\ Height(h, x) \in Nat /\ Gap(gn, gs, elm, s) \in Nat
    BY <1>0, <1>2, <1>6, <1>8 DEF Gap
  <2>1. CASE n = elm /\ d = s
    <3>1. q.child[d][n] = x /\ g[n] = h[tmp]
      BY <1>0, <1>1, <1>4, <1>7, <2>1
    <3> QED
      BY <1>9, <1>11, <1>12, <2>0, <2>1, <3>1
  <2>2. CASE n = elm /\ d = o
    <3>1. q.child[d][n] = mid /\ g[n] = h[tmp]
      BY <1>0, <1>1, <1>4, <1>7, <2>2
    <3> QED
      BY <1>9, <1>10, <1>11, <1>12, <2>0, <2>2, <3>1
  <2>3. CASE n = tmp /\ d = s
    <3>1. q.child[d][n] = elm /\ g[n] = h[elm]
      BY <1>0, <1>1, <1>4, <1>7, <2>3
    <3> QED
      BY <1>9, <1>10, <1>11, <1>12, <2>0, <2>3, <3>1
  <2>4. CASE n = tmp /\ d = o
    <3>1. q.child[d][n] = y /\ g[n] = h[elm]
      BY <1>0, <1>1, <1>4, <1>7, <2>4
    <3> QED
      BY <1>9, <1>10, <1>11, <1>12, <2>0, <2>4, <3>1
  <2>5. CASE n # elm /\ n # tmp
    <3>1. g[n] = h[n] /\ BlackOf(q, n) = BlackOf(tr, n)
      BY <1>7, <1>12, <2>5
    <3>2. Height(g, q.child[d][n]) = Height(h, tr.child[d][n])
      <4>1. CASE tr.child[d][n] = elm
        BY <1>0, <1>4, <1>9, <2>5, <4>1 DEF Height
      <4>2. CASE tr.child[d][n] # elm
        <5>1. tr.child[d][n] \in L \cup {NULL}
          BY <1>a DEF Tree, Shaped, Places
        <5>2. tr.child[d][n] # tmp
          BY <1>0, <1>a, <2>5, OneParent
        <5> QED
          BY <1>4, <1>8, <2>5, <4>2, <5>1, <5>2
      <4> QED
        BY <4>1, <4>2
    <3> QED
      BY <1>6, <3>1, <3>2
  <2> QED
    BY <1>0, <2>1, <2>2, <2>3, <2>4, <2>5
<1> QED
  BY <1>5, <1>7, <1>13 DEF Heights

\* A red node has a black parent.
StrictRed(tr) ==
    \A n \in Linked(tr) : IsRed(tr, n) => n # tr.root /\ ~IsRed(tr, tr.parent[n])

\* The same, except at the place the loop works on.
RedRule(tr, pc, elm) ==
    \A n \in Linked(tr) :
        IsRed(tr, n) /\ (n = tr.root \/ IsRed(tr, tr.parent[n])) =>
            \/ n = elm
            \/ pc = "remove_color" /\ n # tr.root /\ tr.parent[n] = elm

\* The place that is one black node short.
GapNode(tr, pc, elm, par) == IF pc = "remove_color" /\ elm # tr.root THEN par ELSE NULL

\* The side of it.
GapSide(tr, elm, par) == Side(tr, par, elm)

\* What the operation under way points at.
OpShape(tr, pc, elm, par) ==
    \/ pc = "idle" /\ elm = NULL /\ par = NULL
    \/ pc = "insert_color" /\ elm \in Linked(tr) /\ par = NULL /\ tr.color[elm] = "red"
    \/ /\ pc = "remove_color" /\ elm \in Places(tr) /\ par \in Places(tr)
       /\ elm # tr.root =>
             par \in Linked(tr) /\ GapSide(tr, elm, par) \in Sides /\ tr.child[GapSide(tr, elm, par)][par] = elm

\* The invariant of a tree and the operation under way, with its sets and heights.
TreeInv(tr, pc, elm, par, sub, h) ==
    /\ Tree(tr, sub) /\ Heights(tr, h, GapNode(tr, pc, elm, par), GapSide(tr, elm, par))
    /\ RedRule(tr, pc, elm) /\ OpShape(tr, pc, elm, par)

\* The height of a node, from either of its children.
LEMMA HeightFacts ==
  ASSUME NEW tr, NEW sub, Tree(tr, sub), NEW h, NEW gn, NEW gs, Heights(tr, h, gn, gs),
         NEW n \in Linked(tr), NEW d \in Sides, NEW c, c = tr.child[d][n]
  PROVE  /\ h[n] \in Nat /\ c \in Places(tr) /\ Height(h, c) \in Nat
         /\ h[n] = Height(h, c) + Gap(gn, gs, n, d) + BlackOf(tr, n)
         /\ c # NULL => Height(h, c) = h[c]
<1>1. c \in Places(tr)
  BY DEF Tree, Shaped
<1>2. h \in [Linked(tr) -> Nat] /\ h[n] = Height(h, tr.child[d][n]) + Gap(gn, gs, n, d) + BlackOf(tr, n)
  BY DEF Heights
<1>3. Height(h, c) \in Nat /\ (c # NULL => Height(h, c) = h[c])
  BY <1>1, <1>2 DEF Height, Places
<1> QED
  BY <1>1, <1>2, <1>3

\* A node counts as one black node or none.
LEMMA BlackBit ==
  ASSUME NEW tr, NEW n
  PROVE  /\ BlackOf(tr, n) \in {0, 1}
         /\ tr.color[n] = "black" => BlackOf(tr, n) = 1
         /\ tr.color[n] = "red" => BlackOf(tr, n) = 0
  BY DEF BlackOf

\* A place misses one black node or none.
LEMMA GapBit ==
  ASSUME NEW gn, NEW gs, NEW n, NEW d
  PROVE  Gap(gn, gs, n, d) \in {0, 1} /\ (n # gn => Gap(gn, gs, n, d) = 0) /\ (d # gs => Gap(gn, gs, n, d) = 0)
         /\ (n = gn /\ d = gs => Gap(gn, gs, n, d) = 1)
  BY DEF Gap

\* What a reader of a linked node's fields finds.
LEMMA Fields ==
  ASSUME NEW tr, NEW sub, Tree(tr, sub)
  PROVE  /\ NULL \notin Linked(tr) /\ Linked(tr) \subseteq Nodes
         /\ tr.root \in Places(tr)
         /\ \A n \in Linked(tr) : tr.parent[n] \in Places(tr) /\ tr.color[n] \in {"red", "black"}
         /\ \A n \in Linked(tr) : IsRed(tr, n) <=> tr.color[n] = "red"
         /\ \A n \in Linked(tr), s \in Sides : tr.child[s][n] \in Places(tr)
         /\ \A n \in Linked(tr) : tr.parent[n] = NULL <=> n = tr.root
         /\ \A n \in Places(tr) : IsRed(tr, n) => n \in Linked(tr)
         /\ \A n \in Linked(tr) : tr.root \in Linked(tr)
<1>1. NULL \notin Linked(tr)
  BY NULLAssumption DEF Tree, Shaped
<1>2. \A n \in Linked(tr) : tr.root \in Linked(tr)
  <2>1. tr.root # NULL => tr.root \in Linked(tr)
    BY DEF Tree, Shaped, Places
  <2>2. tr.root = NULL => Linked(tr) = {}
    BY DEF Tree, Spans, Sub
  <2> QED
    BY <2>1, <2>2
<1> QED
  BY <1>1, <1>2 DEF Tree, Shaped, LinkedUp, IsRed, Places

-----------------------------------------------------------------------------
(* The iterations of RB_INSERT_COLOR.                                      *)

\* elm and its parent p are red, and gp, on whose side s p is, is black.
RedPair(tr, elm, p, gp, s) ==
    /\ p = tr.parent[elm] /\ gp = tr.parent[p] /\ s = Side(tr, gp, p)
    /\ elm \in Linked(tr) /\ p \in Linked(tr) /\ gp \in Linked(tr) /\ s \in Sides
    /\ p # elm /\ gp # p /\ gp # elm /\ p # tr.root /\ elm # tr.root
    /\ tr.child[s][gp] = p
    /\ tr.color[elm] = "red" /\ tr.color[p] = "red" /\ tr.color[gp] = "black"

\* In the loop of RB_INSERT_COLOR the parent is red, its parent black.
LEMMA RedPairs ==
  ASSUME NEW tr, NEW sub, Tree(tr, sub), NEW elm, RedRule(tr, "insert_color", elm),
         elm \in Linked(tr), tr.color[elm] = "red", NEW p, p = tr.parent[elm], p # NULL, tr.color[p] = "red",
         NEW gp, gp = tr.parent[p], NEW s, s = Side(tr, gp, p)
  PROVE  RedPair(tr, elm, p, gp, s)
<1>1. p \in Linked(tr) /\ p # elm
  BY SideIs
<1>2. IsRed(tr, p) /\ IsRed(tr, elm)
  BY <1>1, Fields
<1>3. p # tr.root
  BY <1>1, <1>2 DEF RedRule
<1>4. gp # NULL
  BY <1>1, <1>3, Fields
<1>5. gp \in Linked(tr) /\ gp # p /\ s \in Sides /\ tr.child[s][gp] = p
  BY <1>1, <1>4, SideIs
<1>6. tr.color[gp] = "black"
  <2>1. ~IsRed(tr, gp)
    BY <1>1, <1>2, <1>3 DEF RedRule
  <2> QED
    BY <1>5, <2>1, Fields
<1>7. elm # tr.root
  BY Fields
<1>8. gp # elm
  <2>1. PICK d \in Sides : tr.child[d][p] = elm
    BY <1>1 DEF Tree, LinkedUp
  <2>2. gp # NULL => gp # tr.child[d][p]
    <3>1. elm \in Linked(tr) /\ p \in Linked(tr) /\ gp \in Linked(tr)
      BY <1>1, <1>5
    <3>2. gp = tr.parent[p] /\ tr.child[s][gp] = p /\ p = tr.child[s][gp] /\ elm = tr.child[d][p]
      BY <1>5, <2>1
    <3>3. elm # NULL
      BY Fields
    <3>4. PICK up : up = tr.parent[gp]
      OBVIOUS
    <3>5. elm # gp
      BY <1>5, <2>1, <3>1, <3>2, <3>3, <3>4, Neighbours, SMTT(30)
    <3> QED
      BY <2>1, <3>5
  <2> QED
    BY <1>4, <2>1, <2>2
<1> QED
  BY <1>1, <1>3, <1>5, <1>6, <1>7, <1>8 DEF RedPair

\* q is tr after the red uncle u of elm.
RedUncle(tr, q, p, gp, u) ==
    /\ Recolored(tr, q)
    /\ \A m \in Linked(tr) :
          q.color[m] = IF m = gp THEN "red" ELSE IF m = p \/ m = u THEN "black" ELSE tr.color[m]

\* The colours after the red uncle's case of RB_INSERT_COLOR.
LEMMA RecolorInsertFields ==
  ASSUME NEW tr, NEW sub, Tree(tr, sub), NEW elm, NEW p, NEW gp, NEW s, RedPair(tr, elm, p, gp, s),
         NEW u, u = tr.child[Other(s)][gp], u \in Linked(tr), NEW q, q = InsertRecolor(tr, elm)
  PROVE  RedUncle(tr, q, p, gp, u)
<1>1. PICK q1 : q1 = SetColor(tr, u, "black")
  OBVIOUS
<1>2. q = RB_SET_BLACKRED(q1, p, gp)
  BY <1>1 DEF InsertRecolor, RedPair
<1>3. u \in Places(tr) /\ "black" \in Colors /\ Shaped(tr)
  BY DEF Places, Colors, Tree
<1>4. /\ Recolored(tr, q1) /\ \A m \in Linked(tr) : q1.color[m] = IF m = u THEN "black" ELSE tr.color[m]
  BY <1>1, <1>3, SetColorFields
<1>5. Shaped(q1) /\ Linked(q1) = Linked(tr)
  BY <1>4, RecolorTree DEF Tree
<1>6. p \in Linked(q1) /\ gp \in Linked(q1)
  BY <1>5 DEF RedPair
<1>7. /\ Recolored(q1, q)
      /\ \A m \in Linked(q1) : q.color[m] = IF m = gp THEN "red" ELSE IF m = p THEN "black" ELSE q1.color[m]
  BY <1>2, <1>5, <1>6, BlackRedFields
<1>8. Recolored(tr, q)
  BY <1>4, <1>7, RecolorTwice
<1> QED
  BY <1>4, <1>5, <1>7, <1>8 DEF RedUncle

\* That case keeps the number of black nodes on every path.
LEMMA InsertRecolorHeights ==
  ASSUME NEW tr, NEW sub, Tree(tr, sub), NEW elm, NEW p, NEW gp, NEW s, RedPair(tr, elm, p, gp, s),
         NEW u, u = tr.child[Other(s)][gp], u \in Linked(tr), tr.color[u] = "red",
         NEW h, NEW gs, Heights(tr, h, NULL, gs), NEW q, RedUncle(tr, q, p, gp, u), NEW rs
  PROVE  \E g : Heights(q, g, NULL, rs)
<1>a. PICK o, L : o = Other(s) /\ L = Linked(tr)
  OBVIOUS
<1>0. /\ o \in Sides /\ o # s /\ Sides = {s, o} /\ NULL \notin L /\ p \in L /\ gp \in L /\ u \in L /\ s \in Sides
      /\ tr.child[s][gp] = p /\ tr.child[o][gp] = u
      /\ tr.color[p] = "red" /\ tr.color[u] = "red" /\ tr.color[gp] = "black" /\ p # gp
  BY <1>a, OtherSide, Fields DEF RedPair
<1>1. /\ Linked(q) = L /\ q.child = tr.child
      /\ \A m \in L : q.color[m] = IF m = gp THEN "red" ELSE IF m = p \/ m = u THEN "black" ELSE tr.color[m]
  BY <1>a, RecolorTree DEF RedUncle
<1>2. u # gp /\ p # NULL /\ u # NULL /\ u # p
  BY <1>0, <1>a, OneParent
<1>3. h \in [L -> Nat]
  BY <1>a DEF Heights
<1>b. PICK g : g = [h EXCEPT ![p] = h[p] + 1, ![u] = h[u] + 1]
  OBVIOUS
<1>4. g \in [L -> Nat] /\ g[p] = h[p] + 1 /\ g[u] = h[u] + 1 /\ \A m \in L : m # p /\ m # u => g[m] = h[m]
  BY <1>b, <1>0, <1>2, <1>3
<1>5. ASSUME NEW n \in L, NEW d \in Sides
      PROVE  g[n] = Height(g, q.child[d][n]) + Gap(NULL, rs, n, d) + BlackOf(q, n)
  <2>1. PICK c : c = tr.child[d][n]
    OBVIOUS
  <2>2. /\ h[n] \in Nat /\ c \in Places(tr) /\ Height(h, c) \in Nat
        /\ h[n] = Height(h, c) + Gap(NULL, gs, n, d) + BlackOf(tr, n)
        /\ c # NULL => Height(h, c) = h[c]
    BY <1>a, <2>1, HeightFacts
  <2>3. Gap(NULL, gs, n, d) = 0 /\ Gap(NULL, rs, n, d) = 0
    BY <1>0 DEF Gap
  <2>4. h[n] = Height(h, c) + BlackOf(tr, n) /\ BlackOf(tr, n) \in {0, 1} /\ BlackOf(q, n) \in {0, 1}
    BY <2>2, <2>3, BlackBit
  <2>5. c # NULL => c \in L
    BY <1>a, <2>2 DEF Places
  <2>6. CASE n = gp
    <3>1. c = p \/ c = u
      BY <1>0, <2>1, <2>6
    <3>2. Height(g, c) = Height(h, c) + 1
      BY <1>2, <1>4, <2>2, <3>1 DEF Height
    <3>3. BlackOf(tr, n) = 1 /\ BlackOf(q, n) = 0
      BY <1>0, <1>1, <1>a, <2>6, BlackBit
    <3>4. g[n] = h[n]
      BY <1>0, <1>2, <1>4, <2>6
    <3> QED
      BY <1>1, <2>1, <2>2, <2>3, <2>4, <3>2, <3>3, <3>4
  <2>7. CASE n # gp
    <3>1. c # p /\ c # u
      BY <1>0, <1>2, <1>a, <2>1, <2>7, OneParent
    <3>2. Height(g, c) = Height(h, c)
      BY <1>4, <2>5, <3>1 DEF Height
    <3>3. CASE n = p \/ n = u
      <4>1. BlackOf(tr, n) = 0 /\ BlackOf(q, n) = 1
        BY <1>0, <1>1, <1>a, <2>7, <3>3, BlackBit
      <4>2. g[n] = h[n] + 1
        BY <1>4, <3>3
      <4> QED
        BY <1>1, <2>1, <2>2, <2>3, <2>4, <3>2, <4>1, <4>2
    <3>4. CASE n # p /\ n # u
      <4>1. BlackOf(tr, n) = BlackOf(q, n)
        BY <1>1, <1>a, <2>7, <3>4 DEF BlackOf
      <4>2. g[n] = h[n]
        BY <1>4, <3>4
      <4> QED
        BY <1>1, <2>1, <2>2, <2>3, <2>4, <3>2, <4>1, <4>2
    <3> QED
      BY <3>3, <3>4
  <2> QED
    BY <2>6, <2>7
<1> QED
  BY <1>1, <1>4, <1>5 DEF Heights

\* The red uncle.
LEMMA InsertRecolorKeeps ==
  ASSUME NEW tr, NEW sub, NEW h, NEW elm, NEW par, TreeInv(tr, "insert_color", elm, par, sub, h),
         NEW p, NEW gp, NEW s, RedPair(tr, elm, p, gp, s),
         NEW u, u = tr.child[Other(s)][gp], IsRed(tr, u), NEW q, q = InsertRecolor(tr, elm)
  PROVE  Linked(q) = Linked(tr) /\ \E g : TreeInv(q, "insert_color", gp, par, sub, g)
<1>0. /\ Tree(tr, sub) /\ RedRule(tr, "insert_color", elm) /\ Heights(tr, h, NULL, GapSide(tr, elm, par)) /\ par = NULL
      /\ s \in Sides /\ Other(s) \in Sides /\ Sides = {s, Other(s)} /\ Other(s) # s /\ tr.child[s][gp] = p
      /\ p \in Linked(tr) /\ gp \in Linked(tr) /\ p = tr.parent[elm] /\ p # gp /\ elm # gp /\ elm # p
  BY OtherSide DEF TreeInv, GapNode, OpShape, RedPair
<1>1. u \in Linked(tr) /\ tr.color[u] = "red"
  BY <1>0, Fields
<1>a. RedUncle(tr, q, p, gp, u)
  BY <1>0, <1>1, RecolorInsertFields
<1>2. /\ Recolored(tr, q)
      /\ \A m \in Linked(tr) :
            q.color[m] = IF m = gp THEN "red" ELSE IF m = p \/ m = u THEN "black" ELSE tr.color[m]
  BY <1>a DEF RedUncle
<1>3. /\ Tree(q, sub) /\ Linked(q) = Linked(tr)
      /\ q.root = tr.root /\ q.child = tr.child /\ q.parent = tr.parent
  BY <1>0, <1>2, RecolorTree
<1>5. PICK g : Heights(q, g, NULL, GapSide(q, gp, par))
  <2>1. PICK gs, rs : gs = GapSide(tr, elm, par) /\ rs = GapSide(q, gp, par)
    OBVIOUS
  <2>2. Heights(tr, h, NULL, gs)
    BY <1>0, <2>1
  <2>3. \E g : Heights(q, g, NULL, rs)
    BY <1>0, <1>1, <1>a, <2>2, InsertRecolorHeights
  <2> QED
    BY <2>1, <2>3
<1>6. RedRule(q, "insert_color", gp)
  <2>1. SUFFICES ASSUME NEW n \in Linked(q), IsRed(q, n), n = q.root \/ IsRed(q, q.parent[n]), n # gp
                 PROVE  FALSE
    BY DEF RedRule
  <2>2. n \in Linked(tr) /\ q.color[n] = "red" /\ n # NULL
    BY <1>3, <2>1, Fields
  <2>3. n # p /\ n # u /\ tr.color[n] = "red" /\ IsRed(tr, n)
    BY <1>0, <1>2, <2>1, <2>2 DEF IsRed
  <2>4. n # tr.root
    BY <1>0, <2>2, <2>3 DEF RedRule, RedPair
  <2>5. PICK m : m = tr.parent[n]
    OBVIOUS
  <2>6. IsRed(q, m)
    BY <1>3, <2>1, <2>4, <2>5
  <2>7. m \in Linked(tr) /\ q.color[m] = "red"
    BY <1>0, <1>3, <2>2, <2>5, <2>6, Fields
  <2>8. m # gp
    <3>1. SUFFICES ASSUME m = gp PROVE FALSE
      OBVIOUS
    <3>2. gp # NULL /\ gp = tr.parent[n]
      BY <1>0, <2>5, <2>7, <3>1, Fields
    <3>3. PICK d \in Sides : tr.child[d][gp] = n
      BY <1>0, <2>2, <3>2, SideIs
    <3> QED
      BY <1>0, <2>3, <3>3
  <2>9. m # p /\ IsRed(tr, m)
    BY <1>0, <1>2, <2>7, <2>8, Fields
  <2>10. n = elm
    BY <1>0, <2>2, <2>3, <2>5, <2>9 DEF RedRule
  <2> QED
    BY <1>0, <2>5, <2>9, <2>10
<1>7. OpShape(q, "insert_color", gp, par)
  BY <1>0, <1>2, <1>3 DEF OpShape
<1>8. GapNode(q, "insert_color", gp, par) = NULL
  BY DEF GapNode
<1>9. TreeInv(q, "insert_color", gp, par, sub, g)
  BY <1>3, <1>5, <1>6, <1>7, <1>8 DEF TreeInv
<1> QED
  BY <1>3, <1>9

\* OneParent, for a child that has a name.
LEMMA ChildIs ==
  ASSUME NEW tr, NEW sub, Tree(tr, sub), NEW n \in Linked(tr), NEW s \in Sides, NEW c, c = tr.child[s][n], c # NULL
  PROVE  c \in Linked(tr) /\ c # n /\ tr.parent[c] = n /\ c # tr.root
  BY OneParent

\* No other pointer leads to a node's child.
LEMMA ChildOnce ==
  ASSUME NEW tr, NEW sub, Tree(tr, sub), NEW n \in Linked(tr), NEW s \in Sides, NEW c, c = tr.child[s][n], c # NULL,
         NEW m \in Linked(tr), NEW d \in Sides, tr.child[d][m] = c
  PROVE  m = n /\ d = s
  BY OneParent

\* Where nothing works on the tree, a red node has a black parent.
LEMMA RedRuleStrict ==
  ASSUME NEW tr, NEW pc
  PROVE  StrictRed(tr) => RedRule(tr, pc, NULL) /\ \A e : RedRule(tr, pc, e)
  BY DEF StrictRed, RedRule

\* The heights after the root or the element was made black.
LEMMA BlackenHeights ==
  ASSUME NEW tr, NEW sub, Tree(tr, sub), NEW h, NEW gn, NEW gs, Heights(tr, h, gn, gs),
         NEW e \in Linked(tr), NEW q, Recolored(tr, q), NEW rs,
         \A m \in Linked(tr) : q.color[m] = IF m = e THEN "black" ELSE tr.color[m],
         \/ e = tr.root /\ gn = NULL
         \/ tr.color[e] = "red" /\ gn \in Linked(tr) /\ gs \in Sides /\ tr.child[gs][gn] = e
  PROVE  \E g : Heights(q, g, NULL, rs)
<1>a. PICK L, g : L = Linked(tr) /\ g = [h EXCEPT ![e] = h[e] + (1 - BlackOf(tr, e))]
  OBVIOUS
<1>0. e \in L /\ NULL \notin L /\ e # NULL
  BY <1>a, Fields
<1>1. Linked(q) = L /\ q.child = tr.child
  BY <1>a, RecolorTree
<1>2. h \in [L -> Nat] /\ BlackOf(tr, e) \in {0, 1}
  BY <1>a, BlackBit DEF Heights
<1>3. g \in [L -> Nat] /\ g[e] = h[e] + (1 - BlackOf(tr, e)) /\ \A m \in L : m # e => g[m] = h[m]
  BY <1>0, <1>2, <1>a
<1>4. ASSUME NEW n \in L, NEW d \in Sides
      PROVE  g[n] = Height(g, q.child[d][n]) + Gap(NULL, rs, n, d) + BlackOf(q, n)
  <2>1. PICK c : c = tr.child[d][n]
    OBVIOUS
  <2>2. /\ h[n] \in Nat /\ c \in Places(tr) /\ Height(h, c) \in Nat
        /\ h[n] = Height(h, c) + Gap(gn, gs, n, d) + BlackOf(tr, n)
        /\ c # NULL => Height(h, c) = h[c]
    BY <1>a, <2>1, HeightFacts
  <2>3. Gap(NULL, rs, n, d) = 0 /\ Gap(gn, gs, n, d) \in {0, 1}
    BY <1>0, GapBit DEF Gap
  <2>4. BlackOf(q, n) = IF n = e THEN 1 ELSE BlackOf(tr, n)
    BY <1>a DEF BlackOf
  <2>5. BlackOf(tr, n) \in {0, 1} /\ (c # NULL => c \in L)
    BY <1>a, <2>2, BlackBit DEF Places
  <2>6. Height(g, c) = Height(h, c) + Gap(gn, gs, n, d)
    <3>1. CASE c = e
      <4>1. e # tr.root
        <5>1. c # NULL /\ n \in Linked(tr)
          BY <1>0, <1>a, <3>1
        <5>2. c # tr.root
          BY <2>1, <5>1, ChildIs
        <5> QED
          BY <3>1, <5>2
      <4>2. tr.color[e] = "red" /\ gn \in L /\ gs \in Sides /\ tr.child[gs][gn] = e
        BY <1>a, <4>1
      <4>3. gn = n /\ gs = d
        <5>1. c # NULL /\ n \in Linked(tr) /\ gn \in Linked(tr) /\ gs \in Sides /\ tr.child[gs][gn] = c
          BY <1>0, <1>a, <3>1, <4>2
        <5> QED
          BY <2>1, <5>1, ChildOnce
      <4>4. Gap(gn, gs, n, d) = 1 /\ BlackOf(tr, e) = 0
        BY <4>2, <4>3, GapBit, BlackBit
      <4> QED
        BY <1>0, <1>3, <2>2, <3>1, <4>4 DEF Height
    <3>2. CASE c # e
      <4>1. Gap(gn, gs, n, d) = 0
        BY <1>0, <1>a, <2>1, <3>2 DEF Gap
      <4> QED
        BY <1>3, <2>2, <2>5, <3>2, <4>1 DEF Height
    <3> QED
      BY <3>1, <3>2
  <2> QED
    BY <1>1, <1>3, <2>1, <2>2, <2>3, <2>4, <2>5, <2>6
<1> QED
  BY <1>1, <1>3, <1>4 DEF Heights

\* The end of either loop: the element, or the root, becomes black.
LEMMA BlackenKeeps ==
  ASSUME NEW tr, NEW sub, NEW h, NEW pc, NEW elm, NEW par, TreeInv(tr, pc, elm, par, sub, h), pc # "idle",
         NEW e, NEW q, q = SetColor(tr, e, "black"),
         \/ pc = "insert_color" /\ e = tr.root /\ ~IsRed(tr, tr.parent[elm])
         \/ pc = "remove_color" /\ e = elm /\ (IsRed(tr, elm) \/ elm = tr.root)
  PROVE  Linked(q) = Linked(tr) /\ \E g : TreeInv(q, "idle", NULL, NULL, sub, g)
<1>a. PICK gn, gs : gn = GapNode(tr, pc, elm, par) /\ gs = GapSide(tr, elm, par)
  OBVIOUS
<1>0. /\ Tree(tr, sub) /\ Shaped(tr) /\ RedRule(tr, pc, elm) /\ Heights(tr, h, gn, gs) /\ OpShape(tr, pc, elm, par)
      /\ tr.root \in Places(tr) /\ elm \in Places(tr)
  BY <1>a, Fields DEF TreeInv, Tree, OpShape, Places
<1>1. /\ e \in Places(tr) /\ "black" \in Colors
  BY <1>0 DEF Colors
<1>2. Recolored(tr, q) /\ \A m \in Linked(tr) : q.color[m] = IF m = e THEN "black" ELSE tr.color[m]
  BY <1>0, <1>1, SetColorFields
<1>3. /\ Tree(q, sub) /\ Linked(q) = Linked(tr)
      /\ q.root = tr.root /\ q.child = tr.child /\ q.parent = tr.parent
  BY <1>0, <1>2, RecolorTree
<1>4. PICK g : Heights(q, g, NULL, GapSide(q, NULL, NULL))
  <2>1. PICK rs : rs = GapSide(q, NULL, NULL)
    OBVIOUS
  <2>2. CASE e = NULL
    <3>1. tr.root = NULL
      BY <1>0, <2>2 DEF IsRed
    <3>2. Linked(q) = {} /\ Linked(tr) = {}
      BY <1>0, <1>3, <3>1 DEF Tree, Spans, Sub
    <3>3. Heights(q, h, NULL, rs)
      BY <1>0, <3>2 DEF Heights
    <3> QED
      BY <2>1, <3>3
  <2>3. CASE e # NULL
    <3>1. e \in Linked(tr)
      BY <1>1, <2>3 DEF Places
    <3>2. e = tr.root => gn = NULL
      BY <1>a DEF GapNode
    <3>3. e # tr.root => tr.color[e] = "red" /\ gn \in Linked(tr) /\ gs \in Sides /\ tr.child[gs][gn] = e
      BY <1>0, <1>a DEF GapNode, OpShape, IsRed
    <3>4. \E g : Heights(q, g, NULL, rs)
      BY <1>0, <1>2, <3>1, <3>2, <3>3, BlackenHeights
    <3> QED
      BY <2>1, <3>4
  <2> QED
    BY <2>2, <2>3
<1>5. StrictRed(q)
  <2>1. SUFFICES ASSUME NEW n \in Linked(tr), IsRed(q, n), n = tr.root \/ IsRed(q, tr.parent[n]) PROVE FALSE
    BY <1>3 DEF StrictRed
  <2>2. n # e /\ IsRed(tr, n)
    BY <1>2, <2>1 DEF IsRed
  <2>3. PICK m : m = tr.parent[n]
    OBVIOUS
  <2>4. IsRed(q, m) => m # e /\ IsRed(tr, m)
    <3>1. m \in Places(tr)
      BY <1>0, <2>3, Fields
    <3> QED
      BY <1>2, <3>1 DEF IsRed, Places
  <2>5. n = elm \/ (pc = "remove_color" /\ n # tr.root /\ m = elm)
    BY <1>0, <2>1, <2>2, <2>3, <2>4 DEF RedRule
  <2>6. pc = "insert_color"
    BY <2>1, <2>2, <2>3, <2>4, <2>5
  <2> QED
    BY <2>1, <2>2, <2>3, <2>4, <2>5, <2>6
<1>6. RedRule(q, "idle", NULL)
  BY <1>5, RedRuleStrict
<1>7. OpShape(q, "idle", NULL, NULL) /\ GapNode(q, "idle", NULL, NULL) = NULL
  BY DEF OpShape, GapNode
<1>8. TreeInv(q, "idle", NULL, NULL, sub, g)
  BY <1>3, <1>4, <1>6, <1>7 DEF TreeInv
<1> QED
  BY <1>3, <1>8

\* q is tr with the colours of a and b exchanged and b rotated above a to side s.
Turned(tr, q, a, b, s) ==
    /\ Linked(q) = Linked(tr)
    /\ q.root = IF tr.root = a THEN b ELSE tr.root
    /\ \A n \in Linked(tr), d \in Sides :
          q.child[d][n] = IF n = a THEN IF d = s THEN tr.child[s][a] ELSE tr.child[s][b]
                          ELSE IF n = b THEN IF d = s THEN a ELSE tr.child[Other(s)][b]
                          ELSE IF tr.child[d][n] = a THEN b ELSE tr.child[d][n]
    /\ \A n \in Linked(tr) :
          q.parent[n] = IF n = a THEN b
                        ELSE IF n = b THEN tr.parent[a]
                        ELSE IF n = tr.child[s][b] THEN a ELSE tr.parent[n]
    /\ \A n \in Linked(tr) :
          q.color[n] = IF n = a THEN tr.color[b] ELSE IF n = b THEN tr.color[a] ELSE tr.color[n]

\* A rotation after the colours of its two nodes were exchanged.
LEMMA SwapRotate ==
  ASSUME NEW tr, NEW sub, Tree(tr, sub), NEW a \in Linked(tr), NEW s \in Sides,
         NEW b, b = tr.child[Other(s)][a], b # NULL, NEW t1, Swapped(tr, t1, a, b), tr.color[b] = "red",
         NEW q, q = RB_ROTATE(t1, a, s), NEW h, NEW gn, NEW gs, Heights(tr, h, gn, gs), gn # b, gn = a => gs = s
  PROVE  /\ Turned(tr, q, a, b, s)
         /\ \E sub2 : Tree(q, sub2)
         /\ \E h2 : Heights(q, h2, gn, gs)
<1>1. Recolored(tr, t1)
  BY DEF Swapped
<1>2. Tree(t1, sub) /\ Linked(t1) = Linked(tr) /\ t1.root = tr.root /\ t1.child = tr.child /\ t1.parent = tr.parent
  BY <1>1, RecolorTree
<1>3. b \in Linked(tr)
  BY OtherSide, ChildIs
<1>4. /\ Rotated(t1, q, a, b, s) /\ Tree(q, RotatedSub(t1, sub, a, b, s)) /\ Linked(q) = Linked(t1)
  <2>1. a \in Linked(t1) /\ b = t1.child[Other(s)][a]
    BY <1>2
  <2> QED
    BY <1>2, <2>1, RotateTree
<1>5. Turned(tr, q, a, b, s)
  <2>1. q.color = t1.color
    BY <1>4 DEF Rotated
  <2>2. \A n \in Linked(tr) :
          q.color[n] = IF n = a THEN tr.color[b] ELSE IF n = b THEN tr.color[a] ELSE tr.color[n]
    BY <2>1 DEF Swapped
  <2> QED
    BY <1>2, <1>4, <2>2 DEF Rotated, Turned
<1>6. \E h2 : Heights(q, h2, gn, gs)
  <2>1. Other(s) \in Sides /\ b \in Linked(tr) /\ b = tr.child[Other(s)][a]
    BY <1>3, OtherSide
  <2>2. Rotated(t1, q, a, b, s)
    BY <1>4
  <2> QED
    BY <2>1, <2>2, RotateHeights
<1> QED
  BY <1>4, <1>5, <1>6

\* After a rotation that brings the red b above the black a, red pairs are where they were.
LEMMA TurnRed ==
  ASSUME NEW tr, NEW sub, Tree(tr, sub), NEW a \in Linked(tr), NEW s \in Sides,
         NEW b, b = tr.child[Other(s)][a], b # NULL, NEW q, Turned(tr, q, a, b, s), NEW sub2, Tree(q, sub2),
         tr.color[b] = "red", tr.color[a] = "black", ~IsRed(tr, tr.child[s][a]), ~IsRed(tr, tr.child[s][b]),
         NEW n \in Linked(tr), IsRed(q, n), n = q.root \/ IsRed(q, q.parent[n])
  PROVE  n # a /\ n # b /\ IsRed(tr, n) /\ (n = tr.root \/ IsRed(tr, tr.parent[n]))
<1>1. Linked(q) = Linked(tr) /\ b \in Linked(tr) /\ a # b /\ b # tr.root /\ tr.parent[b] = a
  BY OtherSide, ChildIs DEF Turned
<1>2. q.color[a] = "red" /\ q.color[b] = "black" /\ \A m \in Linked(tr) : m # a /\ m # b => q.color[m] = tr.color[m]
  BY <1>1 DEF Turned
<1>3. q.color[n] = "red" /\ n \in Linked(q) /\ n # b
  BY <1>1, <1>2, Fields
<1>4. n # a
  <2>1. SUFFICES ASSUME n = a PROVE FALSE
    OBVIOUS
  <2>2. q.parent[a] = b /\ a # q.root
    BY <1>1 DEF Turned
  <2>3. IsRed(q, b)
    BY <2>1, <2>2
  <2> QED
    BY <1>2, <2>3 DEF IsRed
<1>5. tr.color[n] = "red" /\ IsRed(tr, n)
  BY <1>2, <1>3, <1>4, Fields
<1>6. CASE n = q.root
  BY <1>3, <1>4, <1>5, <1>6 DEF Turned
<1>7. CASE IsRed(q, q.parent[n])
  <2>1. n # tr.child[s][b] /\ n # tr.child[s][a]
    BY <1>5
  <2>2. PICK m : m = tr.parent[n]
    OBVIOUS
  <2>3. q.parent[n] = m
    BY <1>3, <1>4, <2>1, <2>2 DEF Turned
  <2>4. m \in Linked(tr) /\ q.color[m] = "red" /\ m # NULL
    <3>1. m \in Places(q) /\ IsRed(q, m)
      BY <1>3, <1>7, <2>3, Fields
    <3> QED
      BY <1>1, <3>1, Fields
  <2>5. m # b
    BY <1>2, <2>4
  <2>6. m # a
    <3>1. SUFFICES ASSUME m = a PROVE FALSE
      OBVIOUS
    <3>2. PICK d \in Sides : tr.child[d][a] = n
      <4>1. a = tr.parent[n] /\ a # NULL
        BY <2>2, <2>4, <3>1
      <4> QED
        BY <4>1, SideIs
    <3> QED
      BY <1>3, <2>1, <3>2, OtherSide
  <2>7. IsRed(tr, m)
    BY <1>2, <2>4, <2>5, <2>6, Fields
  <2> QED
    BY <1>3, <1>4, <1>5, <2>2, <2>7
<1> QED
  BY <1>6, <1>7

\* The last rotation of RB_INSERT_COLOR, where elm is the outer child of p.
LEMMA InsertOuter ==
  ASSUME NEW tr, NEW sub, NEW h, NEW elm, NEW par, TreeInv(tr, "insert_color", elm, par, sub, h),
         NEW p, NEW gp, NEW s, RedPair(tr, elm, p, gp, s), tr.child[Other(s)][p] # elm,
         ~IsRed(tr, tr.child[Other(s)][gp]), NEW q, q = RB_ROTATE(RB_SET_BLACKRED(tr, p, gp), gp, Other(s))
  PROVE  Linked(q) = Linked(tr) /\ \E sub2, h2 : TreeInv(q, "insert_color", elm, par, sub2, h2)
<1>a. PICK o, t1, gs : o = Other(s) /\ t1 = RB_SET_BLACKRED(tr, p, gp) /\ gs = GapSide(tr, elm, par)
  OBVIOUS
<1>0. /\ Tree(tr, sub) /\ Shaped(tr) /\ RedRule(tr, "insert_color", elm) /\ Heights(tr, h, NULL, gs) /\ par = NULL
      /\ o \in Sides /\ Other(o) = s /\ tr.child[s][gp] = p /\ p \in Linked(tr) /\ gp \in Linked(tr) /\ p # NULL
      /\ elm \in Linked(tr) /\ tr.color[elm] = "red" /\ p # gp /\ elm # gp /\ elm # p
      /\ tr.color[p] = "red" /\ tr.color[gp] = "black" /\ NULL \notin Linked(tr) /\ p # tr.root
  BY <1>a, OtherSide, Fields DEF TreeInv, GapNode, OpShape, RedPair, Tree
<1>1. Swapped(tr, t1, gp, p)
  BY <1>0, <1>a, BlackRedFields DEF Swapped
<1>2. PICK sub2, h2 : Turned(tr, q, gp, p, o) /\ Tree(q, sub2) /\ Heights(q, h2, NULL, gs)
  <2>1. p = tr.child[Other(o)][gp] /\ q = RB_ROTATE(t1, gp, o) /\ NULL # p /\ NULL # gp
    BY <1>0, <1>a
  <2> QED
    BY <1>0, <1>1, <2>1, SwapRotate
<1>3. ~IsRed(tr, tr.child[o][gp]) /\ ~IsRed(tr, tr.child[o][p])
  <2>1. SUFFICES ASSUME NEW m, m = tr.child[o][p], IsRed(tr, m) PROVE FALSE
    BY <1>a
  <2>2. m # NULL
    BY <2>1 DEF IsRed
  <2>3. m \in Linked(tr) /\ tr.parent[m] = p
    BY <1>0, <2>1, <2>2, ChildIs
  <2>4. IsRed(tr, p) /\ m # elm
    BY <1>0, <1>a, <2>1, Fields
  <2> QED
    BY <1>0, <2>1, <2>3, <2>4 DEF RedRule
<1>4. RedRule(q, "insert_color", elm)
  <2>1. SUFFICES ASSUME NEW n \in Linked(tr), IsRed(q, n), n = q.root \/ IsRed(q, q.parent[n]) PROVE n = elm
    BY <1>2 DEF RedRule, Turned
  <2>2. IsRed(tr, n) /\ (n = tr.root \/ IsRed(tr, tr.parent[n]))
    BY <1>0, <1>2, <1>3, <2>1, TurnRed
  <2> QED
    BY <1>0, <2>2 DEF RedRule
<1>5. Linked(q) = Linked(tr) /\ q.color[elm] = "red"
  BY <1>0, <1>2 DEF Turned
<1>6. OpShape(q, "insert_color", elm, par) /\ GapNode(q, "insert_color", elm, par) = NULL
  BY <1>0, <1>5 DEF OpShape, GapNode
<1>7. Heights(q, h2, NULL, GapSide(q, elm, par))
  <2>1. \A n \in Linked(q), d, e \in {gs, GapSide(q, elm, par)} : \A k : Gap(NULL, d, n, k) = Gap(NULL, e, n, k)
    BY <1>0, <1>5 DEF Gap
  <2> QED
    BY <1>2, <2>1 DEF Heights
<1>8. TreeInv(q, "insert_color", elm, par, sub2, h2)
  BY <1>2, <1>4, <1>6, <1>7 DEF TreeInv
<1> QED
  BY <1>5, <1>8

\* The first rotation, where elm is the inner child: elm and p change places.
LEMMA InsertInner ==
  ASSUME NEW tr, NEW sub, NEW h, NEW elm, NEW par, TreeInv(tr, "insert_color", elm, par, sub, h),
         NEW p, NEW gp, NEW s, RedPair(tr, elm, p, gp, s), tr.child[Other(s)][p] = elm,
         ~IsRed(tr, tr.child[Other(s)][gp]), NEW q, q = RB_ROTATE(tr, p, s)
  PROVE  /\ Linked(q) = Linked(tr) /\ RedPair(q, p, elm, gp, s)
         /\ ~IsRed(q, q.child[Other(s)][gp]) /\ q.child[Other(s)][elm] # p
         /\ \E sub2, h2 : TreeInv(q, "insert_color", p, par, sub2, h2)
<1>a. PICK o, gs : o = Other(s) /\ gs = GapSide(tr, elm, par)
  OBVIOUS
<1>0. /\ Tree(tr, sub) /\ Shaped(tr) /\ RedRule(tr, "insert_color", elm) /\ Heights(tr, h, NULL, gs) /\ par = NULL
      /\ o \in Sides /\ Other(o) = s /\ s \in Sides /\ o # s /\ tr.child[s][gp] = p /\ p \in Linked(tr) /\ gp \in Linked(tr)
      /\ elm \in Linked(tr) /\ tr.color[elm] = "red" /\ p # gp /\ elm # gp /\ elm # p /\ tr.child[o][p] = elm
      /\ tr.color[p] = "red" /\ tr.color[gp] = "black" /\ NULL \notin Linked(tr) /\ p # tr.root /\ elm # tr.root
      /\ tr.parent[p] = gp /\ tr.parent[elm] = p
  BY <1>a, OtherSide, Fields DEF TreeInv, GapNode, OpShape, RedPair, Tree
<1>1. Swapped(tr, tr, p, elm)
  BY <1>0 DEF Swapped, Recolored, Shaped, Colors
<1>2. PICK sub2, h2 : Turned(tr, q, p, elm, s) /\ Tree(q, sub2) /\ Heights(q, h2, NULL, gs)
  <2>1. elm = tr.child[Other(s)][p] /\ NULL # p /\ NULL # elm /\ elm # NULL
    BY <1>0, <1>a
  <2> QED
    BY <1>0, <1>1, <2>1, SwapRotate
<1>3. Linked(q) = Linked(tr) /\ q.root = tr.root /\ \A n \in Linked(tr) : q.color[n] = tr.color[n]
  BY <1>0, <1>2 DEF Turned
<1>4. q.parent[p] = elm /\ q.parent[elm] = gp /\ q.child[s][elm] = p /\ q.child[s][gp] = elm /\ q.child[o][gp] = tr.child[o][gp]
  <2>1. tr.child[o][gp] # p
    BY <1>0, OneParent
  <2> QED
    BY <1>0, <1>2, <2>1 DEF Turned
<1>5. Side(q, gp, elm) = s
  BY <1>0, <1>2, <1>3, <1>4, SideOf
<1>6. RedPair(q, p, elm, gp, s)
  BY <1>0, <1>3, <1>4, <1>5 DEF RedPair
<1>7. ~IsRed(q, q.child[o][gp])
  <2>1. PICK u : u = tr.child[o][gp]
    OBVIOUS
  <2>2. u \in Places(tr) /\ ~IsRed(tr, u)
    BY <1>0, <1>a, <2>1, Fields
  <2> QED
    BY <1>3, <1>4, <2>1, <2>2 DEF IsRed, Places
<1>8. q.child[o][elm] # p
  <2>1. elm \in Linked(q) /\ p # NULL
    BY <1>0, <1>3
  <2> QED
    BY <1>0, <1>2, <1>4, <2>1, OneParent
<1>9. RedRule(q, "insert_color", p)
  <2>1. SUFFICES ASSUME NEW n \in Linked(tr), IsRed(q, n), n = q.root \/ IsRed(q, q.parent[n]), n # p PROVE FALSE
    BY <1>3 DEF RedRule
  <2>2. IsRed(tr, n)
    BY <1>3, <2>1 DEF IsRed
  <2>3. n # elm
    <3>1. ~IsRed(q, gp)
      BY <1>0, <1>3 DEF IsRed
    <3> QED
      BY <1>0, <1>3, <1>4, <2>1, <3>1
  <2>4. n # tr.root /\ ~IsRed(tr, tr.parent[n])
    BY <1>0, <2>2, <2>3 DEF RedRule
  <2>5. n # tr.child[s][elm]
    <3>1. SUFFICES ASSUME n = tr.child[s][elm] PROVE FALSE
      OBVIOUS
    <3>2. tr.parent[n] = elm /\ IsRed(tr, elm)
      BY <1>0, <3>1, ChildIs, Fields
    <3> QED
      BY <2>4, <3>2
  <2>6. q.parent[n] = tr.parent[n] /\ tr.parent[n] \in Places(tr)
    BY <1>0, <1>2, <2>1, <2>3, <2>5, Fields DEF Turned
  <2>7. IsRed(tr, tr.parent[n])
    BY <1>3, <2>1, <2>4, <2>6 DEF IsRed, Places
  <2> QED
    BY <2>4, <2>7
<1>10. OpShape(q, "insert_color", p, par) /\ GapNode(q, "insert_color", p, par) = NULL
  BY <1>0, <1>3 DEF OpShape, GapNode
<1>11. Heights(q, h2, NULL, GapSide(q, p, par))
  <2>1. \A n \in Linked(q), d, e \in {gs, GapSide(q, p, par)} : \A k : Gap(NULL, d, n, k) = Gap(NULL, e, n, k)
    BY <1>0, <1>3 DEF Gap
  <2> QED
    BY <1>2, <2>1 DEF Heights
<1>12. TreeInv(q, "insert_color", p, par, sub2, h2)
  BY <1>2, <1>9, <1>10, <1>11 DEF TreeInv
<1> QED
  BY <1>3, <1>6, <1>7, <1>8, <1>12, <1>a

-----------------------------------------------------------------------------
(* The iterations of RB_REMOVE_COLOR.                                      *)

\* The loop of RB_REMOVE_COLOR works on elm, on side s of p, where a black node is missing.
ShortAt(tr, sub, h, p, s, elm) ==
    /\ Tree(tr, sub) /\ Heights(tr, h, p, s) /\ StrictRed(tr)
    /\ p \in Linked(tr) /\ s \in Sides /\ tr.child[s][p] = elm /\ ~IsRed(tr, elm)

\* While RB_REMOVE_COLOR has work to do, a place misses a black node.
LEMMA ShortState ==
  ASSUME NEW tr, NEW sub, NEW h, NEW elm, NEW par, TreeInv(tr, "remove_color", elm, par, sub, h),
         ~IsRed(tr, elm), elm # tr.root, NEW s, s = Side(tr, par, elm)
  PROVE  ShortAt(tr, sub, h, par, s, elm)
<1>1. Tree(tr, sub) /\ RedRule(tr, "remove_color", elm) /\ Heights(tr, h, par, s)
  BY DEF TreeInv, GapNode, GapSide
<1>2. par \in Linked(tr) /\ s \in Sides /\ tr.child[s][par] = elm
  BY DEF TreeInv, OpShape, GapSide
<1>3. StrictRed(tr)
  BY <1>1 DEF RedRule, StrictRed
<1> QED
  BY <1>1, <1>2, <1>3 DEF ShortAt

\* The sibling exists, and its side has the missing black node.
LEMMA Sibling ==
  ASSUME NEW tr, NEW sub, NEW h, NEW p, NEW s, NEW elm, ShortAt(tr, sub, h, p, s, elm),
         NEW o, o = Other(s), NEW sib, sib = tr.child[o][p]
  PROVE  /\ o \in Sides /\ o # s /\ Sides = {s, o} /\ Other(o) = s /\ NULL \notin Linked(tr) /\ p # NULL
         /\ sib \in Linked(tr) /\ sib # NULL /\ sib # p /\ sib # tr.root /\ tr.parent[sib] = p
         /\ elm \in Places(tr) /\ elm # p /\ elm # sib /\ (elm # NULL => elm \in Linked(tr) /\ tr.parent[elm] = p)
         /\ Height(h, elm) \in Nat /\ h[sib] \in Nat /\ h[sib] = Height(h, elm) + 1
         /\ h[p] = Height(h, elm) + 1 + BlackOf(tr, p)
<1>0. /\ Tree(tr, sub) /\ Heights(tr, h, p, s) /\ p \in Linked(tr) /\ s \in Sides /\ tr.child[s][p] = elm
  BY DEF ShortAt
<1>1. o \in Sides /\ o # s /\ Sides = {s, o} /\ Other(o) = s
  BY <1>0, OtherSide
<1>2. NULL \notin Linked(tr) /\ elm \in Places(tr) /\ sib \in Places(tr)
  BY <1>0, <1>1, Fields
<1>3. /\ h[p] \in Nat /\ Height(h, elm) \in Nat /\ h[p] = Height(h, elm) + Gap(p, s, p, s) + BlackOf(tr, p)
  BY <1>0, HeightFacts
<1>4. /\ Height(h, sib) \in Nat /\ h[p] = Height(h, sib) + Gap(p, s, p, o) + BlackOf(tr, p)
      /\ (sib # NULL => Height(h, sib) = h[sib])
  BY <1>0, <1>1, HeightFacts
<1>5. Gap(p, s, p, s) = 1 /\ Gap(p, s, p, o) = 0 /\ BlackOf(tr, p) \in {0, 1}
  BY <1>1, GapBit, BlackBit
<1>6. Height(h, sib) = Height(h, elm) + 1 /\ h[p] = Height(h, elm) + 1 + BlackOf(tr, p)
  BY <1>3, <1>4, <1>5
<1>7. sib # NULL
  BY <1>3, <1>6 DEF Height
<1>8. sib \in Linked(tr) /\ sib # p /\ sib # tr.root /\ tr.parent[sib] = p
  BY <1>0, <1>1, <1>7, ChildIs
<1>9. elm # NULL => elm \in Linked(tr) /\ elm # p /\ tr.parent[elm] = p
  BY <1>0, ChildIs
<1>10. elm # sib
  <2>1. tr.child[s][p] = sib => s = o
    BY <1>0, <1>1, <1>7, ChildOnce
  <2> QED
    BY <1>0, <1>1, <2>1
<1> QED
  BY <1>0, <1>1, <1>2, <1>3, <1>4, <1>6, <1>7, <1>8, <1>9, <1>10

\* The rotation over a red sibling leaves no red node with a red parent.
LEMMA StrictTurn ==
  ASSUME NEW tr, NEW sub, Tree(tr, sub), StrictRed(tr), NEW a \in Linked(tr), NEW s \in Sides,
         NEW b, b = tr.child[Other(s)][a], b # NULL, NEW q, Turned(tr, q, a, b, s), NEW sub2, Tree(q, sub2),
         tr.color[b] = "red", tr.color[a] = "black", ~IsRed(tr, tr.child[s][a]), ~IsRed(tr, tr.child[s][b])
  PROVE  StrictRed(q)
<1>1. SUFFICES ASSUME NEW n \in Linked(tr), IsRed(q, n), n = q.root \/ IsRed(q, q.parent[n]) PROVE FALSE
  BY DEF StrictRed, Turned
<1>2. IsRed(tr, n) /\ (n = tr.root \/ IsRed(tr, tr.parent[n]))
  BY <1>1, TurnRed
<1> QED
  BY <1>2 DEF StrictRed

\* A child of a red node is not red.
LEMMA StrictChild ==
  ASSUME NEW tr, NEW sub, Tree(tr, sub), StrictRed(tr), NEW n \in Linked(tr), tr.color[n] = "red", NEW d \in Sides
  PROVE  ~IsRed(tr, tr.child[d][n]) /\ ~IsRed(tr, tr.parent[n]) /\ n # tr.root
<1>1. IsRed(tr, n)
  BY Fields
<1>2. ASSUME NEW m, m = tr.child[d][n], IsRed(tr, m) PROVE FALSE
  <2>1. m # NULL
    BY <1>2 DEF IsRed
  <2>2. m \in Linked(tr) /\ tr.parent[m] = n
    BY <1>2, <2>1, ChildIs
  <2> QED
    BY <1>1, <1>2, <2>2 DEF StrictRed
<1> QED
  BY <1>1, <1>2 DEF StrictRed

\* The red sibling is rotated above p.
LEMMA BlackSiblingKeeps ==
  ASSUME NEW tr, NEW sub, NEW h, NEW p, NEW s, NEW elm, ShortAt(tr, sub, h, p, s, elm),
         NEW q, q = BlackSibling(tr, p, s)
  PROVE  /\ Linked(q) = Linked(tr) /\ ~IsRed(q, q.child[Other(s)][p])
         /\ \E sub2, h2 : ShortAt(q, sub2, h2, p, s, elm)
<1>a. PICK o, sib : o = Other(s) /\ sib = tr.child[o][p]
  OBVIOUS
<1>0. /\ Tree(tr, sub) /\ Shaped(tr) /\ Heights(tr, h, p, s) /\ StrictRed(tr)
      /\ p \in Linked(tr) /\ s \in Sides /\ tr.child[s][p] = elm /\ ~IsRed(tr, elm)
  BY DEF ShortAt, Tree
<1>1. /\ o \in Sides /\ o # s /\ Sides = {s, o} /\ Other(o) = s /\ NULL \notin Linked(tr) /\ p # NULL
      /\ sib \in Linked(tr) /\ sib # NULL /\ sib # p /\ sib # tr.root /\ tr.parent[sib] = p
      /\ elm \in Places(tr) /\ elm # p /\ elm # sib /\ (elm # NULL => elm \in Linked(tr) /\ tr.parent[elm] = p)
  BY <1>a, Sibling
<1>2. CASE ~IsRed(tr, sib)
  <2>1. q = tr
    BY <1>a, <1>2 DEF BlackSibling
  <2> QED
    BY <1>a, <1>2, <2>1
<1>3. CASE IsRed(tr, sib)
  <2>1. PICK t1 : t1 = RB_SET_BLACKRED(tr, sib, p)
    OBVIOUS
  <2>2. q = RB_ROTATE(t1, p, s)
    BY <1>a, <1>3, <2>1 DEF BlackSibling
  <2>3. tr.color[sib] = "red" /\ tr.color[p] = "black"
    <3>1. ~IsRed(tr, p) /\ tr.color[sib] = "red"
      BY <1>0, <1>1, <1>3, StrictChild DEF IsRed
    <3> QED
      BY <1>0, <3>1, Fields
  <2>4. Swapped(tr, t1, p, sib)
    BY <1>0, <1>1, <2>1, <2>3, BlackRedFields DEF Swapped
  <2>5. PICK sub2, h2 : Turned(tr, q, p, sib, s) /\ Tree(q, sub2) /\ Heights(q, h2, p, s)
    <3>1. sib = tr.child[Other(s)][p]
      BY <1>a
    <3> QED
      BY <1>0, <1>1, <2>2, <2>3, <2>4, <3>1, SwapRotate
  <2>6. PICK mid : mid = tr.child[s][sib]
    OBVIOUS
  <2>7. ~IsRed(tr, mid) /\ mid \in Places(tr)
    BY <1>0, <1>1, <2>3, <2>6, StrictChild, Fields
  <2>8. StrictRed(q)
    <3>1. sib = tr.child[Other(s)][p] /\ ~IsRed(tr, tr.child[s][p]) /\ ~IsRed(tr, tr.child[s][sib])
      BY <1>0, <1>a, <2>6, <2>7
    <3> QED
      BY <1>0, <1>1, <2>3, <2>5, <3>1, StrictTurn
  <2>9. Linked(q) = Linked(tr) /\ q.child[s][p] = elm /\ q.child[o][p] = mid
    BY <1>0, <1>1, <2>5, <2>6 DEF Turned
  <2>10. mid # NULL => mid # p /\ mid # sib /\ mid \in Linked(tr)
    <3>1. mid # NULL => mid \in Linked(tr) /\ mid # sib /\ tr.parent[mid] = sib
      BY <1>0, <1>1, <2>6, ChildIs
    <3>2. mid # NULL => mid # p
      <4>1. sib = tr.child[o][p]
        BY <1>a
      <4>2. PICK up : up = tr.parent[p]
        OBVIOUS
      <4> QED
        BY <1>0, <1>1, <2>6, <4>1, <4>2, Neighbours
    <3> QED
      BY <3>1, <3>2
  <2>11. ~IsRed(q, mid) /\ ~IsRed(q, elm)
    <3>1. mid # NULL => q.color[mid] = tr.color[mid]
      BY <2>5, <2>10 DEF Turned
    <3>2. elm # NULL => q.color[elm] = tr.color[elm]
      BY <1>1, <2>5 DEF Turned
    <3> QED
      BY <1>0, <2>7, <3>1, <3>2 DEF IsRed
  <2>12. ShortAt(q, sub2, h2, p, s, elm)
    BY <1>0, <2>5, <2>8, <2>9, <2>11 DEF ShortAt
  <2> QED
    BY <1>a, <2>9, <2>11, <2>12
<1> QED
  BY <1>2, <1>3

\* Where the shortage is after the sibling became red.
LEMMA ShiftHeights ==
  ASSUME NEW tr, NEW sub, NEW h, NEW p, NEW s, NEW elm, ShortAt(tr, sub, h, p, s, elm),
         NEW sib, sib = tr.child[Other(s)][p], tr.color[sib] = "black",
         NEW q, Recolored(tr, q), \A m \in Linked(tr) : q.color[m] = IF m = sib THEN "red" ELSE tr.color[m],
         NEW gn, NEW gs, p = tr.root => gn = NULL,
         p # tr.root => gn \in Linked(tr) /\ gs \in Sides /\ tr.child[gs][gn] = p
  PROVE  \E g : Heights(q, g, gn, gs)
<1>a. PICK o, L, k : o = Other(s) /\ L = Linked(tr) /\ k = Height(h, elm)
  OBVIOUS
<1>b. PICK g : g = [h EXCEPT ![sib] = h[sib] - 1, ![p] = h[p] - 1]
  OBVIOUS
<1>0. /\ o \in Sides /\ o # s /\ Sides = {s, o} /\ NULL \notin L /\ p # NULL
      /\ sib \in L /\ sib # NULL /\ sib # p /\ p \in L /\ s \in Sides
      /\ elm \in Places(tr) /\ elm # p /\ elm # sib /\ tr.child[o][p] = sib
      /\ k \in Nat /\ h[sib] = k + 1 /\ h[p] = k + 1 + BlackOf(tr, p)
      /\ Tree(tr, sub) /\ Heights(tr, h, p, s) /\ tr.child[s][p] = elm
  BY <1>a, Sibling DEF ShortAt
<1>1. Linked(q) = L /\ q.child = tr.child
  BY <1>a, <1>0, RecolorTree
<1>2. h \in [L -> Nat] /\ BlackOf(tr, p) \in {0, 1}
  BY <1>0, <1>a, BlackBit DEF Heights
<1>3. g \in [L -> Nat] /\ g[sib] = k /\ g[p] = k + BlackOf(tr, p) /\ \A m \in L : m # p /\ m # sib => g[m] = h[m]
  BY <1>b, <1>0, <1>2
<1>4. ASSUME NEW n \in L, NEW d \in Sides
      PROVE  g[n] = Height(g, q.child[d][n]) + Gap(gn, gs, n, d) + BlackOf(q, n)
  <2>1. PICK c : c = tr.child[d][n]
    OBVIOUS
  <2>2. /\ h[n] \in Nat /\ c \in Places(tr) /\ Height(h, c) \in Nat
        /\ h[n] = Height(h, c) + Gap(p, s, n, d) + BlackOf(tr, n)
        /\ c # NULL => Height(h, c) = h[c]
    BY <1>0, <1>a, <2>1, HeightFacts
  <2>3. Gap(gn, gs, n, d) \in {0, 1} /\ Gap(p, s, n, d) \in {0, 1} /\ BlackOf(tr, n) \in {0, 1} /\ BlackOf(q, n) \in {0, 1}
    BY GapBit, BlackBit
  <2>4. c # NULL => c \in L
    BY <1>a, <2>2 DEF Places
  <2>5. n # sib => BlackOf(q, n) = BlackOf(tr, n)
    BY <1>a DEF BlackOf
  <2>6. Gap(gn, gs, n, d) = IF c = p THEN 1 ELSE 0
    <3>1. CASE c = p
      <4>1. p # tr.root
        <5>1. c # NULL /\ n \in Linked(tr)
          BY <1>0, <1>a, <3>1
        <5>2. c # tr.root
          BY <1>0, <2>1, <5>1, ChildIs
        <5> QED
          BY <3>1, <5>2
      <4>2. gn \in Linked(tr) /\ gs \in Sides /\ tr.child[gs][gn] = c /\ c # NULL /\ n \in Linked(tr)
        BY <1>0, <1>a, <3>1, <4>1
      <4>3. gn = n /\ gs = d
        BY <1>0, <2>1, <4>2, ChildOnce
      <4> QED
        BY <3>1, <4>3 DEF Gap
    <3>2. CASE c # p
      <4>1. ~(n = gn /\ d = gs)
        <5>1. p = tr.root => n # gn
          BY <1>0
        <5>2. p # tr.root => tr.child[gs][gn] = p
          OBVIOUS
        <5> QED
          BY <2>1, <3>2, <5>1, <5>2
      <4> QED
        BY <3>2, <4>1 DEF Gap
    <3> QED
      BY <3>1, <3>2
  <2>7. CASE n = p
    <3>1. c # p
      BY <1>0, <2>1, <2>7
    <3>2. Height(g, c) = k
      <4>1. CASE d = s
        <5>1. c = elm
          BY <1>0, <2>1, <2>7, <4>1
        <5>2. Height(g, elm) = Height(h, elm)
          BY <1>0, <1>3, <1>a DEF Height, Places
        <5> QED
          BY <1>a, <5>1, <5>2
      <4>2. CASE d = o
        BY <1>0, <1>3, <2>1, <2>7, <4>2 DEF Height
      <4> QED
        BY <1>0, <4>1, <4>2
    <3> QED
      BY <1>0, <1>1, <1>3, <2>1, <2>3, <2>5, <2>6, <2>7, <3>1, <3>2
  <2>8. CASE n = sib
    <3>1. BlackOf(tr, n) = 1 /\ BlackOf(q, n) = 0
      BY <1>0, <1>a, <2>8, BlackBit
    <3>2. Gap(p, s, n, d) = 0 /\ Height(h, c) = k
      BY <1>0, <2>2, <2>3, <2>8, <3>1, GapBit
    <3>3. c # p /\ c # sib
      <4>1. c # sib
        <5>1. c # NULL => c # n
          BY <1>0, <1>a, <2>1, <2>8, ChildIs
        <5> QED
          BY <1>0, <2>8, <5>1
      <4>2. c # p
        <5>1. sib = tr.child[o][p] /\ c = tr.child[d][sib] /\ p \in Linked(tr) /\ sib \in Linked(tr)
          BY <1>0, <1>a, <2>1, <2>8
        <5>2. PICK up : up = tr.parent[p]
          OBVIOUS
        <5> QED
          BY <1>0, <5>1, <5>2, Neighbours
      <4> QED
        BY <4>1, <4>2
    <3>4. Height(g, c) = k
      BY <1>3, <2>4, <3>2, <3>3 DEF Height
    <3> QED
      BY <1>0, <1>1, <1>3, <2>1, <2>6, <2>8, <3>1, <3>3, <3>4
  <2>9. CASE n # p /\ n # sib
    <3>1. c # sib
      BY <1>0, <1>a, <2>1, <2>9, ChildOnce
    <3>2. Gap(p, s, n, d) = 0
      BY <2>9, GapBit
    <3>3. Height(g, c) + (IF c = p THEN 1 ELSE 0) = Height(h, c)
      <4>1. CASE c = p
        BY <1>0, <1>2, <1>3, <4>1 DEF Height
      <4>2. CASE c # p
        BY <1>3, <2>2, <2>4, <3>1, <4>2 DEF Height
      <4> QED
        BY <4>1, <4>2
    <3>4. Height(g, c) \in Nat
      BY <1>3, <2>4 DEF Height
    <3>5. g[n] = h[n]
      BY <1>3, <2>9
    <3> QED
      BY <1>1, <2>1, <2>2, <2>3, <2>5, <2>6, <2>9, <3>2, <3>3, <3>4, <3>5
  <2> QED
    BY <2>7, <2>8, <2>9
<1> QED
  BY <1>1, <1>3, <1>4 DEF Heights

\* Both children of the sibling are black: it becomes red, and p's subtree is short.
LEMMA RemoveRecolorKeeps ==
  ASSUME NEW tr, NEW sub, NEW h, NEW p, NEW s, NEW elm, ShortAt(tr, sub, h, p, s, elm),
         NEW sib, sib = tr.child[Other(s)][p], ~IsRed(tr, sib), \A d \in Sides : ~IsRed(tr, tr.child[d][sib]),
         NEW q, q = SetColor(tr, sib, "red")
  PROVE  Linked(q) = Linked(tr) /\ \E g : TreeInv(q, "remove_color", p, tr.parent[p], sub, g)
<1>0. /\ NULL \notin Linked(tr) /\ p # NULL /\ sib \in Linked(tr) /\ sib # NULL /\ sib # p /\ p \in Linked(tr)
      /\ Tree(tr, sub) /\ Shaped(tr) /\ StrictRed(tr) /\ tr.parent[sib] = p /\ sib # tr.root
  BY Sibling DEF ShortAt, Tree
<1>1. tr.color[sib] = "black"
  BY <1>0, Fields
<1>2. Recolored(tr, q) /\ \A m \in Linked(tr) : q.color[m] = IF m = sib THEN "red" ELSE tr.color[m]
  <2>1. sib \in Places(tr) /\ "red" \in Colors
    BY <1>0 DEF Places, Colors
  <2> QED
    BY <1>0, <2>1, SetColorFields
<1>3. /\ Tree(q, sub) /\ Linked(q) = Linked(tr)
      /\ q.root = tr.root /\ q.child = tr.child /\ q.parent = tr.parent
  BY <1>0, <1>2, RecolorTree
<1>4. PICK par, gn, gs : par = tr.parent[p] /\ gs = GapSide(q, p, par) /\ gn = GapNode(q, "remove_color", p, par)
  OBVIOUS
<1>5. p # tr.root => gn = par /\ par \in Linked(tr) /\ gs \in Sides /\ tr.child[gs][par] = p
  <2>1. SUFFICES ASSUME p # tr.root PROVE gn = par /\ par \in Linked(tr) /\ gs \in Sides /\ tr.child[gs][par] = p
    OBVIOUS
  <2>2. par # NULL
    BY <1>0, <1>4, <2>1, Fields
  <2>3. par \in Linked(tr) /\ Side(tr, par, p) \in Sides /\ tr.child[Side(tr, par, p)][par] = p
    BY <1>0, <1>4, <2>2, SideIs
  <2>4. Side(q, par, p) = Side(tr, par, p)
    BY <1>3 DEF Side
  <2> QED
    BY <1>3, <1>4, <2>1, <2>3, <2>4 DEF GapNode, GapSide
<1>6. p = tr.root => gn = NULL
  BY <1>3, <1>4 DEF GapNode
<1>7. PICK g : Heights(q, g, gn, gs)
  BY <1>1, <1>2, <1>5, <1>6, ShiftHeights
<1>8. RedRule(q, "remove_color", p)
  <2>1. SUFFICES ASSUME NEW n \in Linked(tr), IsRed(q, n), n = tr.root \/ IsRed(q, tr.parent[n])
                 PROVE  n # tr.root /\ tr.parent[n] = p
    BY <1>3 DEF RedRule
  <2>2. CASE n = sib
    BY <1>0, <2>2
  <2>3. CASE n # sib
    <3>1. IsRed(tr, n)
      BY <1>2, <2>1, <2>3 DEF IsRed
    <3>2. PICK m : m = tr.parent[n]
      OBVIOUS
    <3>3. n # tr.root /\ ~IsRed(tr, m) /\ IsRed(q, m)
      BY <1>0, <2>1, <3>1, <3>2 DEF StrictRed
    <3>4. m = sib
      <4>1. m \in Places(tr)
        BY <1>0, <3>2, Fields
      <4> QED
        BY <1>2, <3>3, <4>1 DEF IsRed, Places
    <3>5. PICK d \in Sides : tr.child[d][sib] = n
      <4>1. sib = tr.parent[n] /\ sib # NULL
        BY <1>0, <3>2, <3>4
      <4> QED
        BY <1>0, <4>1, SideIs
    <3> QED
      BY <3>1, <3>5
  <2> QED
    BY <2>2, <2>3
<1>9. OpShape(q, "remove_color", p, par)
  <2>1. p \in Places(q) /\ par \in Places(q)
    <3>1. par \in Places(tr) /\ Places(q) = Places(tr)
      BY <1>0, <1>3, <1>4, Fields DEF Places
    <3> QED
      BY <1>0, <3>1 DEF Places
  <2> QED
    BY <1>3, <1>4, <1>5, <2>1 DEF OpShape
<1>10. TreeInv(q, "remove_color", p, par, sub, g)
  BY <1>3, <1>4, <1>7, <1>8, <1>9 DEF TreeInv
<1> QED
  BY <1>3, <1>4, <1>10

\* A linked child's child is neither the node nor the child.
LEMMA Grandchild ==
  ASSUME NEW tr, NEW sub, Tree(tr, sub), NEW a \in Linked(tr), NEW s \in Sides, NEW b, b = tr.child[s][a], b # NULL,
         NEW d \in Sides, NEW m, m = tr.child[d][b], m # NULL
  PROVE  m \in Linked(tr) /\ m # a /\ m # b /\ tr.parent[m] = b /\ b \in Linked(tr) /\ b # a
<1>1. b \in Linked(tr) /\ b # a
  BY ChildIs
<1>2. PICK up : up = tr.parent[a]
  OBVIOUS
<1> QED
  BY <1>1, <1>2, Neighbours

\* The sibling's inner child is rotated above it, unless the outer child is red.
LEMMA RedOutsideKeeps ==
  ASSUME NEW tr, NEW sub, NEW h, NEW p, NEW s, NEW elm, ShortAt(tr, sub, h, p, s, elm),
         NEW sib, sib = tr.child[Other(s)][p], ~IsRed(tr, sib), \E d \in Sides : IsRed(tr, tr.child[d][sib]),
         NEW q, q = RedOutside(tr, p, s)
  PROVE  /\ Linked(q) = Linked(tr)
         /\ \E sub2, h2 : ShortAt(q, sub2, h2, p, s, elm)
         /\ ~IsRed(q, q.child[Other(s)][p]) /\ IsRed(q, q.child[Other(s)][q.child[Other(s)][p]])
<1>a. PICK o, inner, outer : o = Other(s) /\ inner = tr.child[s][sib] /\ outer = tr.child[o][sib]
  OBVIOUS
<1>0. /\ Tree(tr, sub) /\ Shaped(tr) /\ Heights(tr, h, p, s) /\ StrictRed(tr)
      /\ p \in Linked(tr) /\ s \in Sides /\ tr.child[s][p] = elm /\ ~IsRed(tr, elm)
  BY DEF ShortAt, Tree
<1>1. /\ o \in Sides /\ o # s /\ Sides = {s, o} /\ Other(o) = s /\ NULL \notin Linked(tr) /\ p # NULL
      /\ sib \in Linked(tr) /\ sib # NULL /\ sib # p /\ sib # tr.root /\ tr.parent[sib] = p /\ tr.child[o][p] = sib
      /\ elm \in Places(tr) /\ elm # p /\ elm # sib /\ (elm # NULL => elm \in Linked(tr) /\ tr.parent[elm] = p)
  BY <1>a, Sibling
<1>2. CASE IsRed(tr, outer)
  <2>1. q = tr
    BY <1>a, <1>2 DEF RedOutside
  <2> QED
    BY <1>a, <1>1, <1>2, <2>1
<1>3. CASE ~IsRed(tr, outer)
  <2>1. IsRed(tr, inner)
    BY <1>a, <1>1, <1>3
  <2>2. inner # NULL
    BY <2>1 DEF IsRed
  <2>3. /\ inner \in Linked(tr) /\ tr.parent[inner] = sib /\ inner # p /\ inner # sib
    BY <1>0, <1>1, <1>a, <2>2, Grandchild
  <2>4. tr.color[inner] = "red" /\ tr.color[sib] = "black"
    BY <1>0, <1>1, <2>1, <2>3, Fields
  <2>5. PICK t0, t1 : t0 = SetColor(tr, inner, "black") /\ t1 = SetColor(t0, sib, "red")
    OBVIOUS
  <2>6. q = RB_ROTATE(t1, sib, o)
    <3>1. RedOutside(tr, p, s) = RB_ROTATE(SetColor(SetColor(tr, tr.child[s][tr.child[Other(s)][p]], "black"), tr.child[Other(s)][p], "red"), tr.child[Other(s)][p], Other(s))
      BY <1>a, <1>1, <1>3 DEF RedOutside
    <3> QED
      BY <1>a, <1>1, <2>5, <3>1
  <2>7. Swapped(tr, t1, sib, inner)
    <3>1. inner \in Places(tr) /\ "red" \in Colors /\ "black" \in Colors
      BY <2>3 DEF Colors, Places
    <3>2. Recolored(tr, t0) /\ \A m \in Linked(tr) : t0.color[m] = IF m = inner THEN "black" ELSE tr.color[m]
      BY <1>0, <2>5, <3>1, SetColorFields
    <3>3. Shaped(t0) /\ Linked(t0) = Linked(tr) /\ sib \in Places(t0)
      BY <1>0, <1>1, <3>2, RecolorTree DEF Tree, Places
    <3>4. Recolored(t0, t1) /\ \A m \in Linked(tr) : t1.color[m] = IF m = sib THEN "red" ELSE t0.color[m]
      BY <2>5, <3>1, <3>3, SetColorFields
    <3>5. Recolored(tr, t1)
      BY <3>2, <3>4, RecolorTwice
    <3> QED
      BY <2>3, <2>4, <3>2, <3>4, <3>5 DEF Swapped
  <2>8. PICK sub2, h2 : Turned(tr, q, sib, inner, o) /\ Tree(q, sub2) /\ Heights(q, h2, p, s)
    <3>1. inner = tr.child[Other(o)][sib] /\ p # inner /\ p # sib
      BY <1>1, <1>a, <2>3
    <3>2. /\ Tree(tr, sub) /\ sib \in Linked(tr) /\ o \in Sides /\ inner = tr.child[Other(o)][sib] /\ inner # NULL
          /\ tr.color[inner] = "red" /\ Heights(tr, h, p, s) /\ p # inner /\ (p = sib => s = o)
      BY <1>0, <1>1, <2>2, <2>4, <3>1
    <3>3. /\ Turned(tr, q, sib, inner, o)
          /\ \E sub2 : Tree(q, sub2)
          /\ \E h2 : Heights(q, h2, p, s)
      BY <2>6, <2>7, <3>2, SwapRotate
    <3> QED
      BY <3>3
  <2>9. StrictRed(q)
    <3>1. inner = tr.child[Other(o)][sib] /\ ~IsRed(tr, tr.child[o][sib]) /\ ~IsRed(tr, tr.child[o][inner])
      BY <1>0, <1>1, <1>3, <1>a, <2>3, <2>4, StrictChild
    <3> QED
      BY <1>0, <1>1, <2>2, <2>4, <2>8, <3>1, StrictTurn
  <2>10. Linked(q) = Linked(tr) /\ q.child[s][p] = elm /\ q.child[o][p] = inner /\ q.child[o][inner] = sib
         /\ q.color[inner] = "black" /\ q.color[sib] = "red"
    <3>1. elm # inner
      BY <1>1, <2>3
    <3> QED
      BY <1>0, <1>1, <2>3, <2>4, <2>8 DEF Turned
  <2>11. ~IsRed(q, elm)
    <3>1. elm # NULL => elm # inner /\ elm # sib /\ q.color[elm] = tr.color[elm]
      BY <1>1, <2>3, <2>8 DEF Turned
    <3> QED
      BY <1>0, <3>1 DEF IsRed
  <2>12. ShortAt(q, sub2, h2, p, s, elm)
    BY <1>0, <2>8, <2>9, <2>10, <2>11 DEF ShortAt
  <2>13. ~IsRed(q, inner) /\ IsRed(q, sib)
    BY <1>1, <2>10 DEF IsRed
  <2> QED
    BY <1>a, <2>10, <2>12, <2>13
<1> QED
  BY <1>2, <1>3

\* The colours before the last rotation.
LastColors(tr, t1, p, sib, outer) ==
    /\ Recolored(tr, t1)
    /\ \A m \in Linked(tr) :
          t1.color[m] = IF m = outer \/ m = p THEN "black" ELSE IF m = sib THEN tr.color[p] ELSE tr.color[m]

\* The colours LastRotation sets before it rotates.
LEMMA LastColorsFields ==
  ASSUME NEW tr, NEW sub, Tree(tr, sub), NEW p \in Linked(tr), NEW sib \in Linked(tr), NEW outer \in Linked(tr),
         p # sib, outer # p, outer # sib,
         NEW t1, t1 = SetColor(SetColor(SetColor(tr, sib, tr.color[p]), p, "black"), outer, "black")
  PROVE  LastColors(tr, t1, p, sib, outer)
<1>1. PICK q1, q2 : q1 = SetColor(tr, sib, tr.color[p]) /\ q2 = SetColor(q1, p, "black")
  OBVIOUS
<1>2. /\ p \in Places(tr) /\ sib \in Places(tr) /\ outer \in Places(tr) /\ "black" \in Colors /\ tr.color[p] \in Colors
      /\ Shaped(tr)
  BY Fields DEF Places, Colors, Tree
<1>3. Recolored(tr, q1) /\ \A m \in Linked(tr) : q1.color[m] = IF m = sib THEN tr.color[p] ELSE tr.color[m]
  BY <1>1, <1>2, SetColorFields
<1>4. Shaped(q1) /\ Linked(q1) = Linked(tr) /\ Places(q1) = Places(tr)
  BY <1>3, RecolorTree DEF Tree, Places
<1>5. Recolored(q1, q2) /\ \A m \in Linked(tr) : q2.color[m] = IF m = p THEN "black" ELSE q1.color[m]
  BY <1>1, <1>2, <1>4, SetColorFields
<1>6. Recolored(tr, q2)
  BY <1>3, <1>5, RecolorTwice
<1>7. Shaped(q2) /\ Linked(q2) = Linked(tr) /\ Places(q2) = Places(tr)
  BY <1>6, RecolorTree DEF Tree, Places
<1>8. Recolored(q2, t1) /\ \A m \in Linked(tr) : t1.color[m] = IF m = outer THEN "black" ELSE q2.color[m]
  BY <1>1, <1>2, <1>7, SetColorFields
<1>9. Recolored(tr, t1)
  BY <1>6, <1>8, RecolorTwice
<1> QED
  BY <1>3, <1>5, <1>8, <1>9 DEF LastColors

\* The nodes of the last rotation.
LastNodes(tr, p, s, o, elm, sib, outer, mid) ==
    /\ o = Other(s) /\ sib = tr.child[o][p] /\ outer = tr.child[o][sib] /\ mid = tr.child[s][sib]
    /\ s \in Sides /\ o \in Sides /\ o # s /\ Sides = {s, o} /\ Other(o) = s /\ NULL \notin Linked(tr)
    /\ p \in Linked(tr) /\ sib \in Linked(tr) /\ outer \in Linked(tr)
    /\ sib # p /\ sib # tr.root /\ outer # p /\ outer # sib /\ outer # tr.root
    /\ tr.parent[sib] = p /\ tr.parent[outer] = sib
    /\ elm = tr.child[s][p] /\ elm \in Places(tr) /\ elm # p /\ elm # sib /\ elm # outer
    /\ mid \in Places(tr) /\ mid # p /\ mid # sib /\ mid # outer
    /\ tr.color[sib] = "black" /\ tr.color[outer] = "red"

\* The nodes the last rotation moves are different ones.
LEMMA LastNodesAre ==
  ASSUME NEW tr, NEW sub, NEW h, NEW p, NEW s, NEW elm, ShortAt(tr, sub, h, p, s, elm), NEW o, o = Other(s),
         NEW sib, sib = tr.child[o][p], ~IsRed(tr, sib), NEW outer, outer = tr.child[o][sib], IsRed(tr, outer),
         NEW mid, mid = tr.child[s][sib]
  PROVE  LastNodes(tr, p, s, o, elm, sib, outer, mid)
<1>0. /\ Tree(tr, sub) /\ p \in Linked(tr) /\ s \in Sides /\ tr.child[s][p] = elm
  BY DEF ShortAt
<1>1. /\ o \in Sides /\ o # s /\ Sides = {s, o} /\ Other(o) = s /\ NULL \notin Linked(tr) /\ p # NULL
      /\ sib \in Linked(tr) /\ sib # NULL /\ sib # p /\ sib # tr.root /\ tr.parent[sib] = p
      /\ elm \in Places(tr) /\ elm # p /\ elm # sib /\ (elm # NULL => elm \in Linked(tr) /\ tr.parent[elm] = p)
  BY Sibling
<1>2. outer # NULL /\ mid \in Places(tr)
  BY <1>0, <1>1, Fields DEF IsRed
<1>3. outer \in Linked(tr) /\ outer # p /\ outer # sib /\ tr.parent[outer] = sib
  BY <1>0, <1>1, <1>2, Grandchild
<1>4. outer # tr.root
  BY <1>0, <1>1, <1>2, ChildIs
<1>5. mid # NULL => mid # p /\ mid # sib
  BY <1>0, <1>1, Grandchild
<1>6. mid # outer
  <2>1. tr.child[s][sib] = outer => s = o
    BY <1>0, <1>1, <1>2, ChildOnce
  <2> QED
    BY <1>1, <2>1
<1>7. elm # outer
  <2>1. elm # NULL => tr.parent[elm] = p
    BY <1>1
  <2> QED
    BY <1>1, <1>2, <1>3, <2>1
<1>8. tr.color[sib] = "black" /\ tr.color[outer] = "red"
  BY <1>0, <1>1, <1>3, Fields
<1> QED
  BY <1>0, <1>1, <1>2, <1>3, <1>4, <1>5, <1>6, <1>7, <1>8 DEF LastNodes

\* The tree after the last rotation.
LastTree(tr, q, p, s, o, elm, sib, outer, mid) ==
    /\ Linked(q) = Linked(tr)
    /\ q.root = IF tr.root = p THEN sib ELSE tr.root
    /\ \A n \in Linked(tr), d \in Sides :
          q.child[d][n] = IF n = p THEN IF d = s THEN elm ELSE mid
                          ELSE IF n = sib THEN IF d = s THEN p ELSE outer
                          ELSE IF tr.child[d][n] = p THEN sib ELSE tr.child[d][n]
    /\ \A n \in Linked(tr) :
          q.parent[n] = IF n = p THEN sib ELSE IF n = sib THEN tr.parent[p] ELSE IF n = mid THEN p ELSE tr.parent[n]
    /\ \A n \in Linked(tr) :
          q.color[n] = IF n = outer \/ n = p THEN "black" ELSE IF n = sib THEN tr.color[p] ELSE tr.color[n]

\* The tree after LastRotation.
LEMMA LastTreeIs ==
  ASSUME NEW tr, NEW sub, Tree(tr, sub), NEW p, NEW s, NEW o, NEW elm, NEW sib, NEW outer, NEW mid,
         LastNodes(tr, p, s, o, elm, sib, outer, mid), NEW q, q = LastRotation(tr, p, s)
  PROVE  LastTree(tr, q, p, s, o, elm, sib, outer, mid) /\ \E sub2 : Tree(q, sub2)
<1>0. /\ o = Other(s) /\ sib = tr.child[o][p] /\ outer = tr.child[o][sib] /\ s \in Sides /\ sib # NULL
      /\ p \in Linked(tr) /\ sib \in Linked(tr) /\ outer \in Linked(tr) /\ sib # p /\ outer # p /\ outer # sib
      /\ elm = tr.child[s][p] /\ mid = tr.child[s][sib]
  BY DEF LastNodes
<1>1. PICK t1 : t1 = SetColor(SetColor(SetColor(tr, sib, tr.color[p]), p, "black"), outer, "black")
  OBVIOUS
<1>2. q = RB_ROTATE(t1, p, s)
  BY <1>0, <1>1 DEF LastRotation
<1>3. LastColors(tr, t1, p, sib, outer)
  BY <1>0, <1>1, LastColorsFields
<1>4. Tree(t1, sub) /\ Linked(t1) = Linked(tr) /\ t1.root = tr.root /\ t1.child = tr.child /\ t1.parent = tr.parent
  BY <1>3, RecolorTree DEF LastColors
<1>5. /\ Rotated(t1, q, p, sib, s) /\ Tree(q, RotatedSub(t1, sub, p, sib, s)) /\ Linked(q) = Linked(t1)
  <2>1. p \in Linked(t1) /\ sib = t1.child[Other(s)][p]
    BY <1>0, <1>4
  <2> QED
    BY <1>0, <1>2, <1>4, <2>1, RotateTree
<1>6. q.color = t1.color
  BY <1>5 DEF Rotated
<1>7. LastTree(tr, q, p, s, o, elm, sib, outer, mid)
  <2>1. \A n \in Linked(tr), d \in Sides :
          q.child[d][n] = IF n = p THEN IF d = s THEN elm ELSE mid
                          ELSE IF n = sib THEN IF d = s THEN p ELSE outer
                          ELSE IF tr.child[d][n] = p THEN sib ELSE tr.child[d][n]
    BY <1>0, <1>4, <1>5 DEF Rotated
  <2>2. \A n \in Linked(tr) :
          q.parent[n] = IF n = p THEN sib ELSE IF n = sib THEN tr.parent[p] ELSE IF n = mid THEN p ELSE tr.parent[n]
    BY <1>0, <1>4, <1>5 DEF Rotated
  <2>3. \A n \in Linked(tr) :
          q.color[n] = IF n = outer \/ n = p THEN "black" ELSE IF n = sib THEN tr.color[p] ELSE tr.color[n]
    BY <1>3, <1>6 DEF LastColors
  <2>4. Linked(q) = Linked(tr) /\ q.root = IF tr.root = p THEN sib ELSE tr.root
    BY <1>4, <1>5 DEF Rotated
  <2> QED
    BY <2>1, <2>2, <2>3, <2>4 DEF LastTree
<1> QED
  BY <1>5, <1>7

\* The rotation gives the short side its black node.
LEMMA LastHeights ==
  ASSUME NEW tr, NEW sub, NEW h, NEW p, NEW s, NEW elm, ShortAt(tr, sub, h, p, s, elm), NEW o, NEW sib, NEW outer,
         NEW mid, LastNodes(tr, p, s, o, elm, sib, outer, mid), NEW q, LastTree(tr, q, p, s, o, elm, sib, outer, mid),
         NEW rs
  PROVE  \E g : Heights(q, g, NULL, rs)
<1>a. PICK L, k : L = Linked(tr) /\ k = Height(h, elm)
  OBVIOUS
<1>b. PICK g : g = [h EXCEPT ![sib] = h[p], ![p] = k + 1, ![outer] = h[outer] + 1]
  OBVIOUS
<1>0. /\ o \in Sides /\ o # s /\ Sides = {s, o} /\ NULL \notin L /\ p \in L /\ sib \in L /\ outer \in L /\ s \in Sides
      /\ sib # p /\ outer # p /\ outer # sib /\ elm # p /\ elm # sib /\ elm # outer /\ mid # p /\ mid # sib /\ mid # outer
      /\ elm \in L \cup {NULL} /\ mid \in L \cup {NULL} /\ p # NULL /\ sib # NULL /\ outer # NULL
      /\ Tree(tr, sub) /\ Heights(tr, h, p, s)
  BY <1>a DEF LastNodes, ShortAt, Places
<1>c. /\ sib = tr.child[o][p] /\ outer = tr.child[o][sib] /\ mid = tr.child[s][sib] /\ elm = tr.child[s][p]
      /\ tr.color[sib] = "black" /\ tr.color[outer] = "red"
  BY DEF LastNodes
<1>1. k \in Nat /\ h[sib] = k + 1 /\ h[p] = k + 1 + BlackOf(tr, p) /\ BlackOf(tr, p) \in {0, 1}
  <2>1. sib = tr.child[Other(s)][p]
    BY DEF LastNodes
  <2> QED
    BY <1>a, <2>1, Sibling, BlackBit
<1>2. Height(h, mid) = k /\ h[outer] = k
  <2>1. BlackOf(tr, sib) = 1 /\ Gap(p, s, sib, s) = 0 /\ Gap(p, s, sib, o) = 0
    BY <1>0, <1>c, BlackBit, GapBit
  <2>0. sib \in Linked(tr) /\ mid = tr.child[s][sib] /\ outer = tr.child[o][sib] /\ s \in Sides /\ o \in Sides /\ outer # NULL
    BY <1>0, <1>a, <1>c
  <2>2. /\ Height(h, mid) \in Nat /\ h[sib] = Height(h, mid) + Gap(p, s, sib, s) + BlackOf(tr, sib)
    BY <1>0, <2>0, HeightFacts
  <2>3. /\ Height(h, outer) \in Nat /\ h[sib] = Height(h, outer) + Gap(p, s, sib, o) + BlackOf(tr, sib)
        /\ Height(h, outer) = h[outer]
    BY <1>0, <2>0, HeightFacts
  <2> QED
    BY <1>1, <2>1, <2>2, <2>3
<1>3. h \in [L -> Nat]
  BY <1>0, <1>a DEF Heights
<1>4. /\ g \in [L -> Nat] /\ g[sib] = k + 1 + BlackOf(tr, p) /\ g[p] = k + 1 /\ g[outer] = k + 1
      /\ \A m \in L : m # p /\ m # sib /\ m # outer => g[m] = h[m]
  BY <1>b, <1>0, <1>1, <1>2, <1>3
<1>5. Height(g, elm) = k /\ Height(g, mid) = k /\ Height(g, p) = k + 1 /\ Height(g, outer) = k + 1
      /\ Height(g, sib) = k + 1 + BlackOf(tr, p)
  BY <1>0, <1>2, <1>4, <1>a DEF Height
<1>6. /\ \A n \in L, d \in Sides :
            q.child[d][n] = IF n = p THEN IF d = s THEN elm ELSE mid
                            ELSE IF n = sib THEN IF d = s THEN p ELSE outer
                            ELSE IF tr.child[d][n] = p THEN sib ELSE tr.child[d][n]
      /\ \A n \in L : q.color[n] = IF n = outer \/ n = p THEN "black" ELSE IF n = sib THEN tr.color[p] ELSE tr.color[n]
      /\ Linked(q) = L
  BY <1>a DEF LastTree
<1>7. ASSUME NEW n \in L, NEW d \in Sides
      PROVE  g[n] = Height(g, q.child[d][n]) + Gap(NULL, rs, n, d) + BlackOf(q, n)
  <2>1. Gap(NULL, rs, n, d) = 0
    BY <1>0 DEF Gap
  <2>2. CASE n = p
    <3>1. q.child[d][n] = elm \/ q.child[d][n] = mid
      BY <1>6, <2>2
    <3>2. BlackOf(q, n) = 1
      BY <1>0, <1>6, <2>2, BlackBit
    <3> QED
      BY <1>1, <1>4, <1>5, <2>1, <2>2, <3>1, <3>2
  <2>3. CASE n = sib
    <3>1. q.child[d][n] = p \/ q.child[d][n] = outer
      BY <1>0, <1>6, <2>3
    <3>2. BlackOf(q, n) = BlackOf(tr, p)
      BY <1>0, <1>6, <2>3 DEF BlackOf
    <3> QED
      BY <1>1, <1>4, <1>5, <2>1, <2>3, <3>1, <3>2
  <2>4. CASE n # p /\ n # sib
    <3>1. PICK c : c = tr.child[d][n]
      OBVIOUS
    <3>2. q.child[d][n] = IF c = p THEN sib ELSE c
      BY <1>6, <2>4, <3>1
    <3>3. /\ h[n] \in Nat /\ c \in Places(tr) /\ Height(h, c) \in Nat
          /\ h[n] = Height(h, c) + Gap(p, s, n, d) + BlackOf(tr, n)
      BY <1>0, <1>a, <3>1, HeightFacts
    <3>4. Gap(p, s, n, d) = 0 /\ BlackOf(tr, n) \in {0, 1}
      BY <2>4, GapBit, BlackBit
    <3>5. c # sib /\ c # outer
      <4>1. n \in Linked(tr) /\ p \in Linked(tr) /\ sib \in Linked(tr)
        BY <1>0, <1>a
      <4>2. c # sib
        <5>1. ASSUME tr.child[d][n] = sib PROVE n = p
          BY <1>0, <1>c, <4>1, <5>1, ChildOnce
        <5> QED
          BY <2>4, <3>1, <5>1
      <4>3. c # outer
        <5>1. ASSUME tr.child[d][n] = outer PROVE n = sib
          BY <1>0, <1>c, <4>1, <5>1, ChildOnce
        <5> QED
          BY <2>4, <3>1, <5>1
      <4> QED
        BY <4>2, <4>3
    <3>6. Height(g, q.child[d][n]) = Height(h, c)
      <4>1. CASE c = p
        <5>1. Height(h, c) = h[p]
          BY <1>0, <4>1 DEF Height
        <5> QED
          BY <1>1, <1>5, <3>2, <4>1, <5>1
      <4>2. CASE c # p
        BY <1>4, <1>a, <3>2, <3>3, <3>5, <4>2 DEF Height, Places
      <4> QED
        BY <4>1, <4>2
    <3>7. CASE n = outer
      <4>1. BlackOf(q, n) = 1 /\ BlackOf(tr, n) = 0
        BY <1>6, <1>c, <3>7, BlackBit
      <4> QED
        BY <1>2, <1>4, <2>1, <3>3, <3>4, <3>6, <3>7, <4>1
    <3>8. CASE n # outer
      <4>1. BlackOf(q, n) = BlackOf(tr, n)
        BY <1>6, <2>4, <3>8 DEF BlackOf
      <4>2. g[n] = h[n]
        BY <1>4, <2>4, <3>8
      <4> QED
        BY <2>1, <3>3, <3>4, <3>6, <4>1, <4>2
    <3> QED
      BY <3>7, <3>8
  <2> QED
    BY <2>2, <2>3, <2>4
<1> QED
  BY <1>4, <1>6, <1>7 DEF Heights

\* The last rotation: no black node is missing any more.
LEMMA LastRotationKeeps ==
  ASSUME NEW tr, NEW sub, NEW h, NEW p, NEW s, NEW elm, ShortAt(tr, sub, h, p, s, elm),
         NEW sib, sib = tr.child[Other(s)][p], ~IsRed(tr, sib), IsRed(tr, tr.child[Other(s)][sib]),
         NEW q, q = LastRotation(tr, p, s)
  PROVE  Linked(q) = Linked(tr) /\ \E sub2, g : TreeInv(q, "remove_color", q.root, p, sub2, g)
<1>1. PICK o, outer, mid : o = Other(s) /\ outer = tr.child[o][sib] /\ mid = tr.child[s][sib]
  OBVIOUS
<1>2. LastNodes(tr, p, s, o, elm, sib, outer, mid)
  BY <1>1, LastNodesAre
<1>0. Tree(tr, sub) /\ StrictRed(tr) /\ ~IsRed(tr, elm)
  BY DEF ShortAt
<1>3. LastTree(tr, q, p, s, o, elm, sib, outer, mid)
  BY <1>0, <1>2, LastTreeIs
<1>4. PICK sub2 : Tree(q, sub2)
  BY <1>0, <1>2, LastTreeIs
<1>5. PICK g : Heights(q, g, NULL, GapSide(q, q.root, p))
  <2>1. PICK rs : rs = GapSide(q, q.root, p)
    OBVIOUS
  <2>2. \E g : Heights(q, g, NULL, rs)
    BY <1>2, <1>3, LastHeights
  <2> QED
    BY <2>1, <2>2
<1>6. StrictRed(q)
  <2>1. SUFFICES ASSUME NEW n \in Linked(tr), IsRed(q, n) PROVE n # q.root /\ ~IsRed(q, q.parent[n])
    BY <1>3 DEF StrictRed, LastTree
  <2>2. n # p /\ n # outer /\ (n = sib => tr.color[p] = "red") /\ (n # sib => tr.color[n] = "red")
    BY <1>3, <2>1 DEF LastTree, IsRed
  <2>3. \A m \in Linked(tr) : IsRed(q, m) /\ m # sib => IsRed(tr, m)
    BY <1>0, <1>3, Fields DEF LastTree, IsRed
  <2>4. CASE n = sib
    <3>1. p \in Linked(tr) /\ tr.color[p] = "red"
      BY <1>2, <2>2, <2>4 DEF LastNodes
    <3>2. ~IsRed(tr, tr.parent[p]) /\ p # tr.root
      BY <1>0, <1>2, <3>1, StrictChild DEF LastNodes
    <3>3. q.parent[n] = tr.parent[p] /\ q.root = tr.root /\ n # tr.root
      BY <1>2, <1>3, <2>4, <3>2 DEF LastTree, LastNodes
    <3>4. tr.parent[p] # sib /\ tr.parent[p] \in Places(tr)
      <4>1. PICK up : up = tr.parent[p]
        OBVIOUS
      <4>2. up # NULL => up # sib
        <5>1. o \in Sides /\ sib = tr.child[o][p] /\ sib \in Linked(tr)
          BY <1>2 DEF LastNodes
        <5> QED
          BY <1>0, <1>1, <3>1, <4>1, <5>1, Neighbours
      <4>3. sib # NULL
        BY <1>2 DEF LastNodes
      <4> QED
        BY <1>0, <3>1, <4>1, <4>2, <4>3, Fields
    <3>5. ~IsRed(q, tr.parent[p])
      BY <2>3, <3>2, <3>4 DEF IsRed, Places
    <3> QED
      BY <3>3, <3>5
  <2>5. CASE n # sib
    <3>1. ~IsRed(tr, tr.parent[n]) /\ n # tr.root
      <4>1. IsRed(tr, n)
        BY <1>0, <2>2, <2>5, Fields
      <4> QED
        BY <1>0, <4>1 DEF StrictRed
    <3>2. n # q.root
      BY <1>3, <2>5, <3>1 DEF LastTree
    <3>3. CASE n = mid
      <4>1. q.parent[n] = p /\ q.color[p] = "black"
        BY <1>2, <1>3, <2>2, <2>5, <3>3 DEF LastTree, LastNodes
      <4> QED
        BY <3>2, <4>1 DEF IsRed
    <3>4. CASE n # mid
      <4>1. PICK m : m = tr.parent[n]
        OBVIOUS
      <4>2. q.parent[n] = m /\ m \in Places(tr)
        BY <1>0, <1>3, <2>2, <2>5, <3>4, <4>1, Fields DEF LastTree
      <4>3. m # sib
        <5>1. SUFFICES ASSUME m = sib PROVE FALSE
          OBVIOUS
        <5>2. sib = tr.parent[n] /\ sib # NULL
          BY <1>2, <4>1, <5>1 DEF LastNodes
        <5>3. PICK d \in Sides : tr.child[d][sib] = n
          BY <1>0, <5>2, SideIs
        <5> QED
          BY <1>2, <2>2, <3>4, <5>3 DEF LastNodes
      <4>4. ~IsRed(q, m)
        BY <2>3, <3>1, <4>1, <4>2, <4>3 DEF IsRed, Places
      <4> QED
        BY <3>2, <4>2, <4>4
    <3> QED
      BY <3>3, <3>4
  <2> QED
    BY <2>4, <2>5
<1>7. RedRule(q, "remove_color", q.root)
  BY <1>6, RedRuleStrict
<1>8. GapNode(q, "remove_color", q.root, p) = NULL
  BY DEF GapNode
<1>9. OpShape(q, "remove_color", q.root, p)
  <2>1. q.root \in Places(q) /\ p \in Places(q)
    BY <1>2, <1>3, <1>4, Fields DEF LastNodes, LastTree, Places
  <2> QED
    BY <2>1 DEF OpShape
<1>10. TreeInv(q, "remove_color", q.root, p, sub2, g)
  BY <1>4, <1>5, <1>7, <1>8, <1>9 DEF TreeInv
<1> QED
  BY <1>3, <1>10 DEF LastTree

-----------------------------------------------------------------------------
(* Walks: induction on the nodes below or above a node.                    *)

\* A set of numbers has a least one.
LEMMA LeastNumber ==
  ASSUME NEW T, T \subseteq Nat, T # {}
  PROVE  \E f \in T : \A j \in T : f <= j
<1>1. PICK less : less = OpToRel(<, Nat)
  BY Zenon
<1>2. IsWellFoundedOn(less, Nat)
  BY <1>1, NatLessThanWellFounded, Zenon
<1>3. PICK f \in T : \A y \in T : <<y, f>> \notin less
  BY <1>2, WFMin, Zenon
<1>4. \A y \in T : ~(y < f)
  BY <1>1, <1>3 DEF OpToRel
<1> QED
  BY <1>4

\* The nodes below a child: fewer than those below the node, which is none of them.
LEMMA SubSmaller ==
  ASSUME NEW tr, NEW sub, Tree(tr, sub), NEW n \in Linked(tr), NEW s \in Sides, NEW c, c = tr.child[s][n], c # NULL
  PROVE  /\ c \in Linked(tr) /\ n \in sub[n] /\ c \in sub[c] /\ sub[c] \subseteq sub[n] /\ n \notin sub[c]
         /\ sub[n] \subseteq Linked(tr) /\ \A m \in sub[c] : Before(s, m, n)
         /\ Cardinality(sub[c]) \in Nat /\ Cardinality(sub[n]) \in Nat /\ Cardinality(sub[c]) < Cardinality(sub[n])
         /\ Cardinality(sub[n]) <= Cardinality(Linked(tr)) /\ Cardinality(Linked(tr)) \in Nat
<1>1. c \in Linked(tr) /\ Linked(tr) \subseteq Nodes /\ IsFiniteSet(Linked(tr))
  BY ChildIs DEF Tree, Shaped
<1>2. /\ n \in sub[n] /\ sub[n] \subseteq Linked(tr)
      /\ sub[n] = {n} \cup Sub(sub, c) \cup Sub(sub, tr.child[Other(s)][n])
      /\ \A m \in Sub(sub, c) : Before(s, m, n)
  BY SubSides
<1>3. Sub(sub, c) = sub[c] /\ c \in sub[c]
  BY <1>1, SubSides DEF Sub, Sides
<1>4. n \notin sub[c]
  <2>1. n \in sub[c] => Before(s, n, n)
    BY <1>2, <1>3
  <2> QED
    BY <1>1, <2>1, BeforeIrreflexive
<1>5. sub[c] \subseteq sub[n] /\ sub[c] # sub[n]
  BY <1>2, <1>3, <1>4
<1>6. IsFiniteSet(sub[n]) /\ Cardinality(sub[n]) <= Cardinality(Linked(tr)) /\ Cardinality(Linked(tr)) \in Nat
      /\ Cardinality(sub[n]) \in Nat
  BY <1>1, <1>2, FS_Subset, FS_CardinalityType
<1>7. IsFiniteSet(sub[c]) /\ Cardinality(sub[c]) <= Cardinality(sub[n]) /\ Cardinality(sub[c]) # Cardinality(sub[n])
      /\ Cardinality(sub[c]) \in Nat
  <2>1. sub[c] \in SUBSET sub[n]
    BY <1>5
  <2>2. IsFiniteSet(sub[c]) /\ Cardinality(sub[c]) <= Cardinality(sub[n])
        /\ (Cardinality(sub[n]) = Cardinality(sub[c]) => sub[n] = sub[c])
    BY <1>6, <2>1, FS_Subset
  <2> QED
    BY <1>5, <2>2, FS_CardinalityType
<1>8. Cardinality(sub[c]) < Cardinality(sub[n])
  BY <1>6, <1>7
<1>9. \A m \in sub[c] : Before(s, m, n)
  BY <1>2, <1>3
<1> QED
  BY <1>1, <1>2, <1>3, <1>4, <1>5, <1>6, <1>7, <1>8, <1>9

\* A set that holds a child of each of its nodes is empty: there are no endless paths down.
LEMMA Descent ==
  ASSUME NEW tr, NEW sub, Tree(tr, sub), NEW Bad, Bad \subseteq Linked(tr),
         \A n \in Bad : \E s \in Sides : tr.child[s][n] \in Bad
  PROVE  Bad = {}
<1>1. SUFFICES ASSUME Bad # {} PROVE FALSE
  OBVIOUS
<1>2. NULL \notin Linked(tr)
  BY Fields
<1>3. PICK T : T = {Cardinality(sub[n]) : n \in Bad}
  OBVIOUS
<1>4. ASSUME NEW n \in Bad
      PROVE  Cardinality(sub[n]) \in Nat /\ \E c \in Bad : Cardinality(sub[c]) < Cardinality(sub[n])
  <2>1. PICK s \in Sides : tr.child[s][n] \in Bad
    OBVIOUS
  <2>2. PICK c : c = tr.child[s][n]
    OBVIOUS
  <2>3. n \in Linked(tr) /\ c \in Bad /\ c # NULL
    BY <1>2, <2>1, <2>2
  <2> QED
    BY <2>2, <2>3, SubSmaller
<1>5. T \subseteq Nat /\ T # {}
  BY <1>1, <1>3, <1>4
<1>6. PICK f \in T : \A j \in T : f <= j
  BY <1>5, LeastNumber
<1>7. PICK n \in Bad : f = Cardinality(sub[n])
  BY <1>3
<1>8. PICK c \in Bad : Cardinality(sub[c]) < Cardinality(sub[n])
  BY <1>4
<1>9. Cardinality(sub[c]) \in T
  BY <1>3
<1> QED
  BY <1>4, <1>6, <1>7, <1>8, <1>9

\* A set that holds the parent of each of its nodes is empty.
LEMMA Ascent ==
  ASSUME NEW tr, NEW sub, Tree(tr, sub), NEW Bad, Bad \subseteq Linked(tr), \A n \in Bad : tr.parent[n] \in Bad
  PROVE  Bad = {}
<1>1. SUFFICES ASSUME Bad # {} PROVE FALSE
  OBVIOUS
<1>2. NULL \notin Linked(tr)
  BY Fields
<1>3. PICK T, N : N = Cardinality(Linked(tr)) /\ T = {N - Cardinality(sub[n]) : n \in Bad}
  OBVIOUS
<1>4. ASSUME NEW n \in Bad
      PROVE  N - Cardinality(sub[n]) \in Nat /\ \E p \in Bad : N - Cardinality(sub[p]) < N - Cardinality(sub[n])
  <2>1. PICK p : p = tr.parent[n]
    OBVIOUS
  <2>2. p \in Bad /\ p \in Linked(tr) /\ n \in Linked(tr) /\ p # NULL /\ n # NULL
    BY <1>2, <2>1
  <2>3. PICK s \in Sides : tr.child[s][p] = n
    BY <2>1, <2>2, SideIs
  <2>4. /\ Cardinality(sub[n]) \in Nat /\ Cardinality(sub[p]) \in Nat /\ Cardinality(sub[n]) < Cardinality(sub[p])
        /\ Cardinality(sub[p]) <= Cardinality(Linked(tr)) /\ Cardinality(Linked(tr)) \in Nat
    BY <2>2, <2>3, SubSmaller
  <2> QED
    BY <1>3, <2>2, <2>4
<1>5. T \subseteq Nat /\ T # {}
  BY <1>1, <1>3, <1>4
<1>6. PICK f \in T : \A j \in T : f <= j
  BY <1>5, LeastNumber
<1>7. PICK n \in Bad : f = N - Cardinality(sub[n])
  BY <1>3
<1>8. PICK p \in Bad : N - Cardinality(sub[p]) < N - Cardinality(sub[n])
  BY <1>4
<1>9. N - Cardinality(sub[p]) \in T
  BY <1>3
<1> QED
  BY <1>4, <1>6, <1>7, <1>8, <1>9

\* A node below n other than n is below one of its children.
LEMMA BelowChild ==
  ASSUME NEW tr, NEW sub, Tree(tr, sub), NEW n \in Linked(tr), NEW m \in sub[n], m # n
  PROVE  \E s \in Sides : tr.child[s][n] \in Linked(tr) /\ m \in sub[tr.child[s][n]]
<1>1. sub[n] = {n} \cup Sub(sub, tr.child["left"][n]) \cup Sub(sub, tr.child["right"][n])
  BY DEF Tree, Spans
<1>2. PICK s \in Sides : m \in Sub(sub, tr.child[s][n])
  BY <1>1 DEF Sides
<1>3. PICK c : c = tr.child[s][n]
  OBVIOUS
<1>4. c # NULL
  BY <1>2, <1>3 DEF Sub
<1>5. c \in Linked(tr)
  BY <1>3, <1>4, ChildIs
<1> QED
  BY <1>2, <1>3, <1>4, <1>5 DEF Sub

\* What is below a node below n is below n.
LEMMA Nested ==
  ASSUME NEW tr, NEW sub, Tree(tr, sub), NEW n \in Linked(tr), NEW a \in sub[n]
  PROVE  sub[a] \subseteq sub[n] /\ a \in Linked(tr)
<1>1. \A m \in Linked(tr) : sub[m] \subseteq Linked(tr)
  BY DEF Tree, Spans
<1>2. PICK Bad : Bad = {m \in Linked(tr) : \E b \in sub[m] : ~(sub[b] \subseteq sub[m])}
  OBVIOUS
<1>3. ASSUME NEW m \in Bad PROVE \E s \in Sides : tr.child[s][m] \in Bad
  <2>1. m \in Linked(tr)
    BY <1>2
  <2>2. PICK b \in sub[m] : ~(sub[b] \subseteq sub[m])
    BY <1>2
  <2>3. b # m
    BY <2>2
  <2>4. PICK s \in Sides : tr.child[s][m] \in Linked(tr) /\ b \in sub[tr.child[s][m]]
    BY <2>1, <2>3, BelowChild
  <2>5. PICK c : c = tr.child[s][m]
    OBVIOUS
  <2>6. c # NULL /\ c \in Linked(tr) /\ b \in sub[c]
    BY <2>4, <2>5, Fields
  <2>7. sub[c] \subseteq sub[m]
    BY <2>1, <2>5, <2>6, SubSmaller
  <2>8. c \in Bad
    BY <1>2, <2>2, <2>6, <2>7
  <2> QED
    BY <2>5, <2>8
<1>4. Bad = {}
  <2>1. Bad \subseteq Linked(tr)
    BY <1>2
  <2> QED
    BY <1>3, <2>1, Descent
<1> QED
  BY <1>1, <1>2, <1>4

\* Two nodes are not below each other.
LEMMA Antisymmetric ==
  ASSUME NEW tr, NEW sub, Tree(tr, sub), NEW n \in Linked(tr), NEW m \in sub[n], n \in sub[m]
  PROVE  n = m
<1>1. SUFFICES ASSUME n # m PROVE FALSE
  OBVIOUS
<1>2. PICK s \in Sides : tr.child[s][n] \in Linked(tr) /\ m \in sub[tr.child[s][n]]
  BY <1>1, BelowChild
<1>3. PICK c : c = tr.child[s][n]
  OBVIOUS
<1>4. c \in Linked(tr) /\ c # NULL /\ m \in sub[c]
  BY <1>2, <1>3, Fields
<1>5. n \notin sub[c]
  BY <1>3, <1>4, SubSmaller
<1>6. sub[m] \subseteq sub[c]
  BY <1>4, Nested
<1> QED
  BY <1>5, <1>6

\* The parent of a node below c, other than c, is below c.
LEMMA ParentBelow ==
  ASSUME NEW tr, NEW sub, Tree(tr, sub), NEW n \in Linked(tr), NEW a \in sub[n], a # n
  PROVE  tr.parent[a] \in sub[n] /\ tr.parent[a] \in Linked(tr)
<1>1. PICK Bad : Bad = {m \in Linked(tr) : \E b \in sub[m] : b # m /\ tr.parent[b] \notin sub[m]}
  OBVIOUS
<1>2. ASSUME NEW m \in Bad PROVE \E s \in Sides : tr.child[s][m] \in Bad
  <2>1. m \in Linked(tr)
    BY <1>1
  <2>2. PICK b \in sub[m] : b # m /\ tr.parent[b] \notin sub[m]
    BY <1>1
  <2>3. PICK s \in Sides : tr.child[s][m] \in Linked(tr) /\ b \in sub[tr.child[s][m]]
    BY <2>1, <2>2, BelowChild
  <2>4. PICK c : c = tr.child[s][m]
    OBVIOUS
  <2>5. c # NULL /\ c \in Linked(tr) /\ b \in sub[c]
    BY <2>3, <2>4, Fields
  <2>6. m \in sub[m] /\ sub[c] \subseteq sub[m] /\ tr.parent[c] = m
    BY <2>1, <2>4, <2>5, SubSmaller, ChildIs
  <2>7. b # c
    BY <2>2, <2>6
  <2>8. c \in Bad
    BY <1>1, <2>2, <2>5, <2>6, <2>7
  <2> QED
    BY <2>4, <2>8
<1>3. Bad = {}
  <2>1. Bad \subseteq Linked(tr)
    BY <1>1
  <2> QED
    BY <1>2, <2>1, Descent
<1>4. tr.parent[a] \in sub[n]
  BY <1>1, <1>3
<1> QED
  BY <1>4, Nested

-----------------------------------------------------------------------------
(* The ends of a subtree.                                                  *)

\* y is the outermost node of n's subtree on side s.
Extreme(tr, sub, n, s, y) ==
    y \in sub[n] /\ tr.child[s][y] = NULL /\ \A m \in sub[n] : m # y => Before(s, y, m)

\* Among the nodes below a node without a child on side s it is the outermost.
LEMMA ExtremeHere ==
  ASSUME NEW tr, NEW sub, Tree(tr, sub), NEW n \in Linked(tr), NEW s \in Sides, tr.child[s][n] = NULL
  PROVE  Extreme(tr, sub, n, s, n)
<1>1. n \in sub[n] /\ sub[n] = {n} \cup Sub(sub, tr.child[s][n]) \cup Sub(sub, tr.child[Other(s)][n])
  BY SubSides
<1>2. ASSUME NEW m \in sub[n], m # n PROVE Before(s, n, m)
  <2>1. m \in Sub(sub, tr.child[Other(s)][n])
    BY <1>1, <1>2 DEF Sub
  <2>2. Before(Other(s), m, n) /\ m \in Linked(tr)
    BY <2>1, SubSides, OtherSide
  <2>3. m \in Nodes /\ n \in Nodes /\ Other(s) \in Sides /\ Other(Other(s)) = s
    BY <2>2, OtherSide, Fields
  <2> QED
    BY <2>2, <2>3, BeforeIrreflexive
<1> QED
  BY <1>1, <1>2 DEF Extreme

\* The outermost node below the child on side s is that below the node.
LEMMA ExtremeUp ==
  ASSUME NEW tr, NEW sub, Tree(tr, sub), NEW n \in Linked(tr), NEW s \in Sides, NEW c, c = tr.child[s][n], c # NULL,
         NEW y, Extreme(tr, sub, c, s, y)
  PROVE  Extreme(tr, sub, n, s, y)
<1>1. /\ c \in Linked(tr) /\ sub[c] \subseteq sub[n] /\ sub[n] \subseteq Linked(tr) /\ Linked(tr) \subseteq Nodes
      /\ \A m \in sub[c] : Before(s, m, n)
  BY SubSmaller, Fields
<1>2. sub[n] = {n} \cup Sub(sub, c) \cup Sub(sub, tr.child[Other(s)][n])
  BY SubSides
<1>3. y \in sub[c] /\ Before(s, y, n) /\ y \in Nodes /\ n \in Nodes
  BY <1>1 DEF Extreme
<1>4. ASSUME NEW m \in sub[n], m # y PROVE Before(s, y, m)
  <2>1. CASE m = n
    BY <1>3, <2>1
  <2>2. CASE m \in Sub(sub, c)
    BY <1>4, <2>2 DEF Extreme, Sub
  <2>3. CASE m \in Sub(sub, tr.child[Other(s)][n])
    <3>1. Before(Other(s), m, n) /\ m \in Nodes
      BY <1>1, <2>3, SubSides, OtherSide
    <3>2. Before(s, n, m)
      BY <1>3, <3>1, BeforeIrreflexive, OtherSide
    <3> QED
      BY <1>3, <3>1, <3>2, BeforeTransitive
  <2> QED
    BY <1>2, <2>1, <2>2, <2>3
<1> QED
  BY <1>1, <1>3, <1>4 DEF Extreme

\* There is one outermost node.
LEMMA ExtremeOnce ==
  ASSUME NEW tr, NEW sub, Tree(tr, sub), NEW n \in Linked(tr), NEW s \in Sides, NEW y, Extreme(tr, sub, n, s, y),
         NEW z, Extreme(tr, sub, n, s, z)
  PROVE  y = z
<1>1. y \in Nodes /\ z \in Nodes
  BY SubSides, Fields DEF Extreme
<1>2. y # z => Before(s, y, z) /\ Before(s, z, y)
  BY DEF Extreme
<1> QED
  BY <1>1, <1>2, BeforeIrreflexive

\* Every node has an outermost node on each side.
LEMMA ExtremeExists ==
  ASSUME NEW tr, NEW sub, Tree(tr, sub), NEW n \in Linked(tr), NEW s \in Sides
  PROVE  \E y : Extreme(tr, sub, n, s, y)
<1>1. PICK Bad : Bad = {m \in Linked(tr) : ~ \E y : Extreme(tr, sub, m, s, y)}
  OBVIOUS
<1>2. ASSUME NEW m \in Bad PROVE \E d \in Sides : tr.child[d][m] \in Bad
  <2>1. m \in Linked(tr) /\ ~ \E y : Extreme(tr, sub, m, s, y)
    BY <1>1
  <2>2. PICK c : c = tr.child[s][m]
    OBVIOUS
  <2>3. c # NULL
    BY <2>1, <2>2, ExtremeHere
  <2>4. c \in Linked(tr)
    BY <2>1, <2>2, <2>3, ChildIs
  <2>5. ~ \E y : Extreme(tr, sub, c, s, y)
    BY <2>1, <2>2, <2>3, ExtremeUp
  <2> QED
    BY <1>1, <2>2, <2>4, <2>5
<1>3. Bad = {}
  <2>1. Bad \subseteq Linked(tr)
    BY <1>1
  <2> QED
    BY <1>2, <2>1, Descent
<1> QED
  BY <1>1, <1>3

\* Outermost finds it.
LEMMA OutermostIs ==
  ASSUME NEW tr, NEW sub, Tree(tr, sub), NEW n \in Linked(tr), NEW s \in Sides
  PROVE  Extreme(tr, sub, n, s, Outermost(tr, n, s))
<1> DEFINE Solves(f) == f = [m \in Linked(tr) |-> IF tr.child[s][m] = NULL THEN m ELSE f[tr.child[s][m]]]
<1>1. PICK g : g = [m \in Linked(tr) |-> CHOOSE y : Extreme(tr, sub, m, s, y)]
  OBVIOUS
<1>2. \A m \in Linked(tr) : Extreme(tr, sub, m, s, g[m])
  <2>1. \A m \in Linked(tr) : \E y : Extreme(tr, sub, m, s, y)
    BY ExtremeExists
  <2>2. \A m \in Linked(tr) : g[m] = CHOOSE y : Extreme(tr, sub, m, s, y)
    BY <1>1
  <2> QED
    BY <2>1, <2>2, Zenon
<1>3. ASSUME NEW m \in Linked(tr)
      PROVE  g[m] = IF tr.child[s][m] = NULL THEN m ELSE g[tr.child[s][m]]
  <2>1. PICK c : c = tr.child[s][m]
    OBVIOUS
  <2>2. CASE c = NULL
    <3>1. Extreme(tr, sub, m, s, m)
      BY <2>1, <2>2, ExtremeHere
    <3>2. g[m] = m
      BY <1>2, <3>1, ExtremeOnce
    <3> QED
      BY <2>1, <2>2, <3>2
  <2>3. CASE c # NULL
    <3>1. c \in Linked(tr)
      BY <2>1, <2>3, ChildIs
    <3>2. Extreme(tr, sub, m, s, g[c])
      BY <1>2, <2>1, <2>3, <3>1, ExtremeUp
    <3>3. g[m] = g[c]
      BY <1>2, <3>2, ExtremeOnce
    <3> QED
      BY <2>1, <2>3, <3>3
  <2> QED
    BY <2>2, <2>3
<1>4. Solves(g)
  BY <1>1, <1>3
<1>5. PICK w : w = CHOOSE f : Solves(f)
  OBVIOUS
<1>6. Solves(w)
  BY <1>4, <1>5, Zenon
<1>7. Outermost(tr, n, s) = w[n]
  BY <1>5, Zenon DEF Outermost
<1>8. \A m \in Linked(tr) : w[m] = IF tr.child[s][m] = NULL THEN m ELSE w[tr.child[s][m]]
  BY <1>6, Zenon
<1> HIDE DEF Solves
<1>9. PICK Bad : Bad = {m \in Linked(tr) : w[m] # g[m]}
  OBVIOUS
<1>10. ASSUME NEW m \in Bad PROVE \E d \in Sides : tr.child[d][m] \in Bad
  <2>1. m \in Linked(tr) /\ w[m] # g[m]
    BY <1>9
  <2>2. tr.child[s][m] # NULL /\ w[tr.child[s][m]] # g[tr.child[s][m]]
    BY <1>3, <1>8, <2>1
  <2>3. tr.child[s][m] \in Linked(tr)
    BY <2>1, <2>2, ChildIs
  <2> QED
    BY <1>9, <2>2, <2>3
<1>11. Bad = {}
  <2>1. Bad \subseteq Linked(tr)
    BY <1>9
  <2> QED
    BY <1>10, <2>1, Descent
<1> QED
  BY <1>2, <1>7, <1>9, <1>11

-----------------------------------------------------------------------------
(* RB_FIND and the place of an insertion.                                  *)

\* The side a search takes.
LEMMA TowardIs ==
  ASSUME NEW k \in Int, NEW n \in Nodes
  PROVE  Toward(k, n) \in Sides /\ (Toward(k, n) = "left" <=> k < Key[n]) /\ Key[n] \in Int
  BY KeyAssumption DEF Toward, Sides

\* The nodes below n with key k.
Matches(sub, n, k) == {m \in Sub(sub, n) : Key[m] = k}

\* The node with key k is on the side the search takes.
LEMMA MatchesDown ==
  ASSUME NEW tr, NEW sub, Tree(tr, sub), NEW n \in Linked(tr), NEW k \in Int, NEW c, c = tr.child[Toward(k, n)][n]
  PROVE  /\ k = Key[n] => Matches(sub, n, k) = {n}
         /\ k # Key[n] => Matches(sub, n, k) = Matches(sub, c, k)
<1>a. PICK s, e : s = Toward(k, n) /\ e = tr.child[Other(s)][n]
  OBVIOUS
<1>0. /\ n \in Nodes /\ s \in Sides /\ (s = "left" <=> k < Key[n]) /\ Key[n] \in Int /\ n # NULL
      /\ Other(s) \in Sides /\ Other(s) # s
  <2>1. n \in Nodes /\ n # NULL
    BY Fields
  <2>2. Toward(k, n) \in Sides /\ (Toward(k, n) = "left" <=> k < Key[n]) /\ Key[n] \in Int
    BY <2>1, TowardIs
  <2> QED
    BY <1>a, <2>1, <2>2, OtherSide
<1>1. /\ sub[n] = {n} \cup Sub(sub, c) \cup Sub(sub, e) /\ sub[n] \subseteq Linked(tr)
      /\ \A m \in Sub(sub, c) : Before(s, m, n)
      /\ \A m \in Sub(sub, e) : Before(Other(s), m, n)
  BY <1>0, <1>a, SubSides
<1>2. \A m \in Sub(sub, n) : m \in Nodes /\ Key[m] \in Int
  BY <1>0, <1>1, Fields, KeyAssumption DEF Sub
<1>3. Sub(sub, n) = {n} \cup Sub(sub, c) \cup Sub(sub, e)
  BY <1>0, <1>1 DEF Sub
<1>4. \A m \in Sub(sub, e) : Key[m] # k
  BY <1>0, <1>1, <1>2, <1>3 DEF Before, Sides, Other
<1>5. \A m \in Sub(sub, c) : Key[m] # Key[n]
  BY <1>0, <1>1, <1>2, <1>3 DEF Before
<1>6. \A m \in Sub(sub, e) : Key[m] # Key[n]
  BY <1>0, <1>1, <1>2, <1>3 DEF Before
<1> QED
  BY <1>3, <1>4, <1>5, <1>6 DEF Matches

\* RB_FIND returns the node with the key, NULL if there is none.
LEMMA FindIs ==
  ASSUME NEW tr, NEW sub, Tree(tr, sub), NEW k \in Int
  PROVE  \/ RB_FIND(tr, k) = NULL /\ \A m \in Linked(tr) : Key[m] # k
         \/ RB_FIND(tr, k) \in Linked(tr) /\ Key[RB_FIND(tr, k)] = k
<1> DEFINE Solves(f) == f = [n \in Places(tr) |-> IF n = NULL \/ k = Key[n] THEN n ELSE f[tr.child[Toward(k, n)][n]]]
           Found(n) == IF Matches(sub, n, k) = {} THEN NULL ELSE CHOOSE m \in Matches(sub, n, k) : TRUE
<1>1. PICK g : g = [n \in Places(tr) |-> Found(n)]
  OBVIOUS
<1>2. ASSUME NEW n \in Places(tr)
      PROVE  /\ n # NULL => tr.child[Toward(k, n)][n] \in Places(tr)
             /\ g[n] = IF n = NULL \/ k = Key[n] THEN n ELSE g[tr.child[Toward(k, n)][n]]
  <2>1. CASE n = NULL
    <3>1. Matches(sub, n, k) = {}
      BY <2>1 DEF Matches, Sub
    <3> QED
      BY <1>1, <2>1, <3>1
  <2>2. CASE n # NULL
    <3>1. n \in Linked(tr) /\ n \in Nodes
      BY <2>2, Fields DEF Places
    <3>2. PICK c : c = tr.child[Toward(k, n)][n]
      OBVIOUS
    <3>3. c \in Places(tr)
      BY <3>1, <3>2, TowardIs, Fields
    <3>4. CASE k = Key[n]
      <4>1. Matches(sub, n, k) = {n}
        BY <3>1, <3>4, MatchesDown
      <4>2. Found(n) = n
        BY <4>1
      <4> QED
        BY <1>1, <3>2, <3>3, <3>4, <4>2
    <3>5. CASE k # Key[n]
      <4>1. Matches(sub, n, k) = Matches(sub, c, k)
        BY <3>1, <3>2, <3>5, MatchesDown
      <4>2. Found(n) = Found(c)
        BY <4>1
      <4> HIDE DEF Found
      <4> QED
        BY <1>1, <2>2, <3>2, <3>3, <3>5, <4>2
    <3> QED
      BY <3>4, <3>5
  <2> QED
    BY <2>1, <2>2
<1>3. Solves(g)
  BY <1>1, <1>2
<1>4. PICK w : w = CHOOSE f : Solves(f)
  OBVIOUS
<1>5. Solves(w)
  BY <1>3, <1>4, Zenon
<1>6. RB_FIND(tr, k) = w[tr.root]
  BY <1>4, Zenon DEF RB_FIND
<1>7. \A n \in Places(tr) : w[n] = IF n = NULL \/ k = Key[n] THEN n ELSE w[tr.child[Toward(k, n)][n]]
  BY <1>5, Zenon
<1> HIDE DEF Solves
<1>8. PICK Bad : Bad = {n \in Linked(tr) : w[n] # g[n]}
  OBVIOUS
<1>9. w[NULL] = g[NULL]
  BY <1>2, <1>7 DEF Places
<1>10. ASSUME NEW n \in Bad PROVE \E d \in Sides : tr.child[d][n] \in Bad
  <2>1. n \in Linked(tr) /\ w[n] # g[n] /\ n \in Places(tr) /\ n # NULL /\ n \in Nodes
    BY <1>8, Fields DEF Places
  <2>2. PICK c : c = tr.child[Toward(k, n)][n]
    OBVIOUS
  <2>3. w[c] # g[c] /\ c \in Places(tr)
    BY <1>2, <1>7, <2>1, <2>2
  <2>4. c \in Linked(tr)
    BY <1>9, <2>3 DEF Places
  <2>5. Toward(k, n) \in Sides
    BY <2>1, TowardIs
  <2> QED
    BY <1>8, <2>2, <2>3, <2>4, <2>5
<1>11. Bad = {}
  <2>1. Bad \subseteq Linked(tr)
    BY <1>8
  <2> QED
    BY <1>10, <2>1, Descent
<1>12. tr.root \in Places(tr) /\ Sub(sub, tr.root) = Linked(tr)
  BY Fields DEF Tree, Spans
<1>13. RB_FIND(tr, k) = g[tr.root]
  BY <1>6, <1>8, <1>9, <1>11, <1>12 DEF Places
<1>14. RB_FIND(tr, k) = Found(tr.root)
  BY <1>1, <1>12, <1>13
<1>15. Matches(sub, tr.root, k) = {m \in Linked(tr) : Key[m] = k}
  BY <1>12 DEF Matches
<1>16. CASE Matches(sub, tr.root, k) = {}
  BY <1>14, <1>15, <1>16
<1>17. CASE Matches(sub, tr.root, k) # {}
  <2>1. RB_FIND(tr, k) \in Matches(sub, tr.root, k)
    BY <1>14, <1>17
  <2> QED
    BY <1>15, <2>1
<1> QED
  BY <1>16, <1>17

\* y ends the search for k that starts at n.
Bottom(tr, sub, k, n, y) ==
    /\ y \in sub[n] /\ tr.child[Toward(k, y)][y] = NULL
    /\ \A a \in sub[n] : y \in sub[a] /\ y # a => y \in Sub(sub, tr.child[Toward(k, a)][a])

\* A search ends at a node that has no child on the side it takes.
LEMMA BottomHere ==
  ASSUME NEW tr, NEW sub, Tree(tr, sub), NEW k \in Int, NEW n \in Linked(tr), tr.child[Toward(k, n)][n] = NULL
  PROVE  Bottom(tr, sub, k, n, n) /\ \A y : Bottom(tr, sub, k, n, y) => y = n
<1>1. n \in sub[n]
  BY SubSides DEF Sides
<1>2. ASSUME NEW a \in sub[n], n \in sub[a] PROVE n = a
  BY <1>2, Antisymmetric
<1>3. Bottom(tr, sub, k, n, n)
  BY <1>1, <1>2 DEF Bottom
<1>4. ASSUME NEW y, Bottom(tr, sub, k, n, y) PROVE y = n
  <2>1. y \in sub[n] /\ (y # n => y \in Sub(sub, tr.child[Toward(k, n)][n]))
    BY <1>1, <1>4 DEF Bottom
  <2> QED
    BY <2>1 DEF Sub
<1> QED
  BY <1>3, <1>4

\* Otherwise it ends where the search from that child ends.
LEMMA BottomUp ==
  ASSUME NEW tr, NEW sub, Tree(tr, sub), NEW k \in Int, NEW n \in Linked(tr),
         NEW c, c = tr.child[Toward(k, n)][n], c # NULL
  PROVE  \A y : Bottom(tr, sub, k, c, y) <=> Bottom(tr, sub, k, n, y)
<1>a. PICK s, e : s = Toward(k, n) /\ e = tr.child[Other(s)][n]
  OBVIOUS
<1>0. n \in Nodes /\ s \in Sides /\ Other(s) \in Sides /\ n # NULL /\ Linked(tr) \subseteq Nodes
  BY <1>a, TowardIs, OtherSide, Fields
<1>1. /\ c \in Linked(tr) /\ n \in sub[n] /\ c \in sub[c] /\ sub[c] \subseteq sub[n] /\ n \notin sub[c]
      /\ sub[n] \subseteq Linked(tr) /\ \A m \in sub[c] : Before(s, m, n)
  BY <1>0, <1>a, SubSmaller
<1>2. sub[n] = {n} \cup Sub(sub, c) \cup Sub(sub, e) /\ \A m \in Sub(sub, e) : Before(Other(s), m, n)
  BY <1>0, <1>a, SubSides
<1>3. Sub(sub, c) = sub[c]
  BY DEF Sub
<1>4. ASSUME NEW y, Bottom(tr, sub, k, c, y) PROVE Bottom(tr, sub, k, n, y)
  <2>1. y \in sub[c] /\ tr.child[Toward(k, y)][y] = NULL
    BY <1>4 DEF Bottom
  <2>2. ASSUME NEW a \in sub[n], y \in sub[a], y # a PROVE y \in Sub(sub, tr.child[Toward(k, a)][a])
    <3>1. CASE a = n
      BY <1>3, <2>1, <3>1
    <3>2. CASE a \in sub[c]
      BY <1>4, <2>2, <3>2 DEF Bottom
    <3>3. CASE a \in Sub(sub, e)
      <4>1. e \in Linked(tr) /\ e # NULL /\ a \in sub[e]
        <5>1. e # NULL
          BY <3>3 DEF Sub
        <5> QED
          BY <1>0, <1>a, <3>3, <5>1, ChildIs DEF Sub
      <4>2. y \in sub[e]
        BY <2>2, <4>1, Nested
      <4>3. Before(Other(s), y, n) /\ Before(s, y, n) /\ y \in Nodes
        BY <1>0, <1>1, <1>2, <2>1, <4>1, <4>2 DEF Sub
      <4> QED
        BY <1>0, <4>3, BeforeIrreflexive
    <3> QED
      BY <1>2, <1>3, <3>1, <3>2, <3>3
  <2> QED
    BY <1>1, <2>1, <2>2 DEF Bottom
<1>5. ASSUME NEW y, Bottom(tr, sub, k, n, y) PROVE Bottom(tr, sub, k, c, y)
  <2>1. y \in sub[n] /\ tr.child[Toward(k, y)][y] = NULL /\ (y # n => y \in Sub(sub, c))
    BY <1>1, <1>5 DEF Bottom
  <2>2. y # n
    BY <2>1
  <2>3. y \in sub[c]
    BY <1>3, <2>1, <2>2
  <2>4. \A a \in sub[c] : y \in sub[a] /\ y # a => y \in Sub(sub, tr.child[Toward(k, a)][a])
    BY <1>1, <1>5 DEF Bottom
  <2> QED
    BY <2>1, <2>3, <2>4 DEF Bottom
<1> QED
  BY <1>4, <1>5

\* Every search ends at one node.
LEMMA BottomExists ==
  ASSUME NEW tr, NEW sub, Tree(tr, sub), NEW k \in Int, NEW n \in Linked(tr)
  PROVE  \E y : Bottom(tr, sub, k, n, y)
<1>1. PICK Bad : Bad = {m \in Linked(tr) : ~ \E y : Bottom(tr, sub, k, m, y)}
  OBVIOUS
<1>2. ASSUME NEW m \in Bad PROVE \E d \in Sides : tr.child[d][m] \in Bad
  <2>1. m \in Linked(tr) /\ ~ \E y : Bottom(tr, sub, k, m, y)
    BY <1>1
  <2>2. PICK c : c = tr.child[Toward(k, m)][m]
    OBVIOUS
  <2>3. c # NULL
    BY <2>1, <2>2, BottomHere
  <2>4. Toward(k, m) \in Sides
    BY <2>1, TowardIs, Fields
  <2>5. c \in Linked(tr)
    BY <2>1, <2>2, <2>3, <2>4, ChildIs
  <2>6. ~ \E y : Bottom(tr, sub, k, c, y)
    BY <2>1, <2>2, <2>3, BottomUp
  <2> QED
    BY <1>1, <2>2, <2>4, <2>5, <2>6
<1>3. Bad = {}
  <2>1. Bad \subseteq Linked(tr)
    BY <1>1
  <2> QED
    BY <1>2, <2>1, Descent
<1> QED
  BY <1>1, <1>3

\* InsertionPoint is the node whose empty child the search for k ends at.
LEMMA InsertionPointIs ==
  ASSUME NEW tr, NEW sub, Tree(tr, sub), NEW k \in Int
  PROVE  IF tr.root = NULL THEN InsertionPoint(tr, k) = NULL ELSE Bottom(tr, sub, k, tr.root, InsertionPoint(tr, k))
<1> DEFINE Solves(f) == f = [n \in Linked(tr) |-> IF tr.child[Toward(k, n)][n] = NULL THEN n
                                                 ELSE f[tr.child[Toward(k, n)][n]]]
           End(n) == CHOOSE y : Bottom(tr, sub, k, n, y)
<1>1. PICK g : g = [n \in Linked(tr) |-> End(n)]
  OBVIOUS
<1>2. ASSUME NEW n \in Linked(tr)
      PROVE  g[n] = IF tr.child[Toward(k, n)][n] = NULL THEN n ELSE g[tr.child[Toward(k, n)][n]]
  <2>1. n \in Nodes /\ Toward(k, n) \in Sides
    BY TowardIs, Fields
  <2>2. PICK c : c = tr.child[Toward(k, n)][n]
    OBVIOUS
  <2>3. CASE c = NULL
    <3>1. Bottom(tr, sub, k, n, n) /\ \A y : Bottom(tr, sub, k, n, y) => y = n
      BY <2>2, <2>3, BottomHere
    <3>2. End(n) = n
      BY <3>1, Zenon
    <3> HIDE DEF End
    <3> QED
      BY <1>1, <2>2, <2>3, <3>2
  <2>4. CASE c # NULL
    <3>1. \A y : Bottom(tr, sub, k, c, y) <=> Bottom(tr, sub, k, n, y)
      BY <2>2, <2>4, BottomUp
    <3>2. End(n) = End(c)
      BY <3>1, Zenon
    <3>3. c \in Linked(tr)
      BY <2>1, <2>2, <2>4, ChildIs
    <3> HIDE DEF End
    <3> QED
      BY <1>1, <2>2, <2>4, <3>2, <3>3
  <2> QED
    BY <2>3, <2>4
<1> HIDE DEF End
<1>3. Solves(g)
  BY <1>1, <1>2
<1>4. PICK w : w = CHOOSE f : Solves(f)
  OBVIOUS
<1>5. Solves(w)
  BY <1>3, <1>4, Zenon
<1>6. /\ tr.root = NULL => InsertionPoint(tr, k) = NULL
      /\ tr.root # NULL => InsertionPoint(tr, k) = w[tr.root]
  <2>1. tr.root = NULL => InsertionPoint(tr, k) = NULL
    BY Zenon DEF InsertionPoint
  <2>2. ASSUME tr.root # NULL PROVE InsertionPoint(tr, k) = w[tr.root]
    BY <1>4, <2>2, Zenon DEF InsertionPoint
  <2> QED
    BY <2>1, <2>2
<1>7. \A n \in Linked(tr) : w[n] = IF tr.child[Toward(k, n)][n] = NULL THEN n ELSE w[tr.child[Toward(k, n)][n]]
  BY <1>5, Zenon
<1> HIDE DEF Solves
<1>8. PICK Bad : Bad = {n \in Linked(tr) : w[n] # g[n]}
  OBVIOUS
<1>9. ASSUME NEW n \in Bad PROVE \E d \in Sides : tr.child[d][n] \in Bad
  <2>1. n \in Linked(tr) /\ n \in Nodes /\ w[n] # g[n]
    BY <1>8, Fields
  <2>2. PICK c : c = tr.child[Toward(k, n)][n]
    OBVIOUS
  <2>3. c # NULL /\ w[c] # g[c]
    BY <1>2, <1>7, <2>1, <2>2
  <2>4. Toward(k, n) \in Sides
    BY <2>1, TowardIs
  <2>5. c \in Linked(tr)
    BY <2>1, <2>2, <2>3, <2>4, ChildIs
  <2> QED
    BY <1>8, <2>2, <2>3, <2>4, <2>5
<1>10. Bad = {}
  <2>1. Bad \subseteq Linked(tr)
    BY <1>8
  <2> QED
    BY <1>9, <2>1, Descent
<1>11. CASE tr.root = NULL
  BY <1>6, <1>11
<1>12. CASE tr.root # NULL
  <2>1. tr.root \in Linked(tr)
    BY <1>12, Fields DEF Places
  <2>2. InsertionPoint(tr, k) = g[tr.root]
    BY <1>6, <1>8, <1>10, <1>12, <2>1
  <2>3. InsertionPoint(tr, k) = End(tr.root)
    BY <1>1, <2>1, <2>2
  <2>4. \E y : Bottom(tr, sub, k, tr.root, y)
    BY <2>1, BottomExists
  <2> QED
    BY <1>12, <2>3, <2>4, Zenon DEF End
<1> QED
  BY <1>11, <1>12

-----------------------------------------------------------------------------
(* RB_INSERT.                                                              *)

\* q is tr with n as a red leaf on side s of p.
Planted(tr, q, n, p, s) ==
    /\ q = [root |-> q.root, child |-> q.child, parent |-> q.parent, color |-> q.color]
    /\ Linked(q) = Linked(tr) \cup {n}
    /\ q.root = IF p = NULL THEN n ELSE tr.root
    /\ q.child \in [Sides -> [Linked(q) -> Places(q)]]
    /\ q.parent \in [Linked(q) -> Places(q)]
    /\ q.color \in [Linked(q) -> {"red", "black"}]
    /\ \A m \in Linked(q), d \in Sides :
          q.child[d][m] = IF m = n THEN NULL ELSE IF m = p /\ d = s THEN n ELSE tr.child[d][m]
    /\ \A m \in Linked(q) : q.parent[m] = IF m = n THEN p ELSE tr.parent[m]
    /\ \A m \in Linked(q) : q.color[m] = IF m = n THEN "red" ELSE tr.color[m]

\* What RB_SET does to each field.
LEMMA SetFields ==
  ASSUME NEW tr, NEW sub, Tree(tr, sub), NEW n \in Nodes, n \notin Linked(tr), NEW p \in Places(tr), NEW s \in Sides,
         NEW q, q = RB_SET(tr, n, p, s)
  PROVE  Planted(tr, q, n, p, s)
<1>a. PICK L, M, P : L = Linked(tr) /\ M = L \cup {n} /\ P = M \cup {NULL}
  OBVIOUS
<1>b. PICK c1, f, k : /\ c1 = [d \in Sides |-> [m \in M |-> IF m = n THEN NULL ELSE tr.child[d][m]]]
                      /\ f = [m \in M |-> IF m = n THEN p ELSE tr.parent[m]]
                      /\ k = [m \in M |-> IF m = n THEN "red" ELSE tr.color[m]]
  OBVIOUS
<1>c. PICK c2, r : c2 = (IF p = NULL THEN c1 ELSE [c1 EXCEPT ![s][p] = n]) /\ r = IF p = NULL THEN n ELSE tr.root
  OBVIOUS
<1>0. /\ NULL \notin L /\ n # NULL /\ Places(tr) = L \cup {NULL} /\ p \in L \cup {NULL}
      /\ tr.child \in [Sides -> [L -> L \cup {NULL}]] /\ tr.parent \in [L -> L \cup {NULL}]
      /\ tr.color \in [L -> {"red", "black"}]
  BY <1>a, NULLAssumption DEF Tree, Shaped, Places
<1>1. q = [root |-> r, child |-> c2, parent |-> f, color |-> k]
  <2>1. PICK t1 : t1 = [root |-> tr.root, child |-> c1, parent |-> f, color |-> k]
    OBVIOUS
  <2>2. q = IF p = NULL THEN [t1 EXCEPT !.root = n] ELSE [t1 EXCEPT !.child[s][p] = n]
    BY <1>a, <1>b, <2>1 DEF RB_SET
  <2>3. CASE p = NULL
    BY <1>c, <2>1, <2>2, <2>3
  <2>4. CASE p # NULL
    <3>1. q = [t1 EXCEPT !.child = [t1.child EXCEPT ![s][p] = n]]
      BY <2>1, <2>2, <2>4
    <3>2. t1.child = c1
      BY <2>1
    <3> QED
      BY <1>c, <2>1, <2>4, <3>1, <3>2
  <2> QED
    BY <2>3, <2>4
<1>2. c1 \in [Sides -> [M -> P]] /\ \A d \in Sides, m \in M : c1[d][m] = IF m = n THEN NULL ELSE tr.child[d][m]
  BY <1>0, <1>a, <1>b
<1>3. /\ c2 \in [Sides -> [M -> P]]
      /\ \A d \in Sides, m \in M : c2[d][m] = IF m = n THEN NULL ELSE IF m = p /\ d = s THEN n ELSE tr.child[d][m]
  <2>1. CASE p = NULL
    BY <1>0, <1>2, <1>a, <1>c, <2>1
  <2>2. CASE p # NULL
    <3>1. c2 = [c1 EXCEPT ![s][p] = n] /\ p \in M /\ n \in P /\ p # n
      BY <1>0, <1>a, <1>c, <2>2
    <3>2. c2 \in [Sides -> [M -> P]] /\ \A d \in Sides, m \in M : c2[d][m] = IF d = s /\ m = p THEN n ELSE c1[d][m]
      BY <1>2, <3>1, ChildUpdate
    <3> QED
      BY <1>2, <3>1, <3>2
  <2> QED
    BY <2>1, <2>2
<1>4. f \in [M -> P] /\ \A m \in M : f[m] = IF m = n THEN p ELSE tr.parent[m]
  BY <1>0, <1>a, <1>b
<1>5. k \in [M -> {"red", "black"}] /\ \A m \in M : k[m] = IF m = n THEN "red" ELSE tr.color[m]
  BY <1>0, <1>a, <1>b
<1>6. Linked(q) = M /\ Places(q) = P
  <2>1. DOMAIN q.color = M
    BY <1>1, <1>5
  <2> QED
    BY <1>a, <2>1 DEF Linked, Places
<1>7. q.root = r /\ q.child = c2 /\ q.parent = f /\ q.color = k
  BY <1>1
<1>8. q = [root |-> q.root, child |-> q.child, parent |-> q.parent, color |-> q.color]
  BY <1>1, <1>7
<1>9. /\ Linked(q) = Linked(tr) \cup {n} /\ q.root = IF p = NULL THEN n ELSE tr.root
      /\ q.child \in [Sides -> [Linked(q) -> Places(q)]] /\ q.parent \in [Linked(q) -> Places(q)]
      /\ q.color \in [Linked(q) -> {"red", "black"}]
  BY <1>3, <1>4, <1>5, <1>6, <1>7, <1>a, <1>c
<1>10. \A m \in Linked(q), d \in Sides :
          q.child[d][m] = IF m = n THEN NULL ELSE IF m = p /\ d = s THEN n ELSE tr.child[d][m]
  BY <1>3, <1>6, <1>7
<1>11. \A m \in Linked(q) : q.parent[m] = IF m = n THEN p ELSE tr.parent[m]
  BY <1>4, <1>6, <1>7
<1>12. \A m \in Linked(q) : q.color[m] = IF m = n THEN "red" ELSE tr.color[m]
  BY <1>5, <1>6, <1>7
<1> QED
  BY <1>8, <1>9, <1>10, <1>11, <1>12 DEF Planted

\* The place a search for n's key ends at.
Vacant(tr, sub, n, p, s) ==
    /\ n \in Nodes \ Linked(tr) /\ p \in Places(tr) /\ s \in Sides
    /\ p = NULL <=> tr.root = NULL
    /\ p # NULL => /\ tr.child[s][p] = NULL /\ Before(s, n, p)
                   /\ \A a \in Linked(tr), d \in Sides : p \in Sub(sub, tr.child[d][a]) => Before(d, n, a)

\* The nodes below each node then.
PlantedSub(tr, sub, n, p) ==
    [m \in Linked(tr) \cup {n} |-> IF m = n THEN {n} ELSE IF p \in sub[m] THEN sub[m] \cup {n} ELSE sub[m]]

\* A leaf planted in a vacant place makes a search tree.
LEMMA PlantedTree ==
  ASSUME NEW tr, NEW sub, Tree(tr, sub), NEW n, NEW p, NEW s, Vacant(tr, sub, n, p, s), NEW q, Planted(tr, q, n, p, s)
  PROVE  Tree(q, PlantedSub(tr, sub, n, p))
<1>a. PICK L, M, r : L = Linked(tr) /\ M = L \cup {n} /\ r = PlantedSub(tr, sub, n, p)
  OBVIOUS
<1>0. /\ NULL \notin L /\ n \notin L /\ n # NULL /\ n \in Nodes /\ s \in Sides /\ L \subseteq Nodes /\ IsFiniteSet(L)
      /\ p \in L \cup {NULL} /\ Places(tr) = L \cup {NULL} /\ Linked(q) = M /\ Places(q) = M \cup {NULL}
      /\ (p = NULL => L = {}) /\ (p # NULL => p \in L /\ tr.root \in L)
  <2>1. p = NULL => L = {}
    BY <1>a DEF Vacant, Tree, Spans, Sub
  <2>2. p # NULL => tr.root \in L
    BY <1>a, Fields DEF Vacant, Places
  <2> QED
    BY <1>a, <2>1, <2>2, NULLAssumption DEF Vacant, Planted, Tree, Shaped, Places
<1>1. /\ \A m \in M, d \in Sides :
            q.child[d][m] = IF m = n THEN NULL ELSE IF m = p /\ d = s THEN n ELSE tr.child[d][m]
      /\ \A m \in M : q.parent[m] = IF m = n THEN p ELSE tr.parent[m]
      /\ q.root = IF p = NULL THEN n ELSE tr.root
  BY <1>0 DEF Planted
<1>2. \A m \in L, d \in Sides : tr.child[d][m] \in L \cup {NULL} /\ tr.child[d][m] # n
  BY <1>0, <1>a, Fields
<1>3. Shaped(q)
  <2>1. IsFiniteSet(M) /\ M \subseteq Nodes
    BY <1>0, <1>a, FS_AddElement
  <2>2. q.root \in Places(q)
    BY <1>0, <1>1, <1>a
  <2> QED
    BY <1>0, <2>1, <2>2 DEF Shaped, Planted
<1>4. LinkedUp(q)
  <2>1. \A m \in M : q.parent[m] = NULL <=> m = q.root
    <3>1. \A m \in L : tr.parent[m] = NULL <=> m = tr.root
      BY <1>a, Fields
    <3> QED
      BY <1>0, <1>1, <1>a, <3>1
  <2>2. ASSUME NEW m \in M, NEW d \in Sides, NEW c, c = q.child[d][m], c # NULL PROVE q.parent[c] = m
    <3>1. m # n /\ m \in L
      BY <1>1, <1>a, <2>2
    <3>2. CASE m = p /\ d = s
      BY <1>1, <1>a, <2>2, <3>1, <3>2
    <3>3. CASE ~(m = p /\ d = s)
      <4>1. c = tr.child[d][m] /\ c \in L /\ c # n
        BY <1>1, <1>2, <1>a, <2>2, <3>1, <3>3
      <4>2. tr.parent[c] = m
        BY <1>a, <2>2, <3>1, <4>1, ChildIs
      <4> QED
        BY <1>1, <1>a, <4>1, <4>2
    <3> QED
      BY <3>2, <3>3
  <2>3. ASSUME NEW m \in M, q.parent[m] # NULL PROVE \E d \in Sides : q.child[d][q.parent[m]] = m
    <3>1. CASE m = n
      <4>1. q.parent[m] = p /\ p \in M /\ p # n
        BY <1>0, <1>1, <1>a, <2>3, <3>1
      <4> QED
        BY <1>0, <1>1, <3>1, <4>1
    <3>2. CASE m # n
      <4>1. PICK x : x = tr.parent[m]
        OBVIOUS
      <4>2. m \in Linked(tr) /\ x # NULL /\ q.parent[m] = x
        BY <1>1, <1>a, <2>3, <3>2, <4>1
      <4>3. PICK d \in Sides : tr.child[d][x] = m
        BY <4>1, <4>2, SideIs
      <4>4. x \in L /\ x # n
        BY <1>0, <1>a, <4>1, <4>2, SideIs
      <4>5. ~(x = p /\ d = s)
        BY <1>0, <1>a, <4>2, <4>3 DEF Vacant
      <4> QED
        BY <1>1, <1>a, <4>2, <4>3, <4>4, <4>5
    <3> QED
      BY <3>1, <3>2
  <2> QED
    BY <1>0, <2>1, <2>2, <2>3 DEF LinkedUp
<1>5. sub \in [L -> SUBSET L] /\ \A m \in L : m \in sub[m]
  BY <1>a, SubSides DEF Tree, Spans, Sides
<1>6. /\ r \in [M -> SUBSET M] /\ r[n] = {n}
      /\ \A m \in L : r[m] = IF p \in sub[m] THEN sub[m] \cup {n} ELSE sub[m]
  BY <1>0, <1>5, <1>a DEF PlantedSub
<1>7. ASSUME NEW m \in L, NEW d \in Sides, NEW c, c = tr.child[d][m]
      PROVE  Sub(r, q.child[d][m]) = Sub(sub, c) \cup IF p \in Sub(sub, c) \/ (m = p /\ d = s) THEN {n} ELSE {}
  <2>1. m # n /\ m \in M
    BY <1>0, <1>a
  <2>2. CASE m = p /\ d = s
    <3>1. c = NULL /\ q.child[d][m] = n
      BY <1>0, <1>1, <1>7, <2>1, <2>2 DEF Vacant
    <3> QED
      BY <1>0, <1>6, <2>2, <3>1 DEF Sub
  <2>3. CASE ~(m = p /\ d = s)
    <3>1. q.child[d][m] = c
      BY <1>1, <1>7, <2>1, <2>3
    <3>2. CASE c = NULL
      BY <2>3, <3>1, <3>2 DEF Sub
    <3>3. CASE c # NULL
      <4>1. c \in L
        BY <1>2, <1>7, <3>3
      <4> QED
        BY <1>6, <2>3, <3>1, <3>3, <4>1 DEF Sub
    <3> QED
      BY <3>2, <3>3
  <2> QED
    BY <2>2, <2>3
<1>8. ASSUME NEW m \in M
      PROVE  r[m] = {m} \cup Sub(r, q.child["left"][m]) \cup Sub(r, q.child["right"][m])
  <2>1. CASE m = n
    BY <1>1, <1>6, <2>1 DEF Sub, Sides
  <2>2. CASE m # n
    <3>0. m \in L /\ m \in Linked(tr) /\ "left" \in Sides /\ "right" \in Sides
      BY <1>a, <2>2 DEF Sides
    <3>1. PICK x, y : x = tr.child["left"][m] /\ y = tr.child["right"][m]
      OBVIOUS
    <3>2. sub[m] = {m} \cup Sub(sub, x) \cup Sub(sub, y)
      BY <3>0, <3>1 DEF Tree, Spans
    <3>3. Sub(r, q.child["left"][m]) = Sub(sub, x) \cup IF p \in Sub(sub, x) \/ (m = p /\ "left" = s) THEN {n} ELSE {}
      BY <1>7, <3>0, <3>1
    <3>4. Sub(r, q.child["right"][m]) = Sub(sub, y) \cup IF p \in Sub(sub, y) \/ (m = p /\ "right" = s) THEN {n} ELSE {}
      BY <1>7, <3>0, <3>1
    <3>5. s = "left" \/ s = "right"
      BY <1>0 DEF Sides
    <3>6. r[m] = IF p \in sub[m] THEN sub[m] \cup {n} ELSE sub[m]
      BY <1>6, <3>0
    <3> QED
      BY <3>2, <3>3, <3>4, <3>5, <3>6
  <2> QED
    BY <2>1, <2>2
<1>9. ASSUME NEW m \in M, NEW d \in Sides, NEW x \in Sub(r, q.child[d][m]) PROVE Before(d, x, m)
  <2>1. m # n
    BY <1>1, <1>9 DEF Sub
  <2>2. m \in L /\ m \in Linked(tr)
    BY <1>a, <2>1
  <2>3. PICK c : c = tr.child[d][m]
    OBVIOUS
  <2>4. CASE x \in Sub(sub, c)
    BY <2>2, <2>3, <2>4, SubSides
  <2>5. CASE x \notin Sub(sub, c)
    <3>1. x = n /\ (p \in Sub(sub, c) \/ (m = p /\ d = s))
      BY <1>7, <1>9, <2>2, <2>3, <2>5
    <3>2. p # NULL
      BY <1>0, <2>2
    <3> QED
      BY <2>2, <2>3, <3>1, <3>2 DEF Vacant
  <2> QED
    BY <2>4, <2>5
<1>10. Sub(r, q.root) = M
  <2>1. CASE p = NULL
    BY <1>0, <1>1, <1>6, <1>a, <2>1 DEF Sub
  <2>2. CASE p # NULL
    <3>1. sub[tr.root] = L /\ tr.root \in L /\ p \in L
      BY <1>0, <1>a, <2>2 DEF Tree, Spans, Sub
    <3> QED
      BY <1>0, <1>1, <1>6, <1>a, <2>2, <3>1 DEF Sub
  <2> QED
    BY <2>1, <2>2
<1>11. Spans(q, r)
  BY <1>0, <1>6, <1>8, <1>9, <1>10 DEF Spans
<1> QED
  BY <1>3, <1>4, <1>11, <1>a DEF Tree

\* The side of a node with another key a search for n's key takes.
LEMMA TowardBefore ==
  ASSUME NEW n \in Nodes, NEW a \in Nodes, Key[a] # Key[n]
  PROVE  Toward(Key[n], a) \in Sides /\ Before(Toward(Key[n], a), n, a)
<1>1. Key[n] \in Int /\ Key[a] \in Int
  BY KeyAssumption
<1> QED
  BY <1>1 DEF Toward, Before, Sides

\* Where a search for a key that is not in the tree ends, its node may be linked.
LEMMA VacantIs ==
  ASSUME NEW tr, NEW sub, Tree(tr, sub), NEW n \in Nodes, n \notin Linked(tr), RB_FIND(tr, Key[n]) = NULL,
         NEW p, p = InsertionPoint(tr, Key[n]), NEW s, s = IF p = NULL THEN "left" ELSE Toward(Key[n], p)
  PROVE  Vacant(tr, sub, n, p, s)
<1>a. PICK k : k = Key[n]
  OBVIOUS
<1>1. k \in Int
  BY <1>a, KeyAssumption
<1>2. \A m \in Linked(tr) : Key[m] # k
  BY <1>1, <1>a, FindIs, NULLAssumption DEF Tree, Shaped
<1>3. \A m \in Linked(tr) : m \in Nodes /\ m # NULL
  BY Fields
<1>4. CASE tr.root = NULL
  <2>1. p = NULL
    BY <1>1, <1>4, <1>a, InsertionPointIs
  <2> QED
    BY <1>4, <2>1 DEF Vacant, Places, Sides
<1>5. CASE tr.root # NULL
  <2>1. Bottom(tr, sub, k, tr.root, p)
    BY <1>1, <1>5, <1>a, InsertionPointIs
  <2>2. sub[tr.root] = Linked(tr)
    BY <1>5 DEF Tree, Spans, Sub
  <2>3. p \in Linked(tr) /\ p # NULL /\ tr.child[Toward(k, p)][p] = NULL
    BY <1>3, <2>1, <2>2 DEF Bottom
  <2>4. s = Toward(k, p) /\ s \in Sides /\ Before(s, n, p)
    BY <1>2, <1>3, <1>a, <2>3, TowardBefore
  <2>5. ASSUME NEW a \in Linked(tr), NEW d \in Sides, p \in Sub(sub, tr.child[d][a]) PROVE Before(d, n, a)
    <3>1. PICK c : c = tr.child[d][a]
      OBVIOUS
    <3>2. c # NULL /\ p \in sub[c]
      BY <2>5, <3>1 DEF Sub
    <3>3. p \in sub[a] /\ p # a
      BY <3>1, <3>2, SubSmaller
    <3>4. PICK e : e = Toward(k, a)
      OBVIOUS
    <3>5. e \in Sides /\ Before(e, n, a)
      BY <1>2, <1>3, <1>a, <3>4, TowardBefore
    <3>6. p \in Sub(sub, tr.child[e][a])
      BY <2>1, <2>2, <3>3, <3>4 DEF Bottom
    <3>7. Before(e, p, a) /\ Before(d, p, a)
      BY <2>5, <3>5, <3>6, SubSides
    <3>8. p \in Nodes /\ a \in Nodes
      BY <1>3, <2>3
    <3>9. d = e
      <4>1. d # e => d = Other(e)
        BY <3>5, OtherSide
      <4>2. ~Before(Other(e), p, a)
        BY <3>5, <3>7, <3>8, BeforeIrreflexive
      <4> QED
        BY <3>7, <4>1, <4>2
    <3> QED
      BY <3>5, <3>9
  <2>6. p \in Places(tr)
    BY <2>3 DEF Places
  <2>7. tr.child[s][p] = NULL
    BY <2>3, <2>4
  <2> QED
    BY <1>5, <2>3, <2>4, <2>5, <2>6, <2>7 DEF Vacant
<1> QED
  BY <1>4, <1>5

\* A red leaf changes no number of black nodes.
LEMMA PlantedHeights ==
  ASSUME NEW tr, NEW sub, Tree(tr, sub), NEW n, NEW p, NEW s, Vacant(tr, sub, n, p, s), NEW q, Planted(tr, q, n, p, s),
         NEW h, NEW gs, Heights(tr, h, NULL, gs), NEW rs
  PROVE  \E g : Heights(q, g, NULL, rs)
<1>a. PICK L, M : L = Linked(tr) /\ M = L \cup {n}
  OBVIOUS
<1>b. PICK g : g = [m \in M |-> IF m = n THEN 0 ELSE h[m]]
  OBVIOUS
<1>0. NULL \notin L /\ n \notin L /\ n # NULL /\ Linked(q) = M
  BY <1>a, NULLAssumption, Fields DEF Vacant, Planted
<1>1. h \in [L -> Nat]
  BY <1>a DEF Heights
<1>2. g \in [M -> Nat] /\ g[n] = 0 /\ \A m \in L : g[m] = h[m]
  BY <1>0, <1>1, <1>a, <1>b
<1>3. ASSUME NEW m \in M, NEW d \in Sides
      PROVE  g[m] = Height(g, q.child[d][m]) + Gap(NULL, rs, m, d) + BlackOf(q, m)
  <2>1. PICK c, x : c = q.child[d][m] /\ x = tr.child[d][m]
    OBVIOUS
  <2>2. Gap(NULL, rs, m, d) = 0 /\ Gap(NULL, gs, m, d) = 0
    BY <1>0, <1>a, GapBit
  <2>3. CASE m = n
    <3>1. c = NULL /\ q.color[m] = "red"
      BY <1>0, <1>a, <2>1, <2>3 DEF Planted
    <3> QED
      BY <1>2, <2>1, <2>2, <2>3, <3>1 DEF Height, BlackOf
  <2>4. CASE m # n
    <3>1. m \in L /\ m \in Linked(tr)
      BY <1>a, <2>4
    <3>2. BlackOf(q, m) = BlackOf(tr, m)
      BY <1>0, <2>4 DEF BlackOf, Planted
    <3>3. h[m] = Height(h, x) + BlackOf(tr, m) /\ Height(h, x) \in Nat /\ BlackOf(tr, m) \in {0, 1} /\ x \in Places(tr)
      BY <2>1, <2>2, <3>1, HeightFacts, BlackBit
    <3>4. Height(g, c) = Height(h, x)
      <4>1. CASE m = p /\ d = s
        <5>1. c = n /\ x = NULL
          BY <1>0, <2>1, <2>4, <3>1, <4>1, <1>a DEF Planted, Vacant
        <5> QED
          BY <1>0, <1>2, <5>1 DEF Height
      <4>2. CASE ~(m = p /\ d = s)
        <5>1. c = x
          BY <1>0, <2>1, <2>4, <4>2 DEF Planted
        <5>2. x # NULL => x \in L
          BY <1>a, <3>3 DEF Places
        <5> QED
          BY <1>2, <5>1, <5>2 DEF Height
      <4> QED
        BY <4>1, <4>2
    <3>5. g[m] = h[m]
      BY <1>2, <3>1
    <3> QED
      BY <2>1, <2>2, <3>2, <3>3, <3>4, <3>5
  <2> QED
    BY <2>3, <2>4
<1> QED
  BY <1>0, <1>2, <1>3 DEF Heights

\* RB_INSERT keeps the invariant, with the new leaf as the loop's element.
LEMMA InsertKeeps ==
  ASSUME NEW tr, NEW sub, NEW h, TreeInv(tr, "idle", NULL, NULL, sub, h), NEW n \in Nodes, n \notin Linked(tr),
         RB_FIND(tr, Key[n]) = NULL,
         NEW p, p = InsertionPoint(tr, Key[n]), NEW s, s = IF p = NULL THEN "left" ELSE Toward(Key[n], p),
         NEW q, q = RB_SET(tr, n, p, s)
  PROVE  Linked(q) = Linked(tr) \cup {n} /\ \E r, g : TreeInv(q, "insert_color", n, NULL, r, g)
<1>1. Tree(tr, sub) /\ Heights(tr, h, NULL, GapSide(tr, NULL, NULL)) /\ RedRule(tr, "idle", NULL)
  BY DEF TreeInv, GapNode
<1>2. Vacant(tr, sub, n, p, s)
  BY <1>1, VacantIs
<1>3. Planted(tr, q, n, p, s)
  <2>1. p \in Places(tr) /\ s \in Sides
    BY <1>2 DEF Vacant
  <2> QED
    BY <1>1, <2>1, SetFields
<1>4. Linked(q) = Linked(tr) \cup {n} /\ n # NULL
  BY <1>3, NULLAssumption DEF Planted
<1>5. Tree(q, PlantedSub(tr, sub, n, p))
  BY <1>1, <1>2, <1>3, PlantedTree
<1>6. PICK g : Heights(q, g, NULL, GapSide(q, n, NULL))
  BY <1>1, <1>2, <1>3, PlantedHeights
<1>7. RedRule(q, "insert_color", n)
  <2>1. SUFFICES ASSUME NEW m \in Linked(q), IsRed(q, m), m = q.root \/ IsRed(q, q.parent[m]), m # n PROVE FALSE
    BY DEF RedRule
  <2>2. m \in Linked(tr) /\ q.color[m] = tr.color[m] /\ q.parent[m] = tr.parent[m]
    BY <1>3, <1>4, <2>1 DEF Planted
  <2>3. IsRed(tr, m) /\ m # NULL
    BY <1>1, <2>1, <2>2, Fields DEF IsRed
  <2>4. ~(m = tr.root \/ IsRed(tr, tr.parent[m]))
    BY <1>1, <2>2, <2>3 DEF RedRule
  <2>5. m # q.root
    <3>1. p = NULL => tr.root = NULL
      BY <1>2 DEF Vacant
    <3>2. tr.root # NULL
      BY <1>1, <2>2, Fields
    <3> QED
      BY <1>3, <2>4, <3>1, <3>2 DEF Planted
  <2>6. PICK x : x = tr.parent[m]
    OBVIOUS
  <2>7. x \in Places(tr) /\ n \notin Places(tr)
    BY <1>1, <1>4, <2>2, <2>6, Fields DEF Places
  <2>8. IsRed(q, x)
    BY <2>1, <2>2, <2>5, <2>6
  <2>9. x \in Linked(tr) /\ x # n /\ q.color[x] = tr.color[x]
    BY <1>3, <1>4, <2>7, <2>8 DEF IsRed, Places, Planted
  <2> QED
    BY <2>4, <2>6, <2>8, <2>9 DEF IsRed
<1>8. OpShape(q, "insert_color", n, NULL)
  BY <1>3, <1>4 DEF OpShape, Planted
<1>9. GapNode(q, "insert_color", n, NULL) = NULL
  BY DEF GapNode
<1> QED
  BY <1>4, <1>5, <1>6, <1>7, <1>8, <1>9 DEF TreeInv

-----------------------------------------------------------------------------
(* RB_REMOVE: a node with at most one child leaves its place.              *)

\* y is a node with at most one child, c, and p is its parent.
OneChild(tr, y, c, p) ==
    /\ y \in Linked(tr) /\ p = tr.parent[y]
    /\ \E d \in Sides : tr.child[d][y] = c /\ tr.child[Other(d)][y] = NULL

\* q has c in the place of y; the fields of y are as they were.
Skipped(tr, q, y, c, p) ==
    /\ q = [root |-> q.root, child |-> q.child, parent |-> q.parent, color |-> q.color]
    /\ q.root = IF tr.root = y THEN c ELSE tr.root
    /\ q.child \in [Sides -> [Linked(tr) -> Places(tr)]]
    /\ q.parent \in [Linked(tr) -> Places(tr)]
    /\ q.color = tr.color
    /\ \A m \in Linked(tr), d \in Sides : q.child[d][m] = IF tr.child[d][m] = y THEN c ELSE tr.child[d][m]
    /\ \A m \in Linked(tr) : q.parent[m] = IF m = c THEN p ELSE tr.parent[m]

\* The nodes around one that is taken out are different ones.
LEMMA OneChildFacts ==
  ASSUME NEW tr, NEW sub, Tree(tr, sub), NEW y, NEW c, NEW p, OneChild(tr, y, c, p)
  PROVE  /\ y \in Linked(tr) /\ y # NULL /\ c \in Places(tr) /\ c # y /\ p \in Places(tr) /\ p # y
         /\ c # NULL => c \in Linked(tr) /\ tr.parent[c] = y /\ c # tr.root
         /\ p = NULL <=> y = tr.root
         /\ p # NULL => p \in Linked(tr) /\ c # p
         /\ \A d \in Sides : tr.child[d][y] \in {NULL, c}
         /\ sub[y] = {y} \cup Sub(sub, c) /\ y \notin Sub(sub, c)
<1>0. PICK d \in Sides : tr.child[d][y] = c /\ tr.child[Other(d)][y] = NULL
  BY DEF OneChild
<1>1. y \in Linked(tr) /\ y # NULL /\ y \in Nodes /\ p = tr.parent[y]
  BY NULLAssumption DEF OneChild, Tree, Shaped
<1>2. c # NULL => c \in Linked(tr) /\ c # y /\ tr.parent[c] = y /\ c # tr.root
  BY <1>0, <1>1, ChildIs
<1>3. c \in Places(tr) /\ c # y
  BY <1>0, <1>1, <1>2, Fields
<1>4. p \in Places(tr) /\ (p = NULL <=> y = tr.root)
  BY <1>1, Fields
<1>5. p # NULL => p \in Linked(tr) /\ p # y
  BY <1>1, SideIs
<1>6. p # NULL => c # p
  <2>1. SUFFICES ASSUME p # NULL, c = p PROVE FALSE
    OBVIOUS
  <2>2. c \in Linked(tr) /\ c \in sub[y] /\ c # y
    BY <1>0, <1>1, <1>2, <2>1, SubSmaller
  <2>3. PICK e : e = Side(tr, p, y)
    OBVIOUS
  <2>4. e \in Sides /\ tr.child[e][p] = y
    BY <1>1, <2>1, <2>3, SideIs
  <2>5. y \in sub[p]
    BY <1>1, <1>5, <2>1, <2>4, SubSmaller
  <2> QED
    BY <1>1, <2>1, <2>2, <2>5, Antisymmetric
<1>7. \A e \in Sides : tr.child[e][y] \in {NULL, c}
  BY <1>0, OtherSide
<1>8. sub[y] = {y} \cup Sub(sub, tr.child[d][y]) \cup Sub(sub, tr.child[Other(d)][y])
  BY <1>1, SubSides
<1>9. sub[y] = {y} \cup Sub(sub, c)
  BY <1>0, <1>8 DEF Sub
<1>10. y \notin Sub(sub, c)
  BY <1>0, <1>1, SubSmaller DEF Sub
<1> QED
  BY <1>1, <1>2, <1>3, <1>4, <1>5, <1>6, <1>7, <1>9, <1>10

\* What Splice does to each field.
LEMMA SpliceFields ==
  ASSUME NEW tr, NEW sub, Tree(tr, sub), NEW y \in Linked(tr), NEW c, c = OnlyChild(tr, y),
         NEW p, OneChild(tr, y, c, p), NEW q, q = Splice(tr, y)
  PROVE  Skipped(tr, q, y, c, p)
<1>a. PICK L, P : L = Linked(tr) /\ P = Places(tr)
  OBVIOUS
<1>b. PICK t1, f : t1 = SetParent(tr, c, p) /\ f = IF c = NULL THEN tr.parent ELSE [tr.parent EXCEPT ![c] = p]
  OBVIOUS
<1>0. /\ tr = [root |-> tr.root, child |-> tr.child, parent |-> tr.parent, color |-> tr.color]
      /\ tr.child \in [Sides -> [L -> P]] /\ tr.parent \in [L -> P] /\ P = L \cup {NULL} /\ NULL \notin L
      /\ c \in P /\ p \in P /\ tr.root \in P
  BY <1>a, OneChildFacts, Fields DEF Tree, Shaped, Places
<1>1. /\ t1 = [root |-> tr.root, child |-> tr.child, parent |-> f, color |-> tr.color]
      /\ f \in [L -> P] /\ \A m \in L : f[m] = IF m = c THEN p ELSE tr.parent[m]
  <2>1. f \in [L -> P] /\ \A m \in L : f[m] = IF m = c THEN p ELSE tr.parent[m]
    BY <1>0, <1>b, ParentUpdate
  <2>2. CASE c = NULL
    BY <1>0, <1>b, <2>1, <2>2 DEF SetParent
  <2>3. CASE c # NULL
    <3>1. t1 = [tr EXCEPT !.parent[c] = p]
      BY <1>b, <2>3 DEF SetParent
    <3>2. t1 = [root |-> tr.root, child |-> tr.child, parent |-> [tr.parent EXCEPT ![c] = p], color |-> tr.color]
      BY <1>0, <3>1
    <3> QED
      BY <1>b, <2>1, <2>3, <3>2
  <2> QED
    BY <2>2, <2>3
<1>2. q = Replace(t1, p, y, c)
  BY <1>b DEF Splice, OneChild
<1>3. CASE p = NULL
  <2>1. y = tr.root
    BY <1>3, OneChildFacts
  <2>2. q = [root |-> c, child |-> tr.child, parent |-> f, color |-> tr.color]
    BY <1>1, <1>2, <1>3 DEF Replace
  <2>3. \A m \in L, d \in Sides : tr.child[d][m] # y
    <3>1. ASSUME NEW m \in L, NEW d \in Sides, NEW x, x = tr.child[d][m], x = y PROVE FALSE
      <4>1. x # NULL
        BY <3>1, OneChildFacts
      <4>2. m \in Linked(tr) /\ d \in Sides /\ x = tr.child[d][m] /\ x # NULL
        BY <1>a, <3>1, <4>1
      <4>3. x # tr.root
        BY <4>2, ChildIs
      <4> QED
        BY <2>1, <3>1, <4>3
    <3> QED
      BY <3>1
  <2> QED
    BY <1>0, <1>1, <1>a, <2>1, <2>2, <2>3 DEF Skipped
<1>4. CASE p # NULL
  <2>a. p \in L /\ y # tr.root /\ y # NULL
    BY <1>4, <1>a, OneChildFacts
  <2>1. p \in L /\ y # tr.root /\ y # NULL /\ p = tr.parent[y]
    BY <2>a DEF OneChild
  <2>2. PICK s : s = Side(tr, p, y)
    OBVIOUS
  <2>3. s \in Sides /\ tr.child[s][p] = y
    BY <1>4, <2>1, <2>2, SideIs
  <2>4. Side(t1, p, y) = s
    BY <1>1, <2>2 DEF Side
  <2>5. PICK k : k = [tr.child EXCEPT ![s][p] = c]
    OBVIOUS
  <2>6. q = [root |-> tr.root, child |-> k, parent |-> f, color |-> tr.color]
    <3>1. q = [t1 EXCEPT !.child[s][p] = c]
      BY <1>2, <1>4, <2>4 DEF Replace
    <3>2. q = [t1 EXCEPT !.child = [t1.child EXCEPT ![s][p] = c]]
      BY <1>1, <3>1
    <3> QED
      BY <1>1, <2>5, <3>2
  <2>7. k \in [Sides -> [L -> P]] /\ \A e \in Sides, m \in L : k[e][m] = IF e = s /\ m = p THEN c ELSE tr.child[e][m]
    BY <1>0, <2>1, <2>3, <2>5, ChildUpdate
  <2>8. \A m \in L, d \in Sides : tr.child[d][m] = y => m = p /\ d = s
    BY <1>a, <2>1, <2>3, ChildOnce
  <2>9. \A m \in L, d \in Sides : k[d][m] = IF tr.child[d][m] = y THEN c ELSE tr.child[d][m]
    BY <2>3, <2>7, <2>8
  <2> QED
    BY <1>1, <1>a, <2>1, <2>6, <2>7, <2>9 DEF Skipped
<1> QED
  BY <1>3, <1>4

\* q is t without the fields of n.
Cut(t, q, n, L) ==
    /\ q = [root |-> q.root, child |-> q.child, parent |-> q.parent, color |-> q.color]
    /\ Linked(q) = L \ {n} /\ q.root = t.root
    /\ q.child \in [Sides -> [Linked(q) -> Pointers]]
    /\ q.parent \in [Linked(q) -> Pointers]
    /\ q.color \in [Linked(q) -> Colors]
    /\ \A m \in Linked(q), d \in Sides : q.child[d][m] = t.child[d][m]
    /\ \A m \in Linked(q) : q.parent[m] = t.parent[m] /\ q.color[m] = t.color[m]

\* What Unlinked does to each field.
LEMMA UnlinkedFields ==
  ASSUME NEW t, NEW L, L = Linked(t), NEW P, P \subseteq Pointers, t.child \in [Sides -> [L -> P]], t.parent \in [L -> P],
         t.color \in [L -> Colors], NEW n, NEW q, q = Unlinked(t, n)
  PROVE  Cut(t, q, n, L)
<1>a. PICK M : M = L \ {n}
  OBVIOUS
<1>b. PICK c, f, k : /\ c = [d \in Sides |-> [m \in M |-> t.child[d][m]]]
                     /\ f = [m \in M |-> t.parent[m]] /\ k = [m \in M |-> t.color[m]]
  OBVIOUS
<1>1. q = [root |-> t.root, child |-> c, parent |-> f, color |-> k]
  BY <1>a, <1>b DEF Unlinked
<1>2. c \in [Sides -> [M -> Pointers]] /\ \A d \in Sides, m \in M : c[d][m] = t.child[d][m]
  <2>1. \A d \in Sides, m \in M : t.child[d][m] \in Pointers
    BY <1>a
  <2> QED
    BY <1>b, <2>1
<1>3. f \in [M -> Pointers] /\ k \in [M -> Colors] /\ \A m \in M : f[m] = t.parent[m] /\ k[m] = t.color[m]
  <2>1. \A m \in M : t.parent[m] \in Pointers /\ t.color[m] \in Colors
    BY <1>a
  <2> QED
    BY <1>b, <2>1
<1>4. q.root = t.root /\ q.child = c /\ q.parent = f /\ q.color = k
  BY <1>1
<1>5. Linked(q) = M
  BY <1>3, <1>4 DEF Linked
<1> QED
  BY <1>1, <1>2, <1>3, <1>4, <1>5, <1>a DEF Cut

\* u is tr without y, its child c in its place.
Spliced(tr, u, y, c, p) ==
    /\ u = [root |-> u.root, child |-> u.child, parent |-> u.parent, color |-> u.color]
    /\ Linked(u) = Linked(tr) \ {y}
    /\ u.root = IF tr.root = y THEN c ELSE tr.root
    /\ u.child \in [Sides -> [Linked(u) -> Places(u)]]
    /\ u.parent \in [Linked(u) -> Places(u)]
    /\ u.color \in [Linked(u) -> Colors]
    /\ \A m \in Linked(u), d \in Sides : u.child[d][m] = IF tr.child[d][m] = y THEN c ELSE tr.child[d][m]
    /\ \A m \in Linked(u) : u.parent[m] = IF m = c THEN p ELSE tr.parent[m]
    /\ \A m \in Linked(u) : u.color[m] = tr.color[m]

\* The tree without a node that had at most one child.
LEMMA SplicedFields ==
  ASSUME NEW tr, NEW sub, Tree(tr, sub), NEW y, NEW c, NEW p, OneChild(tr, y, c, p),
         NEW t, Skipped(tr, t, y, c, p), NEW u, Cut(t, u, y, Linked(tr))
  PROVE  Spliced(tr, u, y, c, p)
<1>a. PICK L, M : L = Linked(tr) /\ M = L \ {y}
  OBVIOUS
<1>0. /\ Linked(u) = M /\ Places(u) = M \cup {NULL} /\ Places(tr) = L \cup {NULL} /\ NULL \notin L /\ y \in L
      /\ c \in M \cup {NULL} /\ p \in M \cup {NULL} /\ (c # NULL => tr.parent[c] = y) /\ M \subseteq L
  <2>1. Linked(u) = M /\ Places(u) = M \cup {NULL} /\ Places(tr) = L \cup {NULL} /\ M \subseteq L
    BY <1>a DEF Cut, Places
  <2>2. NULL \notin L
    BY <1>a, Fields
  <2> QED
    BY <1>a, <2>1, <2>2, OneChildFacts
<1>1. \A m \in M, d \in Sides : u.child[d][m] = IF tr.child[d][m] = y THEN c ELSE tr.child[d][m]
  BY <1>0, <1>a DEF Skipped, Cut
<1>2. \A m \in M : u.parent[m] = IF m = c THEN p ELSE tr.parent[m]
  BY <1>0, <1>a DEF Skipped, Cut
<1>3. \A m \in M, d \in Sides : u.child[d][m] \in M \cup {NULL}
  <2>1. \A m \in M, d \in Sides : tr.child[d][m] \in L \cup {NULL}
    BY <1>0, <1>a, Fields
  <2> QED
    BY <1>0, <1>1, <1>a, <2>1
<1>4. \A m \in M : u.parent[m] \in M \cup {NULL}
  <2>1. SUFFICES ASSUME NEW m \in M, m # c, tr.parent[m] \notin M \cup {NULL} PROVE FALSE
    BY <1>0, <1>2
  <2>2. m \in Linked(tr) /\ tr.parent[m] \in L \cup {NULL}
    BY <1>0, <1>a, <2>1, Fields
  <2>3. tr.parent[m] = y /\ y # NULL
    BY <1>0, <1>a, <2>1, <2>2
  <2>4. PICK d : d = Side(tr, y, m)
    OBVIOUS
  <2>5. d \in Sides /\ tr.child[d][y] = m
    BY <2>2, <2>3, <2>4, SideIs
  <2>6. m # NULL
    BY <1>0, <1>a, <2>2
  <2> QED
    BY <2>1, <2>5, <2>6, OneChildFacts
<1>5. u.child \in [Sides -> [Linked(u) -> Places(u)]]
  <2>1. u.child \in [Sides -> [M -> Pointers]]
    BY <1>0 DEF Cut
  <2>2. ASSUME NEW d \in Sides PROVE u.child[d] \in [M -> M \cup {NULL}]
    <3>1. u.child[d] \in [M -> Pointers]
      BY <2>1, <2>2
    <3> QED
      BY <1>3, <3>1
  <2>3. u.child = [d \in Sides |-> u.child[d]]
    BY <2>1
  <2> QED
    BY <1>0, <2>2, <2>3
<1>6. u.parent \in [Linked(u) -> Places(u)]
  <2>1. u.parent \in [M -> Pointers]
    BY <1>0 DEF Cut
  <2> QED
    BY <1>0, <1>4, <2>1
<1>7. \A m \in M : u.color[m] = tr.color[m]
  BY <1>0 DEF Skipped, Cut
<1>8. u = [root |-> u.root, child |-> u.child, parent |-> u.parent, color |-> u.color] /\ u.color \in [Linked(u) -> Colors]
  BY DEF Cut
<1>9. u.root = IF tr.root = y THEN c ELSE tr.root
  BY DEF Skipped, Cut
<1>10. \A m \in Linked(u), d \in Sides : u.child[d][m] = IF tr.child[d][m] = y THEN c ELSE tr.child[d][m]
  BY <1>0, <1>1
<1>11. \A m \in Linked(u) : u.parent[m] = IF m = c THEN p ELSE tr.parent[m]
  BY <1>0, <1>2
<1>12. Linked(u) = Linked(tr) \ {y} /\ \A m \in Linked(u) : u.color[m] = tr.color[m]
  BY <1>0, <1>7, <1>a
<1> QED
  BY <1>5, <1>6, <1>8, <1>9, <1>10, <1>11, <1>12 DEF Spliced

\* The nodes below each node then.
SplicedSub(sub, y, M) == [m \in M |-> sub[m] \ {y}]

\* It is a search tree of the remaining nodes.
LEMMA SplicedTree ==
  ASSUME NEW tr, NEW sub, Tree(tr, sub), NEW y, NEW c, NEW p, OneChild(tr, y, c, p),
         NEW u, Spliced(tr, u, y, c, p)
  PROVE  Tree(u, SplicedSub(sub, y, Linked(u)))
<1>a. PICK L, M, r : L = Linked(tr) /\ M = L \ {y} /\ r = SplicedSub(sub, y, M)
  OBVIOUS
<1>0. /\ Linked(u) = M /\ Places(u) = M \cup {NULL} /\ Places(tr) = L \cup {NULL} /\ NULL \notin L /\ y \in L
      /\ M \subseteq L /\ L \subseteq Nodes /\ IsFiniteSet(L) /\ y # NULL
  BY <1>a, Fields, OneChildFacts DEF Spliced, Places, Tree, Shaped
<1>1. /\ c \in M \cup {NULL} /\ p \in M \cup {NULL} /\ p # y /\ c # y
      /\ c # NULL => tr.parent[c] = y /\ c # tr.root
      /\ p = NULL <=> y = tr.root
      /\ p # NULL => c # p
      /\ \A d \in Sides : tr.child[d][y] \in {NULL, c}
      /\ sub[y] = {y} \cup Sub(sub, c) /\ y \notin Sub(sub, c)
      /\ p = tr.parent[y]
  <2>1. p = tr.parent[y]
    BY DEF OneChild
  <2> QED
    BY <1>0, <1>a, <2>1, OneChildFacts
<1>2. /\ \A m \in M, d \in Sides : u.child[d][m] = IF tr.child[d][m] = y THEN c ELSE tr.child[d][m]
      /\ \A m \in M : u.parent[m] = IF m = c THEN p ELSE tr.parent[m]
      /\ u.root = IF tr.root = y THEN c ELSE tr.root
      /\ \A m \in M, d \in Sides : u.child[d][m] \in M \cup {NULL}
      /\ \A m \in M : u.parent[m] \in M \cup {NULL}
  BY <1>0 DEF Spliced
<1>3. Shaped(u)
  <2>1. IsFiniteSet(M) /\ M \subseteq Nodes
    BY <1>0, FS_Subset
  <2>2. tr.root \in L \cup {NULL}
    BY <1>0, Fields
  <2>3. u.root \in Places(u)
    BY <1>0, <1>1, <1>2, <1>a, <2>2
  <2> QED
    BY <1>0, <2>1, <2>3 DEF Shaped, Spliced, Colors
<1>4. LinkedUp(u)
  <2>1. \A m \in M : u.parent[m] = NULL <=> m = u.root
    <3>1. \A m \in L : tr.parent[m] = NULL <=> m = tr.root
      BY <1>a, Fields
    <3>2. ASSUME NEW m \in M, m = c PROVE u.parent[m] = NULL <=> m = u.root
      BY <1>0, <1>1, <1>2, <3>2
    <3>3. ASSUME NEW m \in M, m # c PROVE u.parent[m] = NULL <=> m = u.root
      BY <1>0, <1>1, <1>2, <1>a, <3>1, <3>3
    <3> QED
      BY <3>2, <3>3
  <2>2. ASSUME NEW m \in M, NEW d \in Sides, NEW x, x = u.child[d][m], x # NULL PROVE u.parent[x] = m
    <3>0. PICK z : z = tr.child[d][m]
      OBVIOUS
    <3>1. x \in M /\ m \in Linked(tr)
      BY <1>0, <1>2, <1>a, <2>2
    <3>2. CASE z = y
      <4>a. m \in Linked(tr) /\ z = tr.child[d][m] /\ z # NULL
        BY <1>0, <3>0, <3>1, <3>2
      <4>b. tr.parent[z] = m
        BY <4>a, ChildIs
      <4>c. x = IF z = y THEN c ELSE z
        BY <1>2, <2>2, <3>0
      <4>1. x = c /\ tr.parent[z] = m
        BY <3>2, <4>b, <4>c
      <4> QED
        BY <1>1, <1>2, <3>1, <3>2, <4>1
    <3>3. CASE z # y
      <4>1. x = z
        BY <1>2, <2>2, <3>0, <3>3
      <4>2. tr.parent[x] = m
        BY <2>2, <3>0, <3>1, <4>1, ChildIs
      <4>3. x # c
        <5>1. m # y
          BY <1>a
        <5> QED
          BY <1>1, <2>2, <4>2, <5>1
      <4> QED
        BY <1>2, <3>1, <4>2, <4>3
    <3> QED
      BY <3>2, <3>3
  <2>3. ASSUME NEW m \in M, u.parent[m] # NULL PROVE \E d \in Sides : u.child[d][u.parent[m]] = m
    <3>0. m \in Linked(tr) /\ m # y
      BY <1>0, <1>a
    <3>1. CASE m = c
      <4>1. u.parent[m] = p /\ p # NULL /\ p \in M
        BY <1>1, <1>2, <2>3, <3>1
      <4>2. PICK d : d = Side(tr, p, y)
        OBVIOUS
      <4>3. y \in Linked(tr) /\ p = tr.parent[y]
        BY <1>0, <1>1, <1>a
      <4>4. d \in Sides /\ tr.child[d][p] = y
        BY <4>1, <4>2, <4>3, SideIs
      <4> QED
        BY <1>2, <3>1, <4>1, <4>4
    <3>2. CASE m # c
      <4>1. PICK x : x = tr.parent[m]
        OBVIOUS
      <4>2. x = u.parent[m] /\ x # NULL /\ x \in M
        BY <1>2, <2>3, <3>2, <4>1
      <4>a. PICK d : d = Side(tr, x, m)
        OBVIOUS
      <4>b. x # NULL /\ m \in Linked(tr)
        BY <3>0, <4>2
      <4>3. d \in Sides /\ tr.child[d][x] = m
        BY <4>1, <4>a, <4>b, SideIs
      <4> QED
        BY <1>2, <3>0, <4>2, <4>3
    <3> QED
      BY <3>1, <3>2
  <2> QED
    BY <1>0, <2>1, <2>2, <2>3 DEF LinkedUp
<1>5. sub \in [L -> SUBSET L]
  BY <1>a DEF Tree, Spans
<1>6. r \in [M -> SUBSET M] /\ \A m \in M : r[m] = sub[m] \ {y}
  BY <1>0, <1>5, <1>a DEF SplicedSub
<1>7. ASSUME NEW m \in M, NEW d \in Sides PROVE Sub(r, u.child[d][m]) = Sub(sub, tr.child[d][m]) \ {y}
  <2>0. PICK z : z = tr.child[d][m]
    OBVIOUS
  <2>1. CASE z = y
    <3>1. u.child[d][m] = c
      BY <1>2, <2>0, <2>1
    <3>2. Sub(sub, z) = {y} \cup Sub(sub, c)
      BY <1>0, <1>1, <2>1 DEF Sub
    <3> QED
      BY <1>1, <1>6, <2>0, <3>1, <3>2 DEF Sub
  <2>2. CASE z # y
    <3>1. u.child[d][m] = z /\ z \in M \cup {NULL}
      BY <1>2, <2>0, <2>2
    <3> QED
      BY <1>6, <2>0, <3>1 DEF Sub
  <2> QED
    BY <2>1, <2>2
<1>8. ASSUME NEW m \in M PROVE r[m] = {m} \cup Sub(r, u.child["left"][m]) \cup Sub(r, u.child["right"][m])
  <2>0. "left" \in Sides /\ "right" \in Sides /\ m # y /\ m \in Linked(tr)
    BY <1>0, <1>a DEF Sides
  <2>1. sub[m] = {m} \cup Sub(sub, tr.child["left"][m]) \cup Sub(sub, tr.child["right"][m])
    BY <2>0 DEF Tree, Spans
  <2>2. Sub(r, u.child["left"][m]) = Sub(sub, tr.child["left"][m]) \ {y}
    BY <1>7, <2>0
  <2>3. Sub(r, u.child["right"][m]) = Sub(sub, tr.child["right"][m]) \ {y}
    BY <1>7, <2>0
  <2>4. r[m] = sub[m] \ {y}
    BY <1>6
  <2> QED
    BY <2>0, <2>1, <2>2, <2>3, <2>4
<1>9. ASSUME NEW m \in M, NEW d \in Sides, NEW x \in Sub(r, u.child[d][m]) PROVE Before(d, x, m)
  <2>1. x \in Sub(sub, tr.child[d][m]) /\ m \in Linked(tr)
    BY <1>0, <1>7, <1>9, <1>a
  <2> QED
    BY <2>1, SubSides
<1>10. Sub(r, u.root) = M
  <2>1. Sub(sub, tr.root) = L
    BY <1>a DEF Tree, Spans
  <2>2. CASE tr.root = y
    <3>1. Sub(sub, c) = M
      BY <1>0, <1>1, <1>a, <2>1, <2>2 DEF Sub
    <3>2. u.root = c
      BY <1>2, <2>2
    <3>3. CASE c = NULL
      BY <3>1, <3>2, <3>3 DEF Sub
    <3>4. CASE c # NULL
      <4>1. Sub(r, c) = r[c] /\ r[c] = sub[c] \ {y} /\ Sub(sub, c) = sub[c]
        BY <1>1, <1>6, <3>4 DEF Sub
      <4> QED
        BY <1>a, <3>1, <3>2, <4>1
    <3> QED
      BY <3>3, <3>4
  <2>3. CASE tr.root # y
    <3>1. tr.root \in L
      BY <1>0, <1>a, Fields
    <3>2. u.root = tr.root /\ tr.root \in M /\ tr.root # NULL
      BY <1>0, <1>2, <1>a, <2>3, <3>1
    <3> QED
      BY <1>6, <1>a, <2>1, <3>2 DEF Sub
  <2> QED
    BY <2>2, <2>3
<1>11. Spans(u, r)
  BY <1>0, <1>6, <1>8, <1>9, <1>10 DEF Spans
<1> QED
  BY <1>0, <1>3, <1>4, <1>11, <1>a DEF Tree

\* The side the place of y is on after y is gone.
LEMMA SplicedSide ==
  ASSUME NEW tr, NEW sub, Tree(tr, sub), NEW h, NEW gs, Heights(tr, h, NULL, gs), NEW y, NEW c, NEW p,
         OneChild(tr, y, c, p), NEW u, Spliced(tr, u, y, c, p), tr.color[y] = "black", p # NULL,
         NEW d \in Sides, tr.child[d][p] = y
  PROVE  Side(u, p, c) = d /\ u.child[d][p] = c
<1>1. /\ y \in Linked(tr) /\ y # NULL /\ c \in Places(tr) /\ p \in Linked(tr) /\ p # y /\ NULL \notin Linked(tr)
      /\ p \in Linked(u) /\ d \in Sides /\ Other(d) \in Sides /\ Other(d) # d
  BY OneChildFacts, Fields, OtherSide DEF Spliced
<1>2. u.child[d][p] = c
  BY <1>1 DEF Spliced
<1>3. PICK r : Tree(u, r)
  BY SplicedTree
<1>4. PICK e, z : e = Other(d) /\ z = tr.child[e][p]
  OBVIOUS
<1>40. e \in Sides /\ e # d
  BY <1>1, <1>4
<1>5. c = NULL => z # NULL
  <2>1. SUFFICES ASSUME c = NULL, z = NULL PROVE FALSE
    OBVIOUS
  <2>2. tr.child[d][y] = NULL
    BY <1>1, <2>1, OneChildFacts
  <2>3. h[y] = Height(h, NULL) + Gap(NULL, gs, y, d) + BlackOf(tr, y)
    BY <1>1, <2>2, HeightFacts
  <2>40. p \in Linked(tr) /\ e \in Sides /\ tr.child[e][p] = NULL
    BY <1>1, <1>4, <1>40, <2>1
  <2>4. h[p] = Height(h, NULL) + Gap(NULL, gs, p, e) + BlackOf(tr, p)
    BY <2>40, HeightFacts
  <2>5. h[p] = Height(h, y) + Gap(NULL, gs, p, d) + BlackOf(tr, p) /\ Height(h, y) = h[y] /\ h[p] \in Nat /\ h[y] \in Nat
    BY <1>1, HeightFacts
  <2>6. Gap(NULL, gs, y, d) = 0 /\ Gap(NULL, gs, p, e) = 0 /\ Gap(NULL, gs, p, d) = 0
    BY <1>1, GapBit
  <2>7. BlackOf(tr, y) = 1 /\ BlackOf(tr, p) \in {0, 1} /\ Height(h, NULL) = 0
    BY BlackBit DEF Height
  <2> QED
    BY <2>3, <2>4, <2>5, <2>6, <2>7
<1>6. c # NULL \/ u.child[Other(d)][p] # NULL
  <2>1. SUFFICES ASSUME c = NULL PROVE u.child[Other(d)][p] # NULL
    OBVIOUS
  <2>2. z # y
    <3>1. y = tr.child[d][p] /\ y # NULL
      BY <1>1
    <3>2. tr.child[e][p] = y => e = d
      BY <1>1, <1>40, <3>1, ChildOnce
    <3> QED
      BY <1>4, <1>40, <3>2
  <2>3. u.child[e][p] = z
    BY <1>1, <1>4, <1>40, <2>2 DEF Spliced
  <2> QED
    BY <1>4, <1>5, <2>1, <2>3
<1>7. Side(u, p, c) = d
  BY <1>1, <1>2, <1>3, <1>6, SideOf
<1> QED
  BY <1>2, <1>7

\* It misses a black node at the child's place if the node was black.
LEMMA SplicedHeights ==
  ASSUME NEW tr, NEW sub, Tree(tr, sub), NEW h, NEW gs, Heights(tr, h, NULL, gs), NEW y, NEW c, NEW p,
         OneChild(tr, y, c, p), NEW u, Spliced(tr, u, y, c, p), NEW gn, NEW rs,
         tr.color[y] = "black" /\ p # NULL => gn = p /\ rs \in Sides /\ tr.child[rs][p] = y,
         tr.color[y] = "red" \/ p = NULL => gn = NULL
  PROVE  \E g : Heights(u, g, gn, rs)
<1>a. PICK M : M = Linked(u)
  OBVIOUS
<1>b. PICK g : g = [m \in M |-> h[m]]
  OBVIOUS
<1>1. /\ M = Linked(tr) \ {y} /\ NULL \notin Linked(tr) /\ y \in Linked(tr) /\ y # NULL /\ c \in Places(tr) /\ c # y
      /\ \A d \in Sides : tr.child[d][y] \in {NULL, c}
  BY <1>a, OneChildFacts, Fields DEF Spliced
<1>2. g \in [M -> Nat] /\ \A m \in M : g[m] = h[m]
  <2>1. h \in [Linked(tr) -> Nat]
    BY DEF Heights
  <2> QED
    BY <1>1, <1>b, <2>1
<1>3. h[y] = Height(h, c) + BlackOf(tr, y) /\ Height(h, y) = h[y] /\ Height(h, c) \in Nat
  <2>1. PICK e \in Sides : tr.child[e][y] = c
    BY DEF OneChild
  <2>2. h[y] = Height(h, c) + Gap(NULL, gs, y, e) + BlackOf(tr, y) /\ Height(h, c) \in Nat
    BY <1>1, <2>1, HeightFacts
  <2>3. Gap(NULL, gs, y, e) = 0 /\ BlackOf(tr, y) \in {0, 1}
    BY <1>1, GapBit, BlackBit
  <2>4. Height(h, y) = h[y]
    BY <1>1 DEF Height
  <2> QED
    BY <2>2, <2>3, <2>4
<1>4. ASSUME NEW m \in M, NEW d \in Sides
      PROVE  g[m] = Height(g, u.child[d][m]) + Gap(gn, rs, m, d) + BlackOf(u, m)
  <2>0. PICK z : z = tr.child[d][m]
    OBVIOUS
  <2>1. m \in Linked(tr) /\ m # NULL /\ m # y
    BY <1>1
  <2>2. h[m] = Height(h, z) + Gap(NULL, gs, m, d) + BlackOf(tr, m) /\ Height(h, z) \in Nat /\ z \in Places(tr)
    BY <2>0, <2>1, HeightFacts
  <2>3. Gap(NULL, gs, m, d) = 0 /\ BlackOf(tr, m) \in {0, 1} /\ Gap(gn, rs, m, d) \in {0, 1}
    BY <2>1, GapBit, BlackBit
  <2>4. BlackOf(u, m) = BlackOf(tr, m)
    BY <1>a DEF BlackOf, Spliced
  <2>5. CASE z = y
    <3>1. u.child[d][m] = c
      BY <1>a, <2>0, <2>5 DEF Spliced
    <3>2. Height(g, c) = Height(h, c)
      BY <1>1, <1>2 DEF Height, Places
    <3>3. p = m /\ p # NULL
      <4>1. z # NULL /\ z = tr.child[d][m]
        BY <1>1, <2>0, <2>5
      <4>2. tr.parent[z] = m
        BY <2>1, <4>1, ChildIs
      <4> QED
        BY <2>1, <2>5, <4>2 DEF OneChild
    <3>4. CASE tr.color[y] = "black"
      <4>1. gn = m /\ rs \in Sides /\ tr.child[rs][m] = y
        BY <3>3, <3>4
      <4>2. rs = d
        <5>1. z = tr.child[d][m] /\ z # NULL /\ tr.child[rs][m] = z
          BY <1>1, <2>0, <2>5, <4>1
        <5> QED
          BY <2>1, <4>1, <5>1, ChildOnce
      <4>3. Gap(gn, rs, m, d) = 1 /\ BlackOf(tr, y) = 1
        BY <3>4, <4>1, <4>2, GapBit, BlackBit
      <4> QED
        BY <1>2, <1>3, <2>2, <2>3, <2>4, <2>5, <3>1, <3>2, <4>3
    <3>5. CASE tr.color[y] = "red"
      <4>1. gn = NULL
        BY <3>5
      <4>2. Gap(gn, rs, m, d) = 0 /\ BlackOf(tr, y) = 0
        BY <2>1, <3>5, <4>1, GapBit, BlackBit
      <4> QED
        BY <1>2, <1>3, <2>2, <2>3, <2>4, <2>5, <3>1, <3>2, <4>2
    <3> QED
      BY <1>1, <3>4, <3>5, Fields
  <2>6. CASE z # y
    <3>1. u.child[d][m] = z
      BY <1>a, <2>0, <2>6 DEF Spliced
    <3>2. Height(g, z) = Height(h, z)
      BY <1>1, <1>2, <2>2, <2>6 DEF Height, Places
    <3>3. Gap(gn, rs, m, d) = 0
      <4>1. m = gn /\ d = rs => z = y
        BY <1>1, <2>0, <2>1, Fields
      <4> QED
        BY <2>6, <4>1, GapBit
    <3> QED
      BY <1>2, <2>2, <2>3, <2>4, <3>1, <3>2, <3>3
  <2> QED
    BY <2>5, <2>6
<1> QED
  BY <1>2, <1>4, <1>a DEF Heights

\* It has no red node with a red parent but that child.
LEMMA SplicedRed ==
  ASSUME NEW tr, NEW sub, Tree(tr, sub), RedRule(tr, "idle", NULL), NEW y, NEW c, NEW p,
         OneChild(tr, y, c, p), NEW u, Spliced(tr, u, y, c, p)
  PROVE  /\ RedRule(u, "remove_color", c)
         /\ tr.color[y] = "red" => RedRule(u, "idle", NULL)
<1>1. /\ Linked(u) = Linked(tr) \ {y} /\ NULL \notin Linked(tr) /\ y \in Linked(tr) /\ y # NULL /\ c \in Places(tr) /\ c # y
      /\ (c # NULL => c \in Linked(tr) /\ c # tr.root /\ tr.parent[c] = y)
  BY OneChildFacts, Fields DEF Spliced
<1>2. StrictRed(tr)
  <2>1. ASSUME NEW n \in Linked(tr), IsRed(tr, n) PROVE n # tr.root /\ ~IsRed(tr, tr.parent[n])
    BY <1>1, <2>1 DEF RedRule
  <2> QED
    BY <2>1 DEF StrictRed
<1>3. ASSUME NEW m \in Linked(u), IsRed(u, m), m = u.root \/ IsRed(u, u.parent[m]) PROVE m = c
  <2>1. SUFFICES ASSUME m # c PROVE FALSE
    OBVIOUS
  <2>2. m \in Linked(tr) /\ m # y /\ u.parent[m] = tr.parent[m] /\ u.color[m] = tr.color[m]
    BY <1>1, <2>1 DEF Spliced
  <2>3. IsRed(tr, m)
    BY <1>3, <2>2 DEF IsRed
  <2>4. m # tr.root /\ ~IsRed(tr, tr.parent[m])
    BY <1>2, <2>2, <2>3 DEF StrictRed
  <2>5. m # u.root
    BY <1>1, <2>1, <2>4 DEF Spliced
  <2>6. PICK x : x = tr.parent[m]
    OBVIOUS
  <2>7. IsRed(u, x) /\ ~IsRed(tr, x) /\ x \in Places(tr)
    BY <1>3, <2>2, <2>4, <2>5, <2>6, Fields
  <2>8. x # y
    <3>1. SUFFICES ASSUME x = y PROVE FALSE
      OBVIOUS
    <3>2. PICK d : d = Side(tr, y, m)
      OBVIOUS
    <3>3. m \in Linked(tr) /\ y = tr.parent[m] /\ y # NULL
      BY <1>1, <2>2, <2>6, <3>1
    <3>4. d \in Sides /\ tr.child[d][y] = m
      BY <3>2, <3>3, SideIs
    <3>5. tr.child[d][y] \in {NULL, c}
      BY <3>4, OneChildFacts
    <3> QED
      BY <1>1, <2>1, <2>2, <3>4, <3>5
  <2>9. x \in Linked(u)
    BY <1>1, <2>7, <2>8 DEF IsRed, Places
  <2>10. u.color[x] = tr.color[x]
    BY <2>9 DEF Spliced
  <2> QED
    BY <2>7, <2>10 DEF IsRed
<1>4. RedRule(u, "remove_color", c)
  BY <1>3 DEF RedRule
<1>5. ASSUME tr.color[y] = "red" PROVE RedRule(u, "idle", NULL)
  <2>0. IsRed(tr, y) /\ y # tr.root /\ ~IsRed(tr, tr.parent[y])
    BY <1>1, <1>2, <1>5 DEF IsRed, StrictRed
  <2>1. ~IsRed(tr, c)
    <3>1. PICK d \in Sides : tr.child[d][y] = c
      BY DEF OneChild
    <3> QED
      BY <1>1, <1>2, <1>5, <3>1, StrictChild
  <2>2. c \in Linked(u) => ~IsRed(u, c)
    BY <2>1 DEF IsRed, Spliced
  <2> QED
    BY <1>3, <2>2 DEF RedRule
<1> QED
  BY <1>4, <1>5

\* The colour of the node that left its place decides whether there is a shortage.
AfterRemove(color, q, c, p) ==
    IF color = "black" THEN \E r, g : TreeInv(q, "remove_color", c, p, r, g)
                       ELSE \E r, g : TreeInv(q, "idle", NULL, NULL, r, g)

\* Taking out a node with at most one child keeps the invariant.
LEMMA SplicedKeeps ==
  ASSUME NEW tr, NEW sub, NEW h, TreeInv(tr, "idle", NULL, NULL, sub, h), NEW y, NEW c, NEW p,
         OneChild(tr, y, c, p), NEW u, Spliced(tr, u, y, c, p)
  PROVE  /\ tr.color[y] \in Colors
         /\ tr.color[y] = "black" => \E g : TreeInv(u, "remove_color", c, p, SplicedSub(sub, y, Linked(u)), g)
         /\ tr.color[y] = "red" => \E g : TreeInv(u, "idle", NULL, NULL, SplicedSub(sub, y, Linked(u)), g)
<1>a. PICK gs : gs = GapSide(tr, NULL, NULL)
  OBVIOUS
<1>1. Tree(tr, sub) /\ Heights(tr, h, NULL, gs) /\ RedRule(tr, "idle", NULL)
  BY <1>a DEF TreeInv, GapNode
<1>2. /\ y \in Linked(tr) /\ y # NULL /\ c \in Places(tr) /\ c # y /\ p \in Places(tr) /\ p # y
      /\ (c # NULL => c \in Linked(tr) /\ c # tr.root /\ tr.parent[c] = y) /\ (p = NULL <=> y = tr.root)
      /\ (p # NULL => p \in Linked(tr)) /\ NULL \notin Linked(tr) /\ Linked(u) = Linked(tr) \ {y}
      /\ tr.color[y] \in Colors /\ u.root = IF tr.root = y THEN c ELSE tr.root
  BY <1>1, OneChildFacts, Fields DEF Spliced, Colors
<1>3. PICK r : r = SplicedSub(sub, y, Linked(u)) /\ Tree(u, r)
  BY <1>1, SplicedTree
<1>4. ASSUME tr.color[y] = "black" PROVE \E g : TreeInv(u, "remove_color", c, p, r, g)
  <2>1. RedRule(u, "remove_color", c)
    BY <1>1, SplicedRed
  <2>2. c = u.root <=> p = NULL
    <3>1. p # NULL => tr.root \in Linked(tr)
      BY <1>1, <1>2, Fields
    <3> QED
      BY <1>2, <3>1
  <2>3. PICK gn, rs : gn = GapNode(u, "remove_color", c, p) /\ rs = GapSide(u, c, p)
    OBVIOUS
  <2>4. gn = p
    BY <2>2, <2>3 DEF GapNode
  <2>5. ASSUME p # NULL PROVE rs \in Sides /\ tr.child[rs][p] = y /\ u.child[rs][p] = c /\ p \in Linked(u)
    <3>1. PICK d : d = Side(tr, p, y)
      OBVIOUS
    <3>2. p = tr.parent[y]
      BY DEF OneChild
    <3>3. d \in Sides /\ tr.child[d][p] = y
      BY <1>1, <1>2, <2>5, <3>1, <3>2, SideIs
    <3>4. Side(u, p, c) = d /\ u.child[d][p] = c
      BY <1>1, <1>4, <2>5, <3>3, SplicedSide
    <3> QED
      BY <1>2, <2>3, <2>5, <3>3, <3>4 DEF GapSide
  <2>6. PICK g : Heights(u, g, gn, rs)
    <3>1. tr.color[y] = "black" /\ p # NULL => gn = p /\ rs \in Sides /\ tr.child[rs][p] = y
      BY <2>4, <2>5
    <3>2. tr.color[y] = "red" \/ p = NULL => gn = NULL
      BY <1>4, <2>4
    <3> QED
      BY <1>1, <3>1, <3>2, SplicedHeights
  <2>7. OpShape(u, "remove_color", c, p)
    <3>1. c \in Places(u) /\ p \in Places(u)
      BY <1>2 DEF Places
    <3> QED
      BY <2>2, <2>3, <2>5, <3>1 DEF OpShape
  <2> QED
    BY <1>3, <2>1, <2>3, <2>6, <2>7 DEF TreeInv
<1>5. ASSUME tr.color[y] = "red" PROVE \E g : TreeInv(u, "idle", NULL, NULL, r, g)
  <2>1. RedRule(u, "idle", NULL)
    BY <1>1, <1>5, SplicedRed
  <2>2. PICK g : Heights(u, g, NULL, GapSide(u, NULL, NULL))
    <3>1. ~(tr.color[y] = "black")
      BY <1>5
    <3> QED
      BY <1>1, <3>1, SplicedHeights
  <2>3. OpShape(u, "idle", NULL, NULL) /\ GapNode(u, "idle", NULL, NULL) = NULL
    BY DEF OpShape, GapNode
  <2> QED
    BY <1>3, <2>1, <2>2, <2>3 DEF TreeInv
<1> QED
  BY <1>2, <1>3, <1>4, <1>5

\* Where no black node is missing, the side it could be missing on says nothing.
LEMMA AnySide ==
  ASSUME NEW tr, NEW sub, Tree(tr, sub), NEW h, NEW gs, Heights(tr, h, NULL, gs), NEW rs
  PROVE  Heights(tr, h, NULL, rs)
<1>1. ASSUME NEW n \in Linked(tr), NEW s \in Sides
      PROVE  h[n] = Height(h, tr.child[s][n]) + Gap(NULL, rs, n, s) + BlackOf(tr, n)
  <2>1. h[n] = Height(h, tr.child[s][n]) + Gap(NULL, gs, n, s) + BlackOf(tr, n)
    BY DEF Heights
  <2>2. Gap(NULL, gs, n, s) = 0 /\ Gap(NULL, rs, n, s) = 0
    BY Fields, GapBit
  <2> QED
    BY <2>1, <2>2
<1> QED
  BY <1>1 DEF Heights

-----------------------------------------------------------------------------
(* RB_REMOVE: a node takes the place of another.                           *)

\* What a pointer is after y took the place of old.
As(old, y, m) == IF m = old THEN y ELSE m

\* q is u with y in the place of old.
Renamed(u, q, old, y) ==
    /\ q = [root |-> q.root, child |-> q.child, parent |-> q.parent, color |-> q.color]
    /\ Linked(q) = {As(old, y, m) : m \in Linked(u)}
    /\ q.root = As(old, y, u.root)
    /\ q.child \in [Sides -> [Linked(q) -> Pointers]]
    /\ q.parent \in [Linked(q) -> Pointers]
    /\ q.color \in [Linked(q) -> Colors]
    /\ \A m \in Linked(u), d \in Sides : q.child[d][As(old, y, m)] = As(old, y, u.child[d][m])
    /\ \A m \in Linked(u) : q.parent[As(old, y, m)] = As(old, y, u.parent[m])
    /\ \A m \in Linked(u) : q.color[As(old, y, m)] = u.color[m]

\* q is t with y in the place of old, whose fields stay.
Taken(t, q, old, y, L) ==
    /\ Linked(q) = L
    /\ q.root = As(old, y, t.root)
    /\ q.child \in [Sides -> [L -> L \cup {NULL}]]
    /\ q.parent \in [L -> L \cup {NULL}]
    /\ q.color \in [L -> Colors]
    /\ \A m \in L \ {old, y}, d \in Sides : q.child[d][m] = As(old, y, t.child[d][m])
    /\ \A d \in Sides : q.child[d][y] = t.child[d][old]
    /\ \A m \in L \ {old, y} : q.parent[m] = As(old, y, t.parent[m])
    /\ q.parent[y] = t.parent[old]
    /\ \A m \in L \ {old, y} : q.color[m] = t.color[m]
    /\ q.color[y] = t.color[old]

\* What TakePlace does to each field.
LEMMA TakePlaceFields ==
  ASSUME NEW L, NEW P, P = L \cup {NULL}, NULL \notin L, NEW t,
         t = [root |-> t.root, child |-> t.child, parent |-> t.parent, color |-> t.color],
         t.child \in [Sides -> [L -> P]], t.parent \in [L -> P], t.color \in [L -> Colors],
         NEW y \in L, NEW old \in L, old # y, t.root # y,
         NEW u, Cut(t, u, y, L), NEW r, Tree(u, r),
         NEW v, v = TakePlace(t, old, y)
  PROVE  Taken(t, v, old, y, L)
<1>a. PICK po : po = t.parent[old]
  OBVIOUS
<1>b. PICK c1, f1, k1 : /\ c1 = [s \in Sides |-> [t.child[s] EXCEPT ![y] = t.child[s][old]]]
                        /\ f1 = [t.parent EXCEPT ![y] = po] /\ k1 = [t.color EXCEPT ![y] = t.color[old]]
  OBVIOUS
<1>c. PICK t1 : t1 = [root |-> t.root, child |-> c1, parent |-> f1, color |-> k1]
  OBVIOUS
<1>0. /\ Linked(u) = L \ {y} /\ old \in Linked(u) /\ y # NULL /\ old # NULL /\ u.root = t.root
      /\ \A m \in L \ {y}, d \in Sides : u.child[d][m] = t.child[d][m]
      /\ \A m \in L \ {y} : u.parent[m] = t.parent[m]
      /\ u.parent[old] = po
  BY <1>a DEF Cut
<1>1. c1 \in [Sides -> [L -> P]] /\ \A d \in Sides, m \in L : c1[d][m] = IF m = y THEN t.child[d][old] ELSE t.child[d][m]
  BY <1>b
<1>2. po \in P /\ f1 \in [L -> P] /\ \A m \in L : f1[m] = IF m = y THEN po ELSE t.parent[m]
  BY <1>a, <1>b
<1>3. k1 \in [L -> Colors] /\ \A m \in L : k1[m] = IF m = y THEN t.color[old] ELSE t.color[m]
  BY <1>b
<1>4. PICK t2 : t2 = Replace(t1, po, old, y)
  OBVIOUS
<1>5. v = SetParent(SetParent(t2, t2.child["left"][old], y), t2.child["right"][old], y)
  <2>1. t1 = [t EXCEPT !.child = [s \in Sides |-> [@[s] EXCEPT ![y] = t.child[s][old]]],
                       !.parent[y] = t.parent[old], !.color[y] = t.color[old]]
    <3>1. [t EXCEPT !.child = [s \in Sides |-> [@[s] EXCEPT ![y] = t.child[s][old]]],
                    !.parent[y] = t.parent[old], !.color[y] = t.color[old]]
          = [t EXCEPT !.child = c1, !.parent = f1, !.color = k1]
      BY <1>a, <1>b
    <3>2. PICK a, b, c, d : a = t.root /\ b = t.child /\ c = t.parent /\ d = t.color
      OBVIOUS
    <3>3. t = [root |-> a, child |-> b, parent |-> c, color |-> d]
      BY <3>2
    <3>4. [t EXCEPT !.child = c1, !.parent = f1, !.color = k1] = [root |-> a, child |-> c1, parent |-> f1, color |-> k1]
      <4>1. PICK u1 : u1 = [root |-> a, child |-> c1, parent |-> c, color |-> d]
        OBVIOUS
      <4>2. PICK u2 : u2 = [root |-> a, child |-> c1, parent |-> f1, color |-> d]
        OBVIOUS
      <4>3. u1 = [t EXCEPT !.child = c1]
        BY <3>3, <4>1
      <4>4. u2 = [u1 EXCEPT !.parent = f1]
        BY <4>1, <4>2
      <4>5. [u2 EXCEPT !.color = k1] = [root |-> a, child |-> c1, parent |-> f1, color |-> k1]
        BY <4>2
      <4>6. [t EXCEPT !.child = c1, !.parent = f1, !.color = k1] = [[[t EXCEPT !.child = c1] EXCEPT !.parent = f1] EXCEPT !.color = k1]
        OBVIOUS
      <4> QED
        BY <4>3, <4>4, <4>5, <4>6
    <3> QED
      BY <1>c, <3>1, <3>2, <3>4
  <2> QED
    BY <1>4, <1>a, <2>1 DEF TakePlace
<1>6. PICK c2 : /\ t2 = [root |-> As(old, y, t.root), child |-> c2, parent |-> f1, color |-> k1]
                /\ c2 \in [Sides -> [L -> P]]
                /\ \A d \in Sides, m \in L : c2[d][m] = IF m = y THEN t.child[d][old] ELSE As(old, y, t.child[d][m])
  <2>0. u.parent[old] = NULL <=> old = u.root
    BY <1>0, Fields
  <2>1. CASE po = NULL
    <3>1. old = t.root
      BY <1>0, <2>0, <2>1
    <3>2. t2 = [root |-> y, child |-> c1, parent |-> f1, color |-> k1]
      BY <1>4, <1>c, <2>1 DEF Replace
    <3>3. \A m \in L \ {y}, d \in Sides : t.child[d][m] # old
      <4>1. ASSUME NEW m \in L \ {y}, NEW d \in Sides, u.child[d][m] = old PROVE FALSE
        <5>1. m \in Linked(u) /\ old = u.child[d][m] /\ old # NULL
          BY <1>0, <4>1
        <5>2. old # u.root
          BY <5>1, ChildIs
        <5> QED
          BY <1>0, <3>1, <5>2
      <4> QED
        BY <1>0, <4>1
    <3>4. \A d \in Sides, m \in L : c1[d][m] = IF m = y THEN t.child[d][old] ELSE As(old, y, t.child[d][m])
      BY <1>1, <3>3 DEF As
    <3>5. /\ t2 = [root |-> As(old, y, t.root), child |-> c1, parent |-> f1, color |-> k1]
          /\ c1 \in [Sides -> [L -> P]]
          /\ \A d \in Sides, m \in L : c1[d][m] = IF m = y THEN t.child[d][old] ELSE As(old, y, t.child[d][m])
      <4>1. As(old, y, t.root) = y
        BY <3>1 DEF As
      <4> QED
        BY <1>1, <3>2, <3>4, <4>1
    <3> QED
      BY <3>5
  <2>2. CASE po # NULL
    <3>1. old # t.root
      BY <1>0, <2>0, <2>2
    <3>2. PICK s : s = Side(u, po, old)
      OBVIOUS
    <3>a. po = u.parent[old] /\ old \in Linked(u)
      BY <1>0
    <3>3. po \in Linked(u) /\ po # old /\ s \in Sides /\ u.child[s][po] = old
      BY <2>2, <3>2, <3>a, SideIs
    <3>4. po \in L /\ po # y
      BY <1>0, <3>3
    <3>5. Side(t1, po, old) = s
      <4>1. t1.child["left"][po] = u.child["left"][po]
        BY <1>0, <1>1, <1>c, <3>4 DEF Sides
      <4> QED
        BY <3>2, <4>1 DEF Side
    <3>6. PICK c2 : c2 = [c1 EXCEPT ![s][po] = y]
      OBVIOUS
    <3>7. t2 = [root |-> t.root, child |-> c2, parent |-> f1, color |-> k1]
      <4>1. t2 = [t1 EXCEPT !.child[s][po] = y]
        BY <1>4, <2>2, <3>5 DEF Replace
      <4>2. t2 = [t1 EXCEPT !.child = [t1.child EXCEPT ![s][po] = y]]
        BY <1>c, <4>1
      <4> QED
        BY <1>c, <3>6, <4>2
    <3>8. c2 \in [Sides -> [L -> P]] /\ \A e \in Sides, m \in L : c2[e][m] = IF e = s /\ m = po THEN y ELSE c1[e][m]
      BY <1>1, <3>3, <3>4, <3>6, ChildUpdate
    <3>9. \A m \in L \ {y}, d \in Sides : t.child[d][m] = old <=> m = po /\ d = s
      <4>1. \A m \in Linked(u), d \in Sides : u.child[d][m] = old => m = po /\ d = s
        BY <1>0, <3>3, ChildOnce
      <4> QED
        BY <1>0, <3>3, <4>1
    <3>10. \A d \in Sides, m \in L : c2[d][m] = IF m = y THEN t.child[d][old] ELSE As(old, y, t.child[d][m])
      BY <1>1, <3>4, <3>8, <3>9 DEF As
    <3>11. As(old, y, t.root) = t.root
      BY <3>1 DEF As
    <3>12. /\ t2 = [root |-> As(old, y, t.root), child |-> c2, parent |-> f1, color |-> k1]
           /\ c2 \in [Sides -> [L -> P]]
           /\ \A d \in Sides, m \in L : c2[d][m] = IF m = y THEN t.child[d][old] ELSE As(old, y, t.child[d][m])
      BY <3>7, <3>8, <3>10, <3>11
    <3> QED
      BY <3>12
  <2> QED
    BY <2>1, <2>2
<1>7. PICK a, b : a = t.child["left"][old] /\ b = t.child["right"][old]
  OBVIOUS
<1>8. /\ t2.child["left"][old] = a /\ t2.child["right"][old] = b /\ a \in P /\ b \in P
      /\ \A m \in L \ {y} : t.parent[m] = old <=> m = a \/ m = b
      /\ a # old /\ b # old /\ a # y /\ b # y
  <2>0. "left" \in Sides /\ "right" \in Sides
    BY DEF Sides
  <2>1. u.child["left"][old] = a /\ u.child["right"][old] = b
    BY <1>0, <1>7, <2>0
  <2>2. a \in Places(u) /\ b \in Places(u)
    BY <1>0, <2>0, <2>1, Fields
  <2>3. a \in P /\ b \in P /\ a # y /\ b # y
    BY <1>0, <2>2 DEF Places
  <2>4. (a # NULL => a # old /\ u.parent[a] = old) /\ (b # NULL => b # old /\ u.parent[b] = old)
    BY <1>0, <2>0, <2>1, ChildIs
  <2>5. \A m \in L \ {y} : t.parent[m] = old => m = a \/ m = b
    <3>1. ASSUME NEW m \in L \ {y}, t.parent[m] = old PROVE m = a \/ m = b
      <4>1. m \in Linked(u) /\ old = u.parent[m] /\ old # NULL
        BY <1>0, <3>1
      <4>2. PICK d : d = Side(u, old, m)
        OBVIOUS
      <4>3. d \in Sides /\ u.child[d][old] = m
        BY <4>1, <4>2, SideIs
      <4> QED
        BY <2>1, <4>3 DEF Sides
    <3> QED
      BY <3>1
  <2>6. \A m \in L \ {y} : m = a \/ m = b => t.parent[m] = old
    BY <1>0, <2>4
  <2>7. c2["left"][old] = As(old, y, a) /\ c2["right"][old] = As(old, y, b)
    BY <1>6, <1>7, <2>0
  <2>8. As(old, y, a) = a /\ As(old, y, b) = b
    BY <1>0, <2>4 DEF As
  <2> QED
    BY <1>0, <1>6, <2>3, <2>4, <2>5, <2>6, <2>7, <2>8
<1>9. PICK f2, f3 : /\ f2 = (IF a = NULL THEN f1 ELSE [f1 EXCEPT ![a] = y])
                    /\ f3 = (IF b = NULL THEN f2 ELSE [f2 EXCEPT ![b] = y])
  OBVIOUS
<1>10. f2 \in [L -> P] /\ \A m \in L : f2[m] = IF m = a THEN y ELSE f1[m]
  BY <1>2, <1>8, <1>9, ParentUpdate
<1>11. f3 \in [L -> P] /\ \A m \in L : f3[m] = IF m = b THEN y ELSE f2[m]
  <2>1. f2 \in [L -> P] /\ b \in L \cup {NULL} /\ y \in P
    BY <1>8, <1>10
  <2> QED
    BY <1>9, <2>1, ParentUpdate
<1>12. v = [root |-> As(old, y, t.root), child |-> c2, parent |-> f3, color |-> k1]
  <2>1. PICK t3 : t3 = SetParent(t2, a, y)
    OBVIOUS
  <2>2. t3 = [root |-> As(old, y, t.root), child |-> c2, parent |-> f2, color |-> k1]
    BY <1>6, <1>9, <2>1 DEF SetParent
  <2>3. v = SetParent(t3, b, y)
    BY <1>5, <1>8, <2>1
  <2> QED
    BY <1>9, <2>2, <2>3 DEF SetParent
<1>13. v.root = As(old, y, t.root) /\ v.child = c2 /\ v.parent = f3 /\ v.color = k1
  BY <1>12
<1>14. Linked(v) = L
  BY <1>3, <1>13 DEF Linked
<1>15. (\A m \in L \ {old, y} : v.parent[m] = As(old, y, t.parent[m])) /\ v.parent[y] = t.parent[old]
  BY <1>2, <1>8, <1>10, <1>11, <1>13, <1>a DEF As
<1>16. /\ \A m \in L \ {old, y}, d \in Sides : v.child[d][m] = As(old, y, t.child[d][m])
       /\ \A d \in Sides : v.child[d][y] = t.child[d][old]
  BY <1>6, <1>13
<1>17. (\A m \in L \ {old, y} : v.color[m] = t.color[m]) /\ v.color[y] = t.color[old]
  BY <1>3, <1>13
<1>18. v.child \in [Sides -> [L -> L \cup {NULL}]] /\ v.parent \in [L -> L \cup {NULL}] /\ v.color \in [L -> Colors]
  BY <1>3, <1>6, <1>11, <1>13
<1> QED
  BY <1>13, <1>14, <1>15, <1>16, <1>17, <1>18 DEF Taken

\* A renamed tree has the old one's fields under the new name.
LEMMA RenamedFields ==
  ASSUME NEW L, NULL \notin L, NEW t, NEW y \in L, NEW old \in L, old # y, L \subseteq Nodes,
         NEW u, Cut(t, u, y, L), NEW r, Tree(u, r), NEW v, Taken(t, v, old, y, L), NEW q, Cut(v, q, old, L)
  PROVE  Renamed(u, q, old, y)
<1>0. /\ Linked(u) = L \ {y} /\ old \in Linked(u) /\ Linked(q) = L \ {old} /\ y \in Linked(q) /\ old # NULL
      /\ u.root = t.root
      /\ \A m \in L \ {y}, d \in Sides : u.child[d][m] = t.child[d][m]
      /\ \A m \in L \ {y} : u.parent[m] = t.parent[m] /\ u.color[m] = t.color[m]
      /\ \A m \in L \ {old}, d \in Sides : q.child[d][m] = v.child[d][m]
      /\ \A m \in L \ {old} : q.parent[m] = v.parent[m] /\ q.color[m] = v.color[m]
  BY DEF Cut
<1>1. ASSUME NEW m \in Linked(u), NEW d \in Sides PROVE q.child[d][As(old, y, m)] = As(old, y, u.child[d][m])
  <2>1. CASE m = old
    <3>1. q.child[d][y] = u.child[d][old]
      BY <1>0 DEF Taken
    <3>2. u.child[d][old] # old
      <4>1. u.child[d][old] # NULL => u.child[d][old] # old
        BY <1>0, ChildIs
      <4> QED
        BY <1>0, <4>1
    <3> QED
      BY <2>1, <3>1, <3>2 DEF As
  <2>2. CASE m # old
    <3>1. m \in L \ {old, y}
      BY <1>0, <2>2
    <3>2. v.child[d][m] = As(old, y, t.child[d][m])
      BY <3>1 DEF Taken
    <3>3. As(old, y, m) = m
      BY <2>2 DEF As
    <3>4. q.child[d][m] = v.child[d][m] /\ u.child[d][m] = t.child[d][m]
      BY <1>0, <3>1
    <3> QED
      BY <3>2, <3>3, <3>4
  <2> QED
    BY <2>1, <2>2
<1>2. ASSUME NEW m \in Linked(u)
      PROVE  q.parent[As(old, y, m)] = As(old, y, u.parent[m]) /\ q.color[As(old, y, m)] = u.color[m]
  <2>1. CASE m = old
    <3>1. q.parent[y] = u.parent[old] /\ q.color[y] = u.color[old]
      BY <1>0 DEF Taken
    <3>2. u.parent[old] # old
      <4>1. u.parent[old] # NULL => u.parent[old] # old
        BY <1>0, SideIs
      <4> QED
        BY <1>0, <4>1
    <3> QED
      BY <2>1, <3>1, <3>2 DEF As
  <2>2. CASE m # old
    <3>1. m \in L \ {old, y}
      BY <1>0, <2>2
    <3>2. v.parent[m] = As(old, y, t.parent[m]) /\ v.color[m] = t.color[m]
      BY <3>1 DEF Taken
    <3>3. As(old, y, m) = m
      BY <2>2 DEF As
    <3>4. q.parent[m] = v.parent[m] /\ u.parent[m] = t.parent[m] /\ q.color[m] = v.color[m] /\ u.color[m] = t.color[m]
      BY <1>0, <3>1
    <3> QED
      BY <3>2, <3>3, <3>4
  <2> QED
    BY <2>1, <2>2
<1>3. Linked(q) = {As(old, y, m) : m \in Linked(u)}
  BY <1>0 DEF As
<1>4. q.root = As(old, y, u.root)
  BY <1>0 DEF Cut, Taken
<1>5. /\ q = [root |-> q.root, child |-> q.child, parent |-> q.parent, color |-> q.color]
      /\ q.child \in [Sides -> [Linked(q) -> Pointers]] /\ q.parent \in [Linked(q) -> Pointers]
      /\ q.color \in [Linked(q) -> Colors]
  BY DEF Cut
<1> QED
  BY <1>1, <1>2, <1>3, <1>4, <1>5 DEF Renamed

\* y fits in the place of old.
Fits(u, r, old, y) ==
    /\ old \in Linked(u) /\ y \in Nodes /\ y \notin Linked(u)
    /\ \A m \in Linked(u), d \in Sides : old \in Sub(r, u.child[d][m]) => Before(d, y, m)
    /\ \A d \in Sides : \A m \in Sub(r, u.child[d][old]) : Before(d, m, y)

\* The nodes below each node then.
RenamedSub(r, old, y, M) == [m \in M |-> {As(old, y, x) : x \in r[As(y, old, m)]}]

\* Renaming and renaming back.
LEMMA AsFacts ==
  ASSUME NEW L, NEW old \in L, NEW y, y \notin L, y # NULL, NULL \notin L
  PROVE  /\ \A a, b \in L \cup {NULL} : As(old, y, a) = As(old, y, b) <=> a = b
         /\ As(old, y, NULL) = NULL
         /\ \A a \in L \cup {NULL} : As(old, y, a) = NULL <=> a = NULL
         /\ \A a \in L : As(y, old, As(old, y, a)) = a
  BY DEF As

\* A renamed tree is a search tree if the new node fits in the old one's place.
LEMMA RenamedTree ==
  ASSUME NEW u, NEW r, Tree(u, r), NEW old, NEW y, Fits(u, r, old, y), NEW q, Renamed(u, q, old, y)
  PROVE  Tree(q, RenamedSub(r, old, y, Linked(q)))
<1> DEFINE R(m) == As(old, y, m)
<1>a. PICK L, M, e : L = Linked(u) /\ M = Linked(q) /\ e = RenamedSub(r, old, y, M)
  OBVIOUS
<1>0. NULL \notin L /\ old \in L /\ y \notin L /\ y # NULL /\ y \in Nodes /\ L \subseteq Nodes /\ IsFiniteSet(L)
  BY <1>a, Fields, NULLAssumption DEF Fits, Tree, Shaped
<1>1. /\ M = {R(m) : m \in L}
      /\ \A a, b \in L \cup {NULL} : R(a) = R(b) <=> a = b
      /\ R(NULL) = NULL /\ \A a \in L \cup {NULL} : R(a) = NULL <=> a = NULL
      /\ \A a \in L : As(y, old, R(a)) = a
  BY <1>0, <1>a, AsFacts DEF Renamed
<1>2. /\ \A m \in L, d \in Sides : q.child[d][R(m)] = R(u.child[d][m])
      /\ \A m \in L : q.parent[R(m)] = R(u.parent[m])
      /\ q.root = R(u.root)
  BY <1>a DEF Renamed
<1>3. /\ \A m \in L, d \in Sides : u.child[d][m] \in L \cup {NULL}
      /\ \A m \in L : u.parent[m] \in L \cup {NULL} /\ (u.parent[m] = NULL <=> m = u.root)
      /\ u.root \in L \cup {NULL}
  BY <1>a, Fields DEF Places
<1>4. NULL \notin M /\ Places(q) = M \cup {NULL} /\ M \subseteq Nodes /\ IsFiniteSet(M)
  <2>1. NULL \notin M
    BY <1>0, <1>1
  <2>2. M \subseteq L \cup {y}
    BY <1>1 DEF As
  <2>3. IsFiniteSet(L \cup {y})
    BY <1>0, FS_AddElement
  <2> QED
    BY <1>0, <1>a, <2>1, <2>2, <2>3, FS_Subset DEF Places
<1>5. \A a \in L \cup {NULL} : R(a) \in M \cup {NULL}
  BY <1>1
<1> HIDE DEF R
<1>6. Shaped(q)
  <2>1. ASSUME NEW d \in Sides PROVE q.child[d] \in [M -> M \cup {NULL}]
    <3>1. q.child[d] \in [M -> Pointers]
      BY <1>a DEF Renamed
    <3>2. \A m \in M : q.child[d][m] \in M \cup {NULL}
      BY <1>1, <1>2, <1>3, <1>5
    <3> QED
      BY <3>1, <3>2
  <2>2. q.child \in [Sides -> [M -> M \cup {NULL}]]
    <3>1. q.child = [d \in Sides |-> q.child[d]]
      BY DEF Renamed
    <3> QED
      BY <2>1, <3>1
  <2>3. q.parent \in [M -> M \cup {NULL}]
    <3>1. q.parent \in [M -> Pointers]
      BY <1>a DEF Renamed
    <3>2. \A m \in M : q.parent[m] \in M \cup {NULL}
      BY <1>1, <1>2, <1>3, <1>5
    <3> QED
      BY <3>1, <3>2
  <2>4. q.root \in M \cup {NULL}
    BY <1>2, <1>3, <1>5
  <2>5. q = [root |-> q.root, child |-> q.child, parent |-> q.parent, color |-> q.color] /\ q.color \in [M -> {"red", "black"}]
    BY <1>a DEF Renamed, Colors
  <2> QED
    BY <1>4, <1>a, <2>2, <2>3, <2>4, <2>5 DEF Shaped
<1>7. LinkedUp(q)
  <2>1. \A m \in L : q.parent[R(m)] = NULL <=> R(m) = q.root
    BY <1>1, <1>2, <1>3
  <2>2. ASSUME NEW m \in L, NEW d \in Sides, q.child[d][R(m)] # NULL PROVE q.parent[q.child[d][R(m)]] = R(m)
    <3>1. PICK x : x = u.child[d][m]
      OBVIOUS
    <3>2. x # NULL /\ x \in L /\ m \in Linked(u)
      BY <1>1, <1>2, <1>3, <1>a, <2>2, <3>1
    <3>3. u.parent[x] = m
      BY <3>1, <3>2, ChildIs
    <3> QED
      BY <1>2, <3>1, <3>2, <3>3
  <2>3. ASSUME NEW m \in L, q.parent[R(m)] # NULL PROVE \E d \in Sides : q.child[d][q.parent[R(m)]] = R(m)
    <3>1. PICK x : x = u.parent[m]
      OBVIOUS
    <3>2. x # NULL /\ x \in L /\ m \in Linked(u)
      BY <1>1, <1>2, <1>3, <1>a, <2>3, <3>1
    <3>3. PICK d : d = Side(u, x, m)
      OBVIOUS
    <3>4. d \in Sides /\ u.child[d][x] = m
      BY <3>1, <3>2, <3>3, SideIs
    <3> QED
      BY <1>2, <3>1, <3>2, <3>4
  <2>4. \A m \in M : \E x \in L : m = R(x)
    BY <1>1
  <2>5. \A m \in M : q.parent[m] = NULL <=> m = q.root
    BY <2>1, <2>4
  <2>6. \A m \in M, d \in Sides : q.child[d][m] # NULL => q.parent[q.child[d][m]] = m
    BY <2>2, <2>4
  <2>7. \A m \in M : q.parent[m] # NULL => \E d \in Sides : q.child[d][q.parent[m]] = m
    BY <2>3, <2>4
  <2> QED
    BY <1>a, <2>5, <2>6, <2>7 DEF LinkedUp
<1>8. r \in [L -> SUBSET L] /\ Sub(r, u.root) = L
  BY <1>a DEF Tree, Spans
<1>9. e \in [M -> SUBSET M] /\ \A m \in L : e[R(m)] = {R(x) : x \in r[m]}
  <2>1. \A m \in L : R(m) \in M
    BY <1>1
  <2>2. \A m \in M : {As(old, y, x) : x \in r[As(y, old, m)]} \subseteq M
    <3>1. ASSUME NEW m \in L PROVE {As(old, y, x) : x \in r[m]} \subseteq M
      <4>1. r[m] \subseteq L
        BY <1>8
      <4> QED
        BY <2>1, <4>1 DEF R
    <3>2. \A m \in M : As(y, old, m) \in L
      BY <1>1
    <3> QED
      BY <3>1, <3>2
  <2>3. e = [m \in M |-> {As(old, y, x) : x \in r[As(y, old, m)]}]
    BY <1>a DEF RenamedSub
  <2>4. \A m \in L : e[R(m)] = {As(old, y, x) : x \in r[As(y, old, R(m))]}
    BY <2>1, <2>3
  <2>5. \A m \in L : e[R(m)] = {As(old, y, x) : x \in r[m]}
    BY <1>1, <2>4
  <2> QED
    BY <2>2, <2>3, <2>5 DEF R
<1>10. \A a \in L \cup {NULL} : Sub(e, R(a)) = {R(x) : x \in Sub(r, a)}
  <2>1. ASSUME NEW a \in L PROVE Sub(e, R(a)) = {R(x) : x \in Sub(r, a)}
    BY <1>0, <1>1, <1>9, <2>1 DEF Sub
  <2>2. Sub(e, R(NULL)) = {R(x) : x \in Sub(r, NULL)}
    BY <1>1 DEF Sub
  <2> QED
    BY <2>1, <2>2
<1>11. ASSUME NEW m \in L
       PROVE  e[R(m)] = {R(m)} \cup Sub(e, q.child["left"][R(m)]) \cup Sub(e, q.child["right"][R(m)])
  <2>1. PICK a, b : a = u.child["left"][m] /\ b = u.child["right"][m]
    OBVIOUS
  <2>2. "left" \in Sides /\ "right" \in Sides
    BY DEF Sides
  <2>3. a \in L \cup {NULL} /\ b \in L \cup {NULL}
    BY <1>3, <2>1, <2>2
  <2>4. r[m] = {m} \cup Sub(r, a) \cup Sub(r, b)
    BY <1>a, <2>1 DEF Tree, Spans
  <2>5. q.child["left"][R(m)] = R(a) /\ q.child["right"][R(m)] = R(b)
    BY <1>2, <2>1, <2>2
  <2>6. Sub(e, R(a)) = {R(x) : x \in Sub(r, a)} /\ Sub(e, R(b)) = {R(x) : x \in Sub(r, b)}
    BY <1>10, <2>3
  <2>7. e[R(m)] = {R(x) : x \in r[m]}
    BY <1>9
  <2>8. {R(x) : x \in r[m]} = {R(m)} \cup {R(x) : x \in Sub(r, a)} \cup {R(x) : x \in Sub(r, b)}
    BY <2>4
  <2> QED
    BY <2>5, <2>6, <2>7, <2>8
<1>12. ASSUME NEW m \in L, NEW d \in Sides, NEW x \in Sub(r, u.child[d][m]) PROVE Before(d, R(x), R(m))
  <2>1. m \in Linked(u)
    BY <1>a
  <2>2. Before(d, x, m)
    BY <1>12, <2>1, SubSides
  <2>3. CASE x = old
    <3>1. Before(d, y, m)
      BY <1>12, <2>1, <2>3 DEF Fits
    <3>2. m # old
      <4>1. PICK z : z = u.child[d][m]
        OBVIOUS
      <4>2. z # NULL /\ x \in r[z]
        BY <1>12, <4>1 DEF Sub
      <4>3. m \notin r[z]
        BY <2>1, <4>1, <4>2, SubSmaller
      <4> QED
        BY <2>3, <4>2, <4>3
    <3> QED
      BY <2>3, <3>1, <3>2 DEF As, R
  <2>4. CASE m = old
    <3>1. Before(d, x, y)
      BY <1>12, <2>4 DEF Fits
    <3> QED
      BY <2>3, <2>4, <3>1 DEF As, R
  <2>5. CASE x # old /\ m # old
    BY <2>2, <2>5 DEF As, R
  <2> QED
    BY <2>3, <2>4, <2>5
<1>13. \A m \in M, d \in Sides : \A x \in Sub(e, q.child[d][m]) : Before(d, x, m)
  <2>1. SUFFICES ASSUME NEW m \in L, NEW d \in Sides, NEW x \in Sub(e, q.child[d][R(m)]) PROVE Before(d, x, R(m))
    BY <1>1
  <2>2. PICK z : z = u.child[d][m]
    OBVIOUS
  <2>3. z \in L \cup {NULL} /\ q.child[d][R(m)] = R(z)
    BY <1>2, <1>3, <2>2
  <2>4. PICK w \in Sub(r, z) : x = R(w)
    BY <1>10, <2>1, <2>3
  <2> QED
    BY <1>12, <2>2, <2>4
<1>14. \A m \in M : e[m] = {m} \cup Sub(e, q.child["left"][m]) \cup Sub(e, q.child["right"][m])
  BY <1>1, <1>11
<1>15. Sub(e, q.root) = M
  BY <1>1, <1>2, <1>3, <1>8, <1>10
<1>16. Spans(q, e)
  BY <1>9, <1>13, <1>14, <1>15, <1>a DEF Spans
<1> QED
  BY <1>6, <1>7, <1>16, <1>a DEF Tree

\* Renaming a node keeps the invariant.
LEMMA RenamedKeeps ==
  ASSUME NEW u, NEW r, NEW h, NEW pc, NEW elm, NEW par, TreeInv(u, pc, elm, par, r, h),
         NEW old, NEW y, Fits(u, r, old, y), NEW q, Renamed(u, q, old, y), pc # "insert_color"
  PROVE  \E e, g : TreeInv(q, pc, As(old, y, elm), As(old, y, par), e, g)
<1> DEFINE R(m) == As(old, y, m)
<1>a. PICK L, M, gn, gs : L = Linked(u) /\ M = Linked(q) /\ gn = GapNode(u, pc, elm, par) /\ gs = GapSide(u, elm, par)
  OBVIOUS
<1>b. Tree(u, r) /\ Heights(u, h, gn, gs) /\ RedRule(u, pc, elm) /\ OpShape(u, pc, elm, par)
  BY <1>a DEF TreeInv
<1>0. NULL \notin L /\ old \in L /\ y \notin L /\ y # NULL
  BY <1>a, <1>b, Fields, NULLAssumption DEF Fits
<1>1. /\ M = {R(m) : m \in L}
      /\ \A a, b \in L \cup {NULL} : R(a) = R(b) <=> a = b
      /\ R(NULL) = NULL /\ \A a \in L \cup {NULL} : R(a) = NULL <=> a = NULL
      /\ \A a \in L : As(y, old, R(a)) = a
  BY <1>0, <1>a, AsFacts DEF Renamed
<1>2. /\ \A m \in L, d \in Sides : q.child[d][R(m)] = R(u.child[d][m])
      /\ \A m \in L : q.parent[R(m)] = R(u.parent[m])
      /\ \A m \in L : q.color[R(m)] = u.color[m]
      /\ q.root = R(u.root)
  BY <1>a DEF Renamed
<1>3. /\ \A m \in L, d \in Sides : u.child[d][m] \in L \cup {NULL}
      /\ \A m \in L : u.parent[m] \in L \cup {NULL}
      /\ u.root \in L \cup {NULL} /\ elm \in L \cup {NULL} /\ par \in L \cup {NULL}
  BY <1>a, <1>b, Fields DEF Places, OpShape
<1>4. NULL \notin M /\ Places(u) = L \cup {NULL} /\ Places(q) = M \cup {NULL} /\ \A a \in L \cup {NULL} : R(a) \in M \cup {NULL}
  BY <1>0, <1>1, <1>a DEF Places
<1>5. PICK e : Tree(q, e)
  BY <1>b, RenamedTree
<1> HIDE DEF R
<1>6. \A m \in L : BlackOf(q, R(m)) = BlackOf(u, m)
  BY <1>2 DEF BlackOf
<1>7. \A a \in L \cup {NULL} : IsRed(q, R(a)) <=> IsRed(u, a)
  BY <1>1, <1>2, <1>4 DEF IsRed
<1>8. PICK g : g = [m \in M |-> h[As(y, old, m)]]
  OBVIOUS
<1>9. g \in [M -> Nat] /\ \A m \in L : g[R(m)] = h[m]
  <2>1. h \in [L -> Nat]
    BY <1>a, <1>b DEF Heights
  <2>2. \A m \in M : As(y, old, m) \in L
    BY <1>1
  <2>3. \A m \in L : R(m) \in M
    BY <1>1
  <2> QED
    BY <1>1, <1>8, <2>1, <2>2, <2>3
<1>10. \A a \in L \cup {NULL} : Height(g, R(a)) = Height(h, a)
  BY <1>0, <1>1, <1>9 DEF Height
<1>11. ASSUME NEW m \in L, NEW d \in Sides
       PROVE  g[R(m)] = Height(g, q.child[d][R(m)]) + Gap(R(gn), gs, R(m), d) + BlackOf(q, R(m))
  <2>1. PICK z : z = u.child[d][m]
    OBVIOUS
  <2>2. z \in L \cup {NULL} /\ q.child[d][R(m)] = R(z)
    BY <1>2, <1>3, <2>1
  <2>3. h[m] = Height(h, z) + Gap(gn, gs, m, d) + BlackOf(u, m)
    BY <1>a, <1>b, <2>1 DEF Heights
  <2>4. gn \in L \cup {NULL}
    BY <1>3, <1>a DEF GapNode
  <2>5. Gap(R(gn), gs, R(m), d) = Gap(gn, gs, m, d)
    BY <1>1, <2>4 DEF Gap
  <2> QED
    BY <1>6, <1>9, <1>10, <2>2, <2>3, <2>5
<1>12. Heights(q, g, R(gn), gs)
  <2>1. \A m \in M, d \in Sides : g[m] = Height(g, q.child[d][m]) + Gap(R(gn), gs, m, d) + BlackOf(q, m)
    BY <1>1, <1>11
  <2> QED
    BY <1>9, <1>a, <2>1 DEF Heights
<1>13. GapNode(q, pc, R(elm), R(par)) = R(gn)
  BY <1>1, <1>2, <1>3, <1>a DEF GapNode
<1>14. ASSUME gn # NULL PROVE GapSide(q, R(elm), R(par)) = gs
  <2>1. par \in L /\ gn = par
    BY <1>0, <1>3, <1>14, <1>a DEF GapNode
  <2>2. PICK z : z = u.child["left"][par]
    OBVIOUS
  <2>3. z \in L \cup {NULL} /\ q.child["left"][R(par)] = R(z)
    BY <1>2, <1>3, <2>1, <2>2 DEF Sides
  <2>4. R(z) = R(elm) <=> z = elm
    BY <1>1, <1>3, <2>3
  <2>5. GapSide(q, R(elm), R(par)) = IF R(z) = R(elm) THEN "left" ELSE "right"
    BY <2>3 DEF GapSide, Side
  <2>6. gs = IF z = elm THEN "left" ELSE "right"
    BY <1>a, <2>2 DEF GapSide, Side
  <2> QED
    BY <2>4, <2>5, <2>6
<1>15. Heights(q, g, R(gn), GapSide(q, R(elm), R(par)))
  <2>1. CASE gn = NULL
    <3>1. R(gn) = NULL
      BY <1>1, <2>1
    <3> QED
      BY <1>5, <1>12, <3>1, AnySide
  <2>2. CASE gn # NULL
    BY <1>12, <1>14, <2>2
  <2> QED
    BY <2>1, <2>2
<1>16. RedRule(q, pc, R(elm))
  <2>1. SUFFICES ASSUME NEW n \in L, IsRed(q, R(n)), R(n) = q.root \/ IsRed(q, q.parent[R(n)])
                 PROVE  R(n) = R(elm) \/ (pc = "remove_color" /\ R(n) # q.root /\ q.parent[R(n)] = R(elm))
    <3>1. \A n \in M : \E m \in L : n = R(m)
      BY <1>1
    <3>2. \A n \in M : IsRed(q, n) /\ (n = q.root \/ IsRed(q, q.parent[n])) =>
                          n = R(elm) \/ (pc = "remove_color" /\ n # q.root /\ q.parent[n] = R(elm))
      BY <2>1, <3>1
    <3> QED
      BY <1>a, <3>2 DEF RedRule
  <2>2. IsRed(u, n) /\ (n = u.root \/ IsRed(u, u.parent[n]))
    BY <1>1, <1>2, <1>3, <1>7, <2>1
  <2>3. n = elm \/ (pc = "remove_color" /\ n # u.root /\ u.parent[n] = elm)
    BY <1>a, <1>b, <2>2 DEF RedRule
  <2> QED
    BY <1>1, <1>2, <1>3, <2>3
<1>17. OpShape(q, pc, R(elm), R(par))
  <2>1. CASE pc = "idle"
    <3>1. elm = NULL /\ par = NULL
      BY <1>b, <2>1 DEF OpShape
    <3> QED
      BY <1>1, <2>1, <3>1 DEF OpShape
  <2>2. CASE pc = "remove_color"
    <3>1. R(elm) \in Places(q) /\ R(par) \in Places(q)
      BY <1>3, <1>4
    <3>2. ASSUME R(elm) # q.root
          PROVE  /\ R(par) \in Linked(q) /\ GapSide(q, R(elm), R(par)) \in Sides
                 /\ q.child[GapSide(q, R(elm), R(par))][R(par)] = R(elm)
      <4>1. elm # u.root
        BY <1>2, <3>2
      <4>2. par \in L /\ gs \in Sides /\ u.child[gs][par] = elm
        BY <1>a, <1>b, <2>2, <4>1 DEF OpShape
      <4>3. gn # NULL
        BY <1>0, <1>a, <2>2, <4>1, <4>2 DEF GapNode
      <4>4. GapSide(q, R(elm), R(par)) = gs
        BY <1>14, <4>3
      <4>5. R(par) \in Linked(q) /\ q.child[gs][R(par)] = R(elm)
        BY <1>1, <1>2, <1>a, <4>2
      <4> QED
        BY <4>2, <4>4, <4>5
    <3> QED
      BY <2>2, <3>1, <3>2 DEF OpShape
  <2> QED
    BY <1>b, <2>1, <2>2 DEF OpShape
<1>18. TreeInv(q, pc, R(elm), R(par), e, g)
  BY <1>5, <1>13, <1>15, <1>16, <1>17 DEF TreeInv
<1> QED
  BY <1>18 DEF R

-----------------------------------------------------------------------------
(* RB_REMOVE: the successor, and the whole of it.                          *)

\* y is the successor of old, which has two children.
Successor(tr, sub, old, y) ==
    /\ old \in Linked(tr) /\ tr.child["left"][old] # NULL /\ tr.child["right"][old] # NULL
    /\ Extreme(tr, sub, tr.child["right"][old], "left", y)

\* The successor of a node with two children has at most one.
LEMMA SuccessorFacts ==
  ASSUME NEW tr, NEW sub, Tree(tr, sub), NEW old, NEW y, Successor(tr, sub, old, y),
         NEW c, c = OnlyChild(tr, y), NEW p, p = tr.parent[y]
  PROVE  /\ y \in Linked(tr) /\ y # old /\ y \in sub[old] /\ old \notin sub[y] /\ tr.root # y
         /\ y \in Nodes /\ old \in Nodes /\ Before("right", y, old)
         /\ OneChild(tr, y, c, p) /\ c # old
         /\ \A m \in Sub(sub, tr.child["right"][old]) : m # y => Before("right", m, y)
<1>a. PICK rt : rt = tr.child["right"][old]
  OBVIOUS
<1>1. old \in Linked(tr) /\ rt # NULL /\ "left" \in Sides /\ "right" \in Sides /\ Other("left") = "right" /\ Other("right") = "left"
  BY <1>a DEF Successor, Sides, Other
<1>2. rt \in Linked(tr) /\ sub[rt] \subseteq sub[old] /\ old \notin sub[rt] /\ sub[old] \subseteq Linked(tr)
  BY <1>1, <1>a, SubSmaller
<1>3. y \in sub[rt] /\ tr.child["left"][y] = NULL /\ \A m \in sub[rt] : m # y => Before("left", y, m)
  BY <1>a DEF Successor, Extreme
<1>4. y \in Linked(tr) /\ y \in sub[old] /\ y # old
  BY <1>2, <1>3
<1>5. old \notin sub[y]
  BY <1>1, <1>4, Antisymmetric
<1>6. tr.root # y
  <2>1. sub[tr.root] = Linked(tr)
    BY <1>1, Fields DEF Tree, Spans, Sub
  <2> QED
    BY <1>1, <1>5, <2>1
<1>7. y \in Nodes /\ old \in Nodes /\ sub[rt] \subseteq Nodes
  BY <1>1, <1>2, <1>4, Fields
<1>8. Before("right", y, old)
  <2>1. y \in Sub(sub, tr.child["right"][old])
    BY <1>1, <1>3, <1>a DEF Sub
  <2> QED
    BY <1>1, <2>1, SubSides
<1>9. OneChild(tr, y, c, p) /\ tr.child["right"][y] = c
  BY <1>1, <1>3, <1>4 DEF OneChild, OnlyChild
<1>10. c # old
  <2>1. SUFFICES ASSUME c = old PROVE FALSE
    OBVIOUS
  <2>2. c = tr.child["right"][y] /\ c # NULL
    BY <1>1, <1>9, <2>1, Fields
  <2>3. c \in sub[c] /\ sub[c] \subseteq sub[y]
    BY <1>1, <1>4, <2>2, SubSmaller
  <2> QED
    BY <1>5, <2>1, <2>3
<1>11. ASSUME NEW m \in Sub(sub, tr.child["right"][old]), m # y PROVE Before("right", m, y)
  <2>1. m \in sub[rt]
    BY <1>1, <1>11, <1>a DEF Sub
  <2>2. Before("left", y, m)
    BY <1>3, <1>11, <2>1
  <2>3. m \in Nodes
    BY <1>7, <2>1
  <2>4. Before(Other("left"), m, y)
    BY <1>1, <1>7, <2>2, <2>3, BeforeIrreflexive
  <2> QED
    BY <1>1, <2>4
<1> QED
  BY <1>4, <1>5, <1>6, <1>7, <1>8, <1>9, <1>10, <1>11

\* The successor fits in the place of the node it follows.
LEMMA SuccessorFits ==
  ASSUME NEW tr, NEW sub, Tree(tr, sub), NEW old, NEW y, Successor(tr, sub, old, y),
         NEW c, c = OnlyChild(tr, y), NEW p, p = tr.parent[y], NEW u, Spliced(tr, u, y, c, p),
         NEW r, r = SplicedSub(sub, y, Linked(u))
  PROVE  Fits(u, r, old, y)
<1>1. /\ y \in Linked(tr) /\ y # old /\ y \in sub[old] /\ y \in Nodes /\ old \in Nodes /\ Before("right", y, old)
      /\ OneChild(tr, y, c, p) /\ old \in Linked(tr)
      /\ \A m \in Sub(sub, tr.child["right"][old]) : m # y => Before("right", m, y)
  <2>1. old \in Linked(tr)
    BY DEF Successor
  <2> QED
    BY <2>1, SuccessorFacts
<1>2. /\ Linked(u) = Linked(tr) \ {y} /\ NULL \notin Linked(tr) /\ c \in Places(tr) /\ c # y /\ y # NULL
      /\ sub[y] = {y} \cup Sub(sub, c)
  BY <1>1, OneChildFacts, Fields DEF Spliced
<1>3. ASSUME NEW m \in Linked(u), NEW d \in Sides PROVE Sub(r, u.child[d][m]) \subseteq Sub(sub, tr.child[d][m]) \ {y}
  <2>0. PICK z : z = tr.child[d][m]
    OBVIOUS
  <2>1. \A a \in Linked(u) : r[a] = sub[a] \ {y}
    BY DEF SplicedSub
  <2>2. CASE z = y
    <3>1. u.child[d][m] = c
      BY <2>0, <2>2 DEF Spliced
    <3>2. Sub(sub, z) = {y} \cup Sub(sub, c)
      BY <1>2, <2>2 DEF Sub
    <3>3. Sub(r, c) \subseteq Sub(sub, c) \ {y}
      BY <1>2, <2>1 DEF Sub, Places
    <3> QED
      BY <2>0, <3>1, <3>2, <3>3
  <2>3. CASE z # y
    <3>1. u.child[d][m] = z
      BY <2>0, <2>3 DEF Spliced
    <3>2. z \in Places(tr)
      BY <1>2, <2>0, Fields
    <3>3. Sub(r, z) \subseteq Sub(sub, z) \ {y}
      BY <1>2, <2>1, <2>3, <3>2 DEF Sub, Places
    <3> QED
      BY <2>0, <3>1, <3>3
  <2> QED
    BY <2>2, <2>3
<1>4. ASSUME NEW m \in Linked(u), NEW d \in Sides, old \in Sub(r, u.child[d][m]) PROVE Before(d, y, m)
  <2>0. PICK z : z = tr.child[d][m]
    OBVIOUS
  <2>1. old \in Sub(sub, z) /\ m \in Linked(tr)
    BY <1>2, <1>3, <1>4, <2>0
  <2>2. z \in Linked(tr) /\ z # NULL /\ old \in sub[z]
    BY <2>0, <2>1, Fields DEF Sub, Places
  <2>3. y \in sub[z]
    BY <1>1, <2>2, Nested
  <2>4. y \in Sub(sub, tr.child[d][m])
    BY <2>0, <2>2, <2>3 DEF Sub
  <2> QED
    BY <2>1, <2>4, SubSides
<1>5. ASSUME NEW d \in Sides, NEW m \in Sub(r, u.child[d][old]) PROVE Before(d, m, y)
  <2>1. m \in Sub(sub, tr.child[d][old]) /\ m # y
    BY <1>1, <1>2, <1>3, <1>5
  <2>2. CASE d = "right"
    BY <1>1, <2>1, <2>2
  <2>3. CASE d = "left"
    <3>1. Before("left", m, old) /\ m \in Nodes
      <4>1. Sub(sub, tr.child[d][old]) \subseteq Linked(tr) /\ Before(d, m, old)
        BY <1>1, <2>1, SubSides
      <4> QED
        BY <2>1, <2>3, <4>1, Fields
    <3>2. Before("left", old, y)
      <4>1. Before(Other("right"), old, y) /\ "right" \in Sides
        BY <1>1, BeforeIrreflexive DEF Sides
      <4> QED
        BY <4>1 DEF Other
    <3> QED
      BY <1>1, <2>3, <3>1, <3>2, BeforeTransitive
  <2> QED
    BY <2>2, <2>3 DEF Sides
<1> QED
  BY <1>1, <1>2, <1>4, <1>5 DEF Fits

\* A node with at most one child is replaced by it.
LEMMA RemoveSingle ==
  ASSUME NEW tr, NEW sub, NEW h, TreeInv(tr, "idle", NULL, NULL, sub, h), NEW y \in Linked(tr),
         NEW c, c = OnlyChild(tr, y), NEW p, OneChild(tr, y, c, p), NEW q, q = Unlinked(Splice(tr, y), y)
  PROVE  Linked(q) = Linked(tr) \ {y} /\ Spliced(tr, q, y, c, p) /\ AfterRemove(tr.color[y], q, c, p)
<1>1. Tree(tr, sub)
  BY DEF TreeInv
<1>2. PICK t : t = Splice(tr, y)
  OBVIOUS
<1>3. Skipped(tr, t, y, c, p)
  BY <1>1, <1>2, SpliceFields
<1>4. PICK L, P : L = Linked(t) /\ P = Places(tr)
  OBVIOUS
<1>5. L = Linked(tr) /\ t.child \in [Sides -> [L -> P]] /\ t.parent \in [L -> P] /\ t.color \in [L -> Colors] /\ P \subseteq Pointers
  <2>1. L = Linked(tr)
    BY <1>3, <1>4 DEF Skipped, Linked
  <2>2. t.child \in [Sides -> [L -> P]] /\ t.parent \in [L -> P] /\ t.color = tr.color
    BY <1>3, <1>4, <2>1 DEF Skipped
  <2>3. tr.color \in [L -> Colors] /\ P \subseteq Pointers
    BY <1>1, <1>4, <2>1 DEF Tree, Shaped, Colors, Pointers, Places
  <2> QED
    BY <2>1, <2>2, <2>3
<1>6. Cut(t, q, y, Linked(tr))
  <2>1. Cut(t, q, y, L)
    BY <1>2, <1>4, <1>5, UnlinkedFields
  <2> QED
    BY <1>5, <2>1
<1>7. Spliced(tr, q, y, c, p)
  BY <1>1, <1>3, <1>6, SplicedFields
<1>8. AfterRemove(tr.color[y], q, c, p)
  <2>1. /\ tr.color[y] \in Colors
        /\ tr.color[y] = "black" => \E r, g : TreeInv(q, "remove_color", c, p, r, g)
        /\ tr.color[y] = "red" => \E r, g : TreeInv(q, "idle", NULL, NULL, r, g)
    BY <1>7, SplicedKeeps
  <2> QED
    BY <2>1 DEF AfterRemove, Colors
<1> QED
  BY <1>7, <1>8 DEF Spliced

\* A node with two children is replaced by its successor.
LEMMA RemoveDouble ==
  ASSUME NEW tr, NEW sub, NEW h, TreeInv(tr, "idle", NULL, NULL, sub, h), NEW old, NEW y, Successor(tr, sub, old, y),
         NEW c, c = OnlyChild(tr, y), NEW p, p = tr.parent[y], NEW q, q = Unlinked(TakePlace(Splice(tr, y), old, y), old)
  PROVE  Linked(q) = Linked(tr) \ {old} /\ AfterRemove(tr.color[y], q, c, As(old, y, p))
<1>1. Tree(tr, sub)
  BY DEF TreeInv
<1>2. /\ y \in Linked(tr) /\ y # old /\ tr.root # y /\ OneChild(tr, y, c, p) /\ c # old
  BY <1>1, SuccessorFacts
<1>3. old \in Linked(tr)
  BY DEF Successor
<1>4. PICK t : t = Splice(tr, y)
  OBVIOUS
<1>5. PICK u : u = Unlinked(t, y)
  OBVIOUS
<1>6. PICK v : v = TakePlace(t, old, y)
  OBVIOUS
<1>7. q = Unlinked(v, old)
  BY <1>4, <1>6
<1>8. Spliced(tr, u, y, c, p)
  BY <1>2, <1>4, <1>5, RemoveSingle
<1>9. Skipped(tr, t, y, c, p)
  BY <1>1, <1>2, <1>4, SpliceFields
<1>10. PICK L, P : L = Linked(tr) /\ P = Places(tr)
  OBVIOUS
<1>11. /\ P = L \cup {NULL} /\ NULL \notin L /\ L \subseteq Nodes /\ P \subseteq Pointers /\ y \in L /\ old \in L
  BY <1>1, <1>2, <1>3, <1>10, Fields DEF Places, Pointers
<1>12. /\ t = [root |-> t.root, child |-> t.child, parent |-> t.parent, color |-> t.color]
       /\ t.child \in [Sides -> [L -> P]] /\ t.parent \in [L -> P] /\ t.color \in [L -> Colors] /\ Linked(t) = L
       /\ t.root = tr.root
  <2>1. t.color \in [L -> Colors] /\ Linked(t) = L
    <3>1. t.color = tr.color /\ tr.color \in [L -> Colors]
      BY <1>1, <1>9, <1>10 DEF Skipped, Tree, Shaped, Colors
    <3> QED
      BY <3>1 DEF Linked
  <2> QED
    BY <1>2, <1>9, <1>10, <2>1 DEF Skipped
<1>13. Cut(t, u, y, L)
  BY <1>5, <1>11, <1>12, UnlinkedFields
<1>14. PICK r : r = SplicedSub(sub, y, Linked(u)) /\ Tree(u, r)
  BY <1>1, <1>2, <1>8, SplicedTree
<1>15. Taken(t, v, old, y, L)
  BY <1>2, <1>6, <1>11, <1>12, <1>13, <1>14, TakePlaceFields
<1>16. Cut(v, q, old, L)
  <2>1. Linked(v) = L /\ v.child \in [Sides -> [L -> P]] /\ v.parent \in [L -> P] /\ v.color \in [L -> Colors]
    BY <1>11, <1>15 DEF Taken
  <2> QED
    BY <1>7, <1>11, <2>1, UnlinkedFields
<1>17. Renamed(u, q, old, y)
  BY <1>2, <1>11, <1>13, <1>14, <1>15, <1>16, RenamedFields
<1>18. Fits(u, r, old, y)
  BY <1>1, <1>8, <1>14, SuccessorFits
<1>19. Linked(q) = Linked(tr) \ {old}
  BY <1>10, <1>16 DEF Cut
<1>20. /\ tr.color[y] \in Colors
       /\ tr.color[y] = "black" => \E g : TreeInv(u, "remove_color", c, p, r, g)
       /\ tr.color[y] = "red" => \E g : TreeInv(u, "idle", NULL, NULL, r, g)
  BY <1>2, <1>8, <1>14, SplicedKeeps
<1>21. ASSUME tr.color[y] = "black" PROVE \E e, g : TreeInv(q, "remove_color", c, As(old, y, p), e, g)
  <2>1. PICK g : TreeInv(u, "remove_color", c, p, r, g)
    BY <1>20, <1>21
  <2>2. \E e, k : TreeInv(q, "remove_color", As(old, y, c), As(old, y, p), e, k)
    BY <1>17, <1>18, <2>1, RenamedKeeps
  <2>3. As(old, y, c) = c
    BY <1>2 DEF As
  <2> QED
    BY <2>2, <2>3
<1>22. ASSUME tr.color[y] = "red" PROVE \E e, g : TreeInv(q, "idle", NULL, NULL, e, g)
  <2>1. PICK g : TreeInv(u, "idle", NULL, NULL, r, g)
    BY <1>20, <1>22
  <2>2. \E e, k : TreeInv(q, "idle", As(old, y, NULL), As(old, y, NULL), e, k)
    BY <1>17, <1>18, <2>1, RenamedKeeps
  <2>3. As(old, y, NULL) = NULL
    BY <1>11 DEF As
  <2> QED
    BY <2>2, <2>3
<1> QED
  BY <1>19, <1>20, <1>21, <1>22 DEF AfterRemove, Colors

\* RB_REMOVE keeps the invariant, with the shortage at the element it returns.
LEMMA RemoveKeeps ==
  ASSUME NEW tr, NEW sub, NEW h, TreeInv(tr, "idle", NULL, NULL, sub, h), NEW old \in Linked(tr),
         NEW x, x = RB_REMOVE(tr, old)
  PROVE  Linked(x.t) = Linked(tr) \ {old} /\ AfterRemove(x.color, x.t, x.elm, x.parent)
<1>1. Tree(tr, sub)
  BY DEF TreeInv
<1>a. PICK rt, y : rt = tr.child["right"][old] /\ y = Outermost(tr, rt, "left")
  OBVIOUS
<1>2. CASE \A s \in Sides : tr.child[s][old] # NULL
  <2>1. tr.child["left"][old] # NULL /\ rt # NULL /\ rt \in Linked(tr)
    BY <1>1, <1>2, <1>a, Fields DEF Sides, Places
  <2>2. Extreme(tr, sub, rt, "left", y)
    BY <1>1, <1>a, <2>1, OutermostIs DEF Sides
  <2>3. Successor(tr, sub, old, y)
    BY <1>a, <2>1, <2>2 DEF Successor
  <2>4. PICK c, p, q : c = OnlyChild(tr, y) /\ p = tr.parent[y] /\ q = Unlinked(TakePlace(Splice(tr, y), old, y), old)
    OBVIOUS
  <2>5. Linked(q) = Linked(tr) \ {old} /\ AfterRemove(tr.color[y], q, c, As(old, y, p))
    BY <2>3, <2>4, RemoveDouble
  <2>6. x.t = q /\ x.elm = c /\ x.parent = As(old, y, p) /\ x.color = tr.color[y]
    BY <1>2, <1>a, <2>4 DEF RB_REMOVE, As
  <2> QED
    BY <2>5, <2>6
<1>3. CASE ~(\A s \in Sides : tr.child[s][old] # NULL)
  <2>1. PICK c, p, q : c = OnlyChild(tr, old) /\ p = tr.parent[old] /\ q = Unlinked(Splice(tr, old), old)
    OBVIOUS
  <2>2. OneChild(tr, old, c, p)
    BY <1>3, <2>1 DEF OneChild, OnlyChild, Sides, Other
  <2>3. Linked(q) = Linked(tr) \ {old} /\ AfterRemove(tr.color[old], q, c, p)
    BY <2>1, <2>2, RemoveSingle
  <2>4. x.t = q /\ x.elm = c /\ x.parent = p /\ x.color = tr.color[old]
    BY <1>3, <2>1 DEF RB_REMOVE
  <2> QED
    BY <2>3, <2>4
<1> QED
  BY <1>2, <1>3

-----------------------------------------------------------------------------
(* RB_NEXT and RB_PREV.                                                    *)

\* y is the closest node above m that has m on side o, NULL if there is none.
Above(tr, sub, o, m, y) ==
    \/ y = NULL /\ \A a \in Linked(tr) : m \notin Sub(sub, tr.child[o][a])
    \/ /\ y \in Linked(tr) /\ m \in Sub(sub, tr.child[o][y])
       /\ \A a \in Linked(tr) : m \in Sub(sub, tr.child[o][a]) => y \in sub[a]

\* What is below a child is below its parent.
LEMMA InChild ==
  ASSUME NEW tr, NEW sub, Tree(tr, sub), NEW a \in Linked(tr), NEW o \in Sides, NEW m, m \in Sub(sub, tr.child[o][a])
  PROVE  /\ m \in Linked(tr) /\ m # a /\ m \in sub[a] /\ m # tr.root /\ sub[m] \subseteq Sub(sub, tr.child[o][a])
         /\ m # tr.child[o][a] => tr.parent[m] \in Sub(sub, tr.child[o][a])
         /\ m = tr.child[o][a] => tr.parent[m] = a
<1>a. PICK c : c = tr.child[o][a]
  OBVIOUS
<1>1. c # NULL /\ m \in sub[c] /\ Sub(sub, c) = sub[c]
  BY <1>a DEF Sub
<1>2. c \in Linked(tr) /\ sub[c] \subseteq sub[a] /\ a \notin sub[c] /\ sub[a] \subseteq Linked(tr)
  BY <1>1, <1>a, SubSmaller
<1>3. m \in Linked(tr) /\ m # a /\ m \in sub[a]
  BY <1>1, <1>2
<1>4. sub[m] \subseteq sub[c]
  BY <1>1, <1>2, Nested
<1>5. m # tr.root
  <2>1. SUFFICES ASSUME m = tr.root PROVE FALSE
    OBVIOUS
  <2>2. Sub(sub, tr.root) = Linked(tr) /\ m # NULL
    BY <1>3, Fields DEF Tree, Spans
  <2>3. sub[m] = Linked(tr)
    BY <2>1, <2>2 DEF Sub
  <2> QED
    BY <1>2, <1>4, <2>3
<1>6. m # c => tr.parent[m] \in sub[c]
  BY <1>1, <1>2, ParentBelow
<1>7. tr.parent[c] = a
  BY <1>1, <1>a, ChildIs
<1> QED
  BY <1>1, <1>3, <1>4, <1>5, <1>6, <1>7, <1>a

\* What is above a node is found at its parent.
LEMMA AboveStep ==
  ASSUME NEW tr, NEW sub, Tree(tr, sub), NEW s \in Sides, NEW o, o = Other(s), NEW m \in Linked(tr),
         NEW p, p = tr.parent[m]
  PROVE  /\ ~(p # NULL /\ tr.child[s][p] = m) => Above(tr, sub, o, m, p)
         /\ p # NULL /\ tr.child[s][p] = m => \A y : Above(tr, sub, o, p, y) <=> Above(tr, sub, o, m, y)
<1>0. o \in Sides /\ o # s /\ Sides = {s, o} /\ m # NULL /\ (p = NULL <=> m = tr.root)
  BY OtherSide, Fields
<1>1. CASE p = NULL
  <2>1. \A a \in Linked(tr) : m \notin Sub(sub, tr.child[o][a])
    BY <1>0, <1>1, InChild
  <2> QED
    BY <1>1, <2>1 DEF Above
<1>2. CASE p # NULL
  <2>1. p \in Linked(tr) /\ p # m
    BY <1>2, SideIs
  <2>2. ASSUME tr.child[s][p] # m PROVE Above(tr, sub, o, m, p)
    <3>1. PICK d : d = Side(tr, p, m)
      OBVIOUS
    <3>2. d \in Sides /\ tr.child[d][p] = m
      BY <1>2, <3>1, SideIs
    <3>3. tr.child[o][p] = m
      BY <1>0, <2>2, <3>2
    <3>4. m \in Sub(sub, tr.child[o][p])
      BY <1>0, <3>3, SubSides DEF Sub
    <3>5. ASSUME NEW a \in Linked(tr), m \in Sub(sub, tr.child[o][a]) PROVE p \in sub[a]
      <4>1. m \in sub[a] /\ m # a
        BY <1>0, <3>5, InChild
      <4> QED
        BY <4>1, ParentBelow
    <3> QED
      BY <2>1, <3>4, <3>5 DEF Above
  <2>3. ASSUME tr.child[s][p] = m, NEW a \in Linked(tr)
        PROVE  p \in Sub(sub, tr.child[o][a]) <=> m \in Sub(sub, tr.child[o][a])
    <3>1. ASSUME p \in Sub(sub, tr.child[o][a]) PROVE m \in Sub(sub, tr.child[o][a])
      <4>1. sub[p] \subseteq Sub(sub, tr.child[o][a])
        BY <1>0, <3>1, InChild
      <4>2. PICK c : c = tr.child[s][p]
        OBVIOUS
      <4>a. p \in Linked(tr) /\ c = tr.child[s][p] /\ c # NULL
        BY <1>0, <2>1, <2>3, <4>2
      <4>b. c \in sub[c] /\ sub[c] \subseteq sub[p]
        BY <4>a, SubSmaller
      <4>3. m \in sub[m] /\ sub[m] \subseteq sub[p]
        BY <2>3, <4>2, <4>b
      <4> QED
        BY <4>1, <4>3
    <3>2. ASSUME m \in Sub(sub, tr.child[o][a]) PROVE p \in Sub(sub, tr.child[o][a])
      <4>1. m # tr.child[o][a]
        <5>1. m = tr.child[s][p]
          BY <2>3
        <5>2. tr.child[o][a] = m => a = p /\ o = s
          BY <1>0, <2>1, <5>1, ChildOnce
        <5> QED
          BY <1>0, <5>2
      <4> QED
        BY <1>0, <3>2, <4>1, InChild
    <3> QED
      BY <3>1, <3>2
  <2>4. ASSUME tr.child[s][p] = m, NEW y PROVE Above(tr, sub, o, p, y) <=> Above(tr, sub, o, m, y)
    <3>1. \A a \in Linked(tr) : p \in Sub(sub, tr.child[o][a]) <=> m \in Sub(sub, tr.child[o][a])
      BY <2>3, <2>4
    <3> QED
      BY <3>1 DEF Above
  <2> QED
    BY <1>2, <2>2, <2>4
<1> QED
  BY <1>1, <1>2

\* There is one such ancestor.
LEMMA AboveOnce ==
  ASSUME NEW tr, NEW sub, Tree(tr, sub), NEW o \in Sides, NEW m \in Linked(tr),
         NEW y, Above(tr, sub, o, m, y), NEW z, Above(tr, sub, o, m, z)
  PROVE  y = z
<1>1. CASE y \in Linked(tr) /\ z \in Linked(tr)
  <2>1. y \in sub[z] /\ z \in sub[y]
    BY <1>1, Fields DEF Above
  <2> QED
    BY <1>1, <2>1, Antisymmetric
<1>2. CASE ~(y \in Linked(tr) /\ z \in Linked(tr))
  BY <1>2 DEF Above
<1> QED
  BY <1>1, <1>2

\* Every node has one, or NULL.
LEMMA AboveExists ==
  ASSUME NEW tr, NEW sub, Tree(tr, sub), NEW s \in Sides, NEW o, o = Other(s), NEW m \in Linked(tr)
  PROVE  \E y : Above(tr, sub, o, m, y)
<1>1. PICK Bad : Bad = {n \in Linked(tr) : ~\E y : Above(tr, sub, o, n, y)}
  OBVIOUS
<1>2. ASSUME NEW n \in Bad PROVE tr.parent[n] \in Bad
  <2>1. n \in Linked(tr) /\ ~\E y : Above(tr, sub, o, n, y)
    BY <1>1
  <2>2. PICK p : p = tr.parent[n]
    OBVIOUS
  <2>3. p # NULL /\ tr.child[s][p] = n
    BY <2>1, <2>2, AboveStep
  <2>4. \A y : Above(tr, sub, o, p, y) <=> Above(tr, sub, o, n, y)
    BY <2>1, <2>2, <2>3, AboveStep
  <2>5. p \in Linked(tr)
    BY <2>1, <2>2, <2>3, SideIs
  <2> QED
    BY <1>1, <2>1, <2>2, <2>4, <2>5
<1>3. Bad = {}
  <2>1. Bad \subseteq Linked(tr)
    BY <1>1
  <2> QED
    BY <1>2, <2>1, Ascent
<1> QED
  BY <1>1, <1>3

\* The climb of RB_NEXT ends at the closest node that is ahead.
LEMMA ClimbIs ==
  ASSUME NEW tr, NEW sub, Tree(tr, sub), NEW s \in Sides, NEW o, o = Other(s), NEW n \in Linked(tr),
         tr.child[s][n] = NULL
  PROVE  Above(tr, sub, o, n, RB_NEXT(tr, n, s))
<1> DEFINE Solves(f) == f = [m \in Linked(tr) |-> LET p == tr.parent[m]
                                                  IN  IF p # NULL /\ tr.child[s][p] = m THEN f[p] ELSE p]
<1>0. o \in Sides
  BY OtherSide
<1>1. PICK g : g = [m \in Linked(tr) |-> CHOOSE y : Above(tr, sub, o, m, y)]
  OBVIOUS
<1>2. \A m \in Linked(tr) : Above(tr, sub, o, m, g[m])
  BY <1>1, AboveExists
<1>3. ASSUME NEW m \in Linked(tr), NEW p, p = tr.parent[m]
      PROVE  g[m] = IF p # NULL /\ tr.child[s][p] = m THEN g[p] ELSE p
  <2>1. CASE p # NULL /\ tr.child[s][p] = m
    <3>1. p \in Linked(tr)
      BY <1>3, <2>1, SideIs
    <3>2. Above(tr, sub, o, p, g[p])
      BY <1>2, <3>1
    <3>3. Above(tr, sub, o, m, g[p])
      BY <1>3, <2>1, <3>2, AboveStep
    <3>4. Above(tr, sub, o, m, g[m])
      BY <1>2
    <3>5. g[m] = g[p]
      BY <1>0, <3>3, <3>4, AboveOnce
    <3> QED
      BY <2>1, <3>5
  <2>2. CASE ~(p # NULL /\ tr.child[s][p] = m)
    <3>1. Above(tr, sub, o, m, p)
      BY <1>3, <2>2, AboveStep
    <3>2. Above(tr, sub, o, m, g[m])
      BY <1>2
    <3>3. g[m] = p
      BY <1>0, <3>1, <3>2, AboveOnce
    <3> QED
      BY <2>2, <3>3
  <2> QED
    BY <2>1, <2>2
<1>4. Solves(g)
  <2>1. \A m \in Linked(tr) : g[m] = LET p == tr.parent[m] IN IF p # NULL /\ tr.child[s][p] = m THEN g[p] ELSE p
    BY <1>3
  <2> QED
    BY <1>1, <2>1
<1>5. PICK w : w = CHOOSE f : Solves(f)
  OBVIOUS
<1>6. Solves(w)
  BY <1>4, <1>5, Zenon
<1>7. RB_NEXT(tr, n, s) = w[n]
  BY <1>5, Zenon DEF RB_NEXT
<1>8. \A m \in Linked(tr) : w[m] = LET p == tr.parent[m] IN IF p # NULL /\ tr.child[s][p] = m THEN w[p] ELSE p
  BY <1>6, Zenon
<1> HIDE DEF Solves
<1>9. PICK Bad : Bad = {m \in Linked(tr) : ~Above(tr, sub, o, m, w[m])}
  OBVIOUS
<1>10. ASSUME NEW m \in Bad PROVE tr.parent[m] \in Bad
  <2>1. m \in Linked(tr) /\ ~Above(tr, sub, o, m, w[m])
    BY <1>9
  <2>2. PICK p : p = tr.parent[m]
    OBVIOUS
  <2>3. w[m] = IF p # NULL /\ tr.child[s][p] = m THEN w[p] ELSE p
    BY <1>8, <2>1, <2>2
  <2>4. p # NULL /\ tr.child[s][p] = m /\ w[m] = w[p]
    BY <2>1, <2>2, <2>3, AboveStep
  <2>5. \A y : Above(tr, sub, o, p, y) <=> Above(tr, sub, o, m, y)
    BY <2>1, <2>2, <2>4, AboveStep
  <2>6. p \in Linked(tr)
    BY <2>1, <2>2, <2>4, SideIs
  <2> QED
    BY <1>9, <2>1, <2>2, <2>4, <2>5, <2>6
<1>11. Bad = {}
  <2>1. Bad \subseteq Linked(tr)
    BY <1>9
  <2> QED
    BY <1>10, <2>1, Ascent
<1> QED
  BY <1>7, <1>9, <1>11

\* a separates m and n: n is below m, m below n, or they are on two sides of a.
Separates(tr, sub, a, d, m, n) ==
    \/ a = m /\ n \in Sub(sub, tr.child[d][a])
    \/ a = n /\ m \in Sub(sub, tr.child[d][a])
    \/ m \in Sub(sub, tr.child[d][a]) /\ n \in Sub(sub, tr.child[Other(d)][a])

\* Two nodes neither of which is below the other are separated by a common ancestor.
LEMMA Apart ==
  ASSUME NEW tr, NEW sub, Tree(tr, sub), NEW m \in Linked(tr), NEW n \in Linked(tr), m # n
  PROVE  \E a \in Linked(tr), d \in Sides : Separates(tr, sub, a, d, m, n)
<1>1. SUFFICES ASSUME \A a \in Linked(tr), d \in Sides : ~Separates(tr, sub, a, d, m, n) PROVE FALSE
  OBVIOUS
<1>2. PICK Bad : Bad = {a \in Linked(tr) : m \in sub[a] /\ n \in sub[a]}
  OBVIOUS
<1>3. ASSUME NEW a \in Bad PROVE \E d \in Sides : tr.child[d][a] \in Bad
  <2>1. a \in Linked(tr) /\ m \in sub[a] /\ n \in sub[a]
    BY <1>2
  <2>2. PICK x, y : x = tr.child["left"][a] /\ y = tr.child["right"][a]
    OBVIOUS
  <2>3. sub[a] = {a} \cup Sub(sub, x) \cup Sub(sub, y)
    BY <2>1, <2>2 DEF Tree, Spans
  <2>4. "left" \in Sides /\ "right" \in Sides /\ Other("left") = "right" /\ Other("right") = "left"
    BY DEF Sides, Other
  <2>5. a # m /\ a # n
    BY <1>1, <2>1, <2>2, <2>3, <2>4, m # n DEF Separates
  <2>6. (m \in Sub(sub, x) /\ n \in Sub(sub, x)) \/ (m \in Sub(sub, y) /\ n \in Sub(sub, y))
    BY <1>1, <2>1, <2>2, <2>3, <2>4, <2>5 DEF Separates
  <2>7. ASSUME NEW d \in Sides, NEW z, z = tr.child[d][a], m \in Sub(sub, z), n \in Sub(sub, z) PROVE z \in Bad
    <3>1. z # NULL /\ m \in sub[z] /\ n \in sub[z]
      BY <2>7 DEF Sub
    <3>2. z \in Linked(tr)
      BY <2>1, <2>7, <3>1, ChildIs
    <3> QED
      BY <1>2, <3>1, <3>2
  <2> QED
    BY <2>2, <2>4, <2>6, <2>7
<1>4. Bad = {}
  <2>1. Bad \subseteq Linked(tr)
    BY <1>2
  <2> QED
    BY <1>3, <2>1, Descent
<1>5. Sub(sub, tr.root) = Linked(tr) /\ tr.root \in Linked(tr) /\ tr.root # NULL
  BY Fields DEF Tree, Spans
<1>6. tr.root \in Bad
  BY <1>2, <1>5 DEF Sub
<1> QED
  BY <1>4, <1>6

\* Any two nodes are in order.
LEMMA Comparable ==
  ASSUME NEW tr, NEW sub, Tree(tr, sub), NEW m \in Linked(tr), NEW n \in Linked(tr), m # n, NEW s \in Sides
  PROVE  Before(s, m, n) \/ Before(s, n, m)
<1>1. PICK a \in Linked(tr), d \in Sides : Separates(tr, sub, a, d, m, n)
  BY Apart
<1>2. m \in Nodes /\ n \in Nodes /\ a \in Nodes
  BY Fields
<1>3. Other(d) \in Sides
  BY OtherSide
<1>4. Key[m] # Key[n]
  <2>1. CASE a = m /\ n \in Sub(sub, tr.child[d][a])
    <3>1. Before(d, n, m)
      BY <2>1, SubSides
    <3> QED
      BY <1>2, <3>1, KeyAssumption DEF Before
  <2>2. CASE a = n /\ m \in Sub(sub, tr.child[d][a])
    <3>1. Before(d, m, n)
      BY <2>2, SubSides
    <3> QED
      BY <1>2, <3>1, KeyAssumption DEF Before
  <2>3. CASE m \in Sub(sub, tr.child[d][a]) /\ n \in Sub(sub, tr.child[Other(d)][a])
    <3>1. Before(d, m, a) /\ Before(Other(d), n, a)
      BY <1>3, <2>3, SubSides
    <3> QED
      BY <1>2, <3>1, KeyAssumption DEF Before, Sides, Other
  <2> QED
    BY <1>1, <2>1, <2>2, <2>3 DEF Separates
<1> QED
  BY <1>2, <1>4, KeyAssumption DEF Before

\* y is the neighbour of n on side s, NULL at the end.  Before(s, m, n) says
\* that m is on side s of n.
Neighbour(tr, s, n, y) ==
    /\ y \in Places(tr) /\ y # n
    /\ y # NULL => Before(s, y, n)
    /\ \A m \in Linked(tr) : Before(s, m, n) => y # NULL /\ (m = y \/ Before(s, m, y))

\* RB_NEXT and RB_PREV return the neighbour.
LEMMA NextIs ==
  ASSUME NEW tr, NEW sub, Tree(tr, sub), NEW s \in Sides, NEW n \in Linked(tr), NEW y, y = RB_NEXT(tr, n, s)
  PROVE  Neighbour(tr, s, n, y)
<1>a. PICK o, c : o = Other(s) /\ c = tr.child[s][n]
  OBVIOUS
<1>0. o \in Sides /\ o # s /\ Sides = {s, o} /\ Other(o) = s /\ NULL \notin Linked(tr) /\ n \in Nodes /\ Linked(tr) \subseteq Nodes
  BY <1>a, OtherSide, Fields
<1>1. \A a, b \in Nodes : Before(s, a, b) <=> Before(o, b, a)
  BY <1>0, <1>a, BeforeIrreflexive
<1>2. \A a, b, e \in Nodes : Before(s, a, b) /\ Before(s, b, e) => Before(s, a, e)
  BY BeforeTransitive
<1>3. \A a \in Nodes : ~Before(s, a, a)
  BY BeforeIrreflexive
\* What is said of y, whichever way it was found.
<1>4. SUFFICES
        /\ y \in Places(tr) /\ (y # NULL => Before(s, y, n))
        /\ \A m \in Sub(sub, c) : y # NULL /\ (m = y \/ Before(s, m, y))
        /\ \A a \in Linked(tr) : n \in Sub(sub, tr.child[o][a]) => y \in sub[a] /\ y # NULL /\ (y = a \/ Before(o, y, a))
  <2>1. y # n
    BY <1>0, <1>3, <1>4 DEF Places
  <2>2. ASSUME NEW m \in Linked(tr), Before(s, m, n) PROVE y # NULL /\ (m = y \/ Before(s, m, y))
    <3>0. m # n /\ m \in Nodes /\ ~Before(o, m, n)
      BY <1>0, <1>1, <1>2, <1>3, <2>2
    <3>1. PICK a \in Linked(tr), d \in Sides : Separates(tr, sub, a, d, m, n)
      BY <3>0, Apart
    <3>2. a \in Nodes
      BY <1>0
    <3>3. CASE a = n /\ m \in Sub(sub, tr.child[d][a])
      <4>1. Before(d, m, n)
        BY <3>3, SubSides
      <4>2. d = s
        BY <1>0, <3>0, <4>1
      <4> QED
        BY <1>4, <1>a, <3>3, <4>2
    <3>4. CASE a = m /\ n \in Sub(sub, tr.child[d][a])
      <4>1. Before(d, n, m)
        BY <3>4, SubSides
      <4>2. d = o
        BY <1>0, <1>1, <1>2, <1>3, <2>2, <3>0, <4>1
      <4>3. y # NULL /\ (y = m \/ Before(o, y, m))
        BY <1>4, <3>4, <4>2
      <4>4. y \in Nodes
        BY <1>0, <1>4, <4>3 DEF Places
      <4> QED
        BY <1>1, <3>0, <4>3, <4>4
    <3>5. CASE m \in Sub(sub, tr.child[d][a]) /\ n \in Sub(sub, tr.child[Other(d)][a])
      <4>0. Other(d) \in Sides /\ Other(d) # d
        BY OtherSide
      <4>1. Before(d, m, a) /\ Before(Other(d), n, a)
        BY <3>5, <4>0, SubSides
      <4>2. d = s
        <5>1. SUFFICES ASSUME d = o PROVE FALSE
          BY <1>0
        <5>2. Before(o, m, a) /\ Before(s, n, a)
          BY <1>0, <4>1, <5>1
        <5>3. Before(s, a, m)
          BY <1>1, <3>0, <3>2, <5>2
        <5>4. Before(s, n, m)
          BY <1>0, <1>2, <3>0, <3>2, <5>2, <5>3
        <5> QED
          BY <1>0, <1>2, <1>3, <2>2, <3>0, <5>4
      <4>3. y # NULL /\ (y = a \/ Before(o, y, a)) /\ Before(s, m, a)
        BY <1>4, <1>a, <3>5, <4>1, <4>2
      <4>4. y \in Nodes
        BY <1>0, <1>4, <4>3 DEF Places
      <4>5. y = a \/ Before(s, a, y)
        BY <1>1, <3>2, <4>3, <4>4
      <4> QED
        BY <1>2, <3>0, <3>2, <4>3, <4>4, <4>5
    <3> QED
      BY <3>1, <3>3, <3>4, <3>5 DEF Separates
  <2> QED
    BY <1>4, <2>1, <2>2 DEF Neighbour
<1>5. CASE c # NULL
  <2>1. c \in Linked(tr)
    BY <1>5, <1>a, ChildIs
  <2>2. y = Outermost(tr, c, o)
    BY <1>5, <1>a DEF RB_NEXT
  <2>3. Extreme(tr, sub, c, o, y)
    BY <1>0, <2>1, <2>2, OutermostIs
  <2>4. y \in sub[c] /\ Sub(sub, c) = sub[c] /\ \A m \in sub[c] : m # y => Before(o, y, m)
    BY <1>5, <2>3 DEF Extreme, Sub
  <2>5. sub[c] \subseteq sub[n] /\ sub[n] \subseteq Linked(tr) /\ \A m \in sub[c] : Before(s, m, n)
    BY <1>5, <1>a, SubSmaller
  <2>6. y \in Linked(tr) /\ y # NULL /\ y \in Places(tr) /\ y \in sub[n]
    BY <1>0, <2>4, <2>5 DEF Places
  <2>7. \A m \in Sub(sub, c) : y # NULL /\ (m = y \/ Before(s, m, y))
    BY <1>0, <1>1, <2>4, <2>5, <2>6
  <2>8. ASSUME NEW a \in Linked(tr), n \in Sub(sub, tr.child[o][a]) PROVE y \in sub[a] /\ (y = a \/ Before(o, y, a))
    <3>1. sub[n] \subseteq Sub(sub, tr.child[o][a])
      BY <1>0, <2>8, InChild
    <3>2. y \in Sub(sub, tr.child[o][a])
      BY <2>6, <3>1
    <3>3. y \in sub[a]
      BY <1>0, <3>2, InChild
    <3>4. Before(o, y, a)
      BY <1>0, <3>2, SubSides
    <3> QED
      BY <3>3, <3>4
  <2> QED
    BY <2>4, <2>5, <2>6, <2>7, <2>8
<1>6. CASE c = NULL
  <2>1. Above(tr, sub, o, n, y)
    BY <1>6, <1>a, ClimbIs
  <2>2. Sub(sub, c) = {}
    BY <1>6 DEF Sub
  <2>3. CASE y = NULL
    <3>1. \A a \in Linked(tr) : n \notin Sub(sub, tr.child[o][a])
      BY <1>0, <2>1, <2>3 DEF Above
    <3> QED
      BY <2>2, <2>3, <3>1 DEF Places
  <2>4. CASE y # NULL
    <3>1. /\ y \in Linked(tr) /\ n \in Sub(sub, tr.child[o][y])
          /\ \A a \in Linked(tr) : n \in Sub(sub, tr.child[o][a]) => y \in sub[a]
      BY <2>1, <2>4 DEF Above
    <3>2. n \in sub[y] /\ n # y
      BY <1>0, <3>1, InChild
    <3>3. Before(s, y, n)
      <4>1. Before(o, n, y)
        BY <1>0, <3>1, SubSides
      <4> QED
        BY <1>0, <1>1, <3>1, <4>1
    <3>4. ASSUME NEW a \in Linked(tr), n \in Sub(sub, tr.child[o][a]) PROVE y = a \/ Before(o, y, a)
      <4>1. SUFFICES ASSUME y # a PROVE Before(o, y, a)
        OBVIOUS
      <4>2. y \in sub[a]
        BY <3>1, <3>4
      <4>3. PICK x, z : x = tr.child[o][a] /\ z = tr.child[s][a]
        OBVIOUS
      <4>4. sub[a] = {a} \cup Sub(sub, z) \cup Sub(sub, x)
        BY <1>a, <4>3, SubSides
      <4>5. CASE y \in Sub(sub, x)
        BY <1>0, <4>3, <4>5, SubSides
      <4>6. CASE y \in Sub(sub, z)
        <5>1. sub[y] \subseteq Sub(sub, z)
          BY <4>3, <4>6, InChild
        <5>2. n \in Sub(sub, z)
          BY <3>2, <5>1
        <5>3. Before(s, n, a) /\ Before(o, n, a)
          BY <1>0, <3>4, <4>3, <5>2, SubSides
        <5> QED
          BY <1>0, <1>1, <1>2, <1>3, <5>3
      <4> QED
        BY <4>1, <4>2, <4>4, <4>5, <4>6
    <3>5. y \in Places(tr)
      BY <3>1 DEF Places
    <3> QED
      BY <2>2, <2>4, <3>1, <3>3, <3>4, <3>5
  <2> QED
    BY <2>3, <2>4
<1> QED
  BY <1>5, <1>6

-----------------------------------------------------------------------------
(* Nodes in the order of their keys.                                       *)

\* A finite set of nodes whose keys are different.
Distinct(S) == IsFiniteSet(S) /\ S \subseteq Nodes /\ \A m, n \in S : Key[m] = Key[n] => m = n

\* The nodes of S that come before n in direction d.
Behind(S, d, n) == {m \in S : IF d = "right" THEN Key[m] < Key[n] ELSE Key[m] > Key[n]}

\* Behind, in terms of Before.
LEMMA BehindIs ==
  ASSUME NEW S, S \subseteq Nodes, NEW d \in Sides, NEW m \in S, NEW n \in Nodes
  PROVE  /\ m \in Behind(S, d, n) <=> Before(d, n, m)
         /\ Before(d, n, m) <=> Before(Other(d), m, n)
<1>1. Key[m] \in Int /\ Key[n] \in Int
  BY KeyAssumption
<1> QED
  BY <1>1 DEF Behind, Before, Sides, Other

\* Every node of the set has a rank, and every rank its node.
LEMMA Ranks ==
  ASSUME NEW S, Distinct(S), NEW d \in Sides
  PROVE  /\ Cardinality(S) \in Nat
         /\ \A n \in S : Cardinality(Behind(S, d, n)) \in 0..(Cardinality(S) - 1)
         /\ \A m, n \in S : Cardinality(Behind(S, d, m)) = Cardinality(Behind(S, d, n)) => m = n
         /\ \A i \in 1..Cardinality(S) : \E n \in S : Cardinality(Behind(S, d, n)) = i - 1
<1>1. IsFiniteSet(S) /\ S \subseteq Nodes /\ \A n \in S : Key[n] \in Int
  BY KeyAssumption DEF Distinct
<1>2. Cardinality(S) \in Nat
  BY <1>1, FS_CardinalityType
<1>3. ASSUME NEW n \in S
      PROVE  IsFiniteSet(Behind(S, d, n)) /\ Cardinality(Behind(S, d, n)) \in Nat /\ Cardinality(Behind(S, d, n)) < Cardinality(S)
  <2>1. Behind(S, d, n) \subseteq S /\ n \notin Behind(S, d, n)
    BY <1>1 DEF Behind
  <2>2. Behind(S, d, n) # S
    BY <2>1
  <2> QED
    BY <1>1, <2>1, <2>2, FS_Subset, FS_CardinalityType
<1>4. ASSUME NEW m \in S, NEW n \in S, Before(d, m, n) PROVE Cardinality(Behind(S, d, n)) < Cardinality(Behind(S, d, m))
  <2>0. m \in Nodes /\ n \in Nodes
    BY <1>1
  <2>1. Behind(S, d, n) \subseteq Behind(S, d, m)
    <3>1. ASSUME NEW x \in S, x \in Behind(S, d, n) PROVE x \in Behind(S, d, m)
      <4>1. Before(d, n, x) /\ x \in Nodes
        BY <1>1, <2>0, <3>1, BehindIs
      <4>2. Before(d, m, x)
        BY <1>4, <2>0, <4>1, BeforeTransitive
      <4> QED
        BY <1>1, <2>0, <4>2, BehindIs
    <3>2. Behind(S, d, n) \subseteq S
      BY DEF Behind
    <3> QED
      BY <3>1, <3>2
  <2>2. n \in Behind(S, d, m) /\ n \notin Behind(S, d, n)
    <3>1. ~Before(d, n, n)
      BY <2>0, BeforeIrreflexive
    <3> QED
      BY <1>1, <1>4, <2>0, <3>1, BehindIs
  <2>3. Behind(S, d, n) # Behind(S, d, m)
    BY <2>2
  <2>4. IsFiniteSet(Behind(S, d, m)) /\ Cardinality(Behind(S, d, m)) \in Nat /\ Cardinality(Behind(S, d, n)) \in Nat
    BY <1>3
  <2>5. /\ Cardinality(Behind(S, d, n)) <= Cardinality(Behind(S, d, m))
        /\ Cardinality(Behind(S, d, n)) = Cardinality(Behind(S, d, m)) => Behind(S, d, n) = Behind(S, d, m)
    BY <2>1, <2>4, FS_Subset
  <2> QED
    BY <2>3, <2>4, <2>5
<1>5. ASSUME NEW m \in S, NEW n \in S, m # n PROVE Cardinality(Behind(S, d, m)) # Cardinality(Behind(S, d, n))
  <2>1. Key[m] # Key[n]
    BY <1>5 DEF Distinct
  <2>2. Before(d, n, m) \/ Before(d, m, n)
    BY <1>1, <2>1 DEF Before
  <2>3. Cardinality(Behind(S, d, m)) \in Nat /\ Cardinality(Behind(S, d, n)) \in Nat
    BY <1>3
  <2> QED
    BY <1>4, <2>2, <2>3
<1>6. PICK N : N = Cardinality(S)
  OBVIOUS
<1>7. PICK f : f = [n \in S |-> Cardinality(Behind(S, d, n))]
  OBVIOUS
<1>8. f \in [S -> 0..(N - 1)]
  BY <1>2, <1>3, <1>6, <1>7
<1>9. f \in Injection(S, 0..(N - 1))
  BY <1>5, <1>7, <1>8 DEF Injection, IsInjective
<1>10. IsFiniteSet(0..(N - 1)) /\ Cardinality(0..(N - 1)) = N
  <2>1. N \in Nat /\ 0 \in Int /\ N - 1 \in Int
    BY <1>2, <1>6
  <2>2. IsFiniteSet(0..(N - 1)) /\ Cardinality(0..(N - 1)) = IF 0 > N - 1 THEN 0 ELSE (N - 1) - 0 + 1
    BY <2>1, FS_Interval
  <2> QED
    BY <2>1, <2>2
<1>11. f \in Surjection(S, 0..(N - 1))
  BY <1>6, <1>9, <1>10, FS_Injection
<1>12. \A i \in 0..(N - 1) : \E n \in S : f[n] = i
  BY <1>11 DEF Surjection
<1>13. ASSUME NEW i \in 1..N PROVE \E n \in S : Cardinality(Behind(S, d, n)) = i - 1
  <2>1. i - 1 \in 0..(N - 1)
    BY <1>2, <1>6
  <2> QED
    BY <1>7, <1>12, <2>1
<1>14. \A n \in S : Cardinality(Behind(S, d, n)) \in 0..(N - 1)
  BY <1>2, <1>3, <1>6
<1> QED
  BY <1>2, <1>5, <1>6, <1>13, <1>14

\* InKeyOrder lists the set by rank.
LEMMA OrderIs ==
  ASSUME NEW S, Distinct(S), NEW d \in Sides, NEW q, q = InKeyOrder(S, d)
  PROVE  /\ q \in Seq(S) /\ Len(q) = Cardinality(S)
         /\ \A i \in 1..Len(q) : q[i] \in S /\ Cardinality(Behind(S, d, q[i])) = i - 1
<1>1. Cardinality(S) \in Nat /\ \A i \in 1..Cardinality(S) : \E n \in S : Cardinality(Behind(S, d, n)) = i - 1
  BY Ranks
<1>2. PICK N : N = Cardinality(S)
  OBVIOUS
<1>3. q = [i \in 1..N |-> CHOOSE n \in S : Cardinality(Behind(S, d, n)) = i - 1]
  BY <1>2, Zenon DEF InKeyOrder, Behind
<1>4. \A i \in 1..N : q[i] \in S /\ Cardinality(Behind(S, d, q[i])) = i - 1
  <2>1. ASSUME NEW i \in 1..N PROVE q[i] \in S /\ Cardinality(Behind(S, d, q[i])) = i - 1
    <3>1. q[i] = CHOOSE n \in S : Cardinality(Behind(S, d, n)) = i - 1
      BY <1>3
    <3>2. \E n \in S : Cardinality(Behind(S, d, n)) = i - 1
      BY <1>1, <1>2
    <3> QED
      BY <3>1, <3>2, Zenon
  <2> QED
    BY <2>1
<1>5. q \in [1..N -> S]
  <2>1. q = [i \in 1..N |-> q[i]]
    BY <1>3
  <2> QED
    BY <1>4, <2>1
<1>6. q \in Seq(S) /\ Len(q) = N
  BY <1>1, <1>2, <1>5
<1> QED
  BY <1>2, <1>4, <1>6

\* It is the only sequence that does.
LEMMA OrderOnce ==
  ASSUME NEW S, Distinct(S), NEW d \in Sides, NEW q \in Seq(S), Len(q) = Cardinality(S),
         \A i \in 1..Len(q) : Cardinality(Behind(S, d, q[i])) = i - 1
  PROVE  q = InKeyOrder(S, d)
<1>1. PICK r : r = InKeyOrder(S, d)
  OBVIOUS
<1>2. /\ r \in Seq(S) /\ Len(r) = Cardinality(S)
      /\ \A i \in 1..Len(r) : r[i] \in S /\ Cardinality(Behind(S, d, r[i])) = i - 1
  BY <1>1, OrderIs
<1>3. \A m, n \in S : Cardinality(Behind(S, d, m)) = Cardinality(Behind(S, d, n)) => m = n
  BY Ranks
<1>4. ASSUME NEW i \in 1..Len(q) PROVE q[i] = r[i]
  <2>1. q[i] \in S /\ r[i] \in S
    BY <1>2, ElementOfSeq
  <2>2. Cardinality(Behind(S, d, q[i])) = Cardinality(Behind(S, d, r[i]))
    BY <1>2
  <2> QED
    BY <1>3, <2>1, <2>2
<1> QED
  BY <1>1, <1>2, <1>4, SeqEqual

\* The number of elements of two disjoint sets and one more element.
LEMMA DisjointUnion ==
  ASSUME NEW A, NEW B, NEW n, IsFiniteSet(A), IsFiniteSet(B), n \notin A, n \notin B, A \cap B = {}
  PROVE  /\ Cardinality(A) \in Nat /\ Cardinality(B) \in Nat
         /\ Cardinality(A \cup {n} \cup B) = Cardinality(A) + 1 + Cardinality(B)
<1>1. Cardinality(A) \in Nat /\ Cardinality(B) \in Nat
  BY FS_CardinalityType
<1>2. IsFiniteSet(A \cup {n}) /\ Cardinality(A \cup {n}) = Cardinality(A) + 1
  BY FS_AddElement
<1>3. (A \cup {n}) \cap B = {}
  OBVIOUS
<1>4. Cardinality(A \cup {n} \cup B) = Cardinality(A \cup {n}) + Cardinality(B) - Cardinality((A \cup {n}) \cap B)
  BY <1>2, FS_Union
<1>5. Cardinality({}) = 0
  BY FS_EmptySet
<1>6. Cardinality((A \cup {n}) \cap B) = 0
  BY <1>3, <1>5
<1> QED
  BY <1>1, <1>2, <1>4, <1>6

\* In direction d, S is A, then n, then B.
Split(S, d, A, n, B) ==
    /\ S = A \cup {n} \cup B /\ Distinct(S) /\ d \in Sides
    /\ \A a \in A : Before(d, n, a)
    /\ \A b \in B : Before(d, b, n)

\* The nodes behind one, the node and those ahead of it, in order.
LEMMA OrderConcat ==
  ASSUME NEW S, NEW d, NEW A, NEW n, NEW B, Split(S, d, A, n, B)
  PROVE  InKeyOrder(S, d) = (InKeyOrder(A, d) \o <<n>>) \o InKeyOrder(B, d)
<1> USE DEF Split
<1>0. Distinct(A) /\ Distinct(B) /\ n \in S /\ S \subseteq Nodes /\ A \subseteq S /\ B \subseteq S /\ n \in Nodes
  BY FS_Subset DEF Distinct
<1>1. IsFiniteSet(A) /\ IsFiniteSet(B) /\ n \notin A /\ n \notin B /\ A \cap B = {}
  <2>1. IsFiniteSet(A) /\ IsFiniteSet(B)
    BY <1>0 DEF Distinct
  <2>2. \A a \in Nodes : Before(d, n, a) => a # n /\ ~Before(d, a, n)
    BY <1>0, BeforeIrreflexive, BeforeTransitive
  <2> QED
    BY <1>0, <2>1, <2>2
<1>2. PICK j, k : j = Cardinality(A) /\ k = Cardinality(B)
  OBVIOUS
<1>3. j \in Nat /\ k \in Nat /\ Cardinality(S) = j + 1 + k
  BY <1>1, <1>2, DisjointUnion
<1>4. ASSUME NEW a \in A PROVE Behind(S, d, a) = Behind(A, d, a)
  <2>1. Behind(S, d, a) \subseteq A
    <3>1. ASSUME NEW m \in S, m \in Behind(S, d, a) PROVE m \in A
      <4>1. Before(d, a, m) /\ a \in Nodes /\ m \in Nodes
        BY <1>0, <3>1, BehindIs
      <4>2. Before(d, n, a)
        BY <1>4
      <4>3. Before(d, n, m)
        BY <1>0, <4>1, <4>2, BeforeTransitive
      <4>4. m # n /\ ~Before(d, m, n)
        BY <1>0, <4>1, <4>3, BeforeIrreflexive, BeforeTransitive
      <4> QED
        BY <4>4
    <3>2. Behind(S, d, a) \subseteq S
      BY DEF Behind
    <3> QED
      BY <3>1, <3>2
  <2> QED
    BY <1>0, <2>1 DEF Behind
<1>5. Behind(S, d, n) = A
  <2>1. \A m \in S : m \in Behind(S, d, n) <=> Before(d, n, m)
    BY <1>0, BehindIs
  <2>2. \A m \in B : ~Before(d, n, m)
    BY <1>0, BeforeIrreflexive, BeforeTransitive
  <2>3. ~Before(d, n, n)
    BY <1>0, BeforeIrreflexive
  <2>4. Behind(S, d, n) \subseteq S
    BY DEF Behind
  <2> QED
    BY <1>0, <2>1, <2>2, <2>3, <2>4
<1>6. ASSUME NEW b \in B PROVE Cardinality(Behind(S, d, b)) = j + 1 + Cardinality(Behind(B, d, b))
  <2>0. Before(d, b, n) /\ b \in Nodes
    BY <1>0
  <2>1. Behind(S, d, b) = A \cup {n} \cup Behind(B, d, b)
    <3>1. \A m \in S : m \in Behind(S, d, b) <=> Before(d, b, m)
      BY <1>0, <2>0, BehindIs
    <3>2. \A m \in B : m \in Behind(B, d, b) <=> Before(d, b, m)
      BY <1>0, <2>0, BehindIs
    <3>3. \A m \in A : Before(d, b, m)
      BY <1>0, <2>0, BeforeTransitive
    <3>4. Behind(S, d, b) \subseteq S /\ Behind(B, d, b) \subseteq B
      BY DEF Behind
    <3> QED
      BY <1>0, <2>0, <3>1, <3>2, <3>3, <3>4
  <2>2. Behind(B, d, b) \subseteq B
    BY DEF Behind
  <2>3. IsFiniteSet(Behind(B, d, b)) /\ n \notin Behind(B, d, b) /\ A \cap Behind(B, d, b) = {}
    BY <1>1, <2>2, FS_Subset
  <2>4. Cardinality(A \cup {n} \cup Behind(B, d, b)) = Cardinality(A) + 1 + Cardinality(Behind(B, d, b))
    BY <1>1, <2>3, DisjointUnion
  <2> QED
    BY <1>2, <2>1, <2>4
<1>7. PICK qa, qb : qa = InKeyOrder(A, d) /\ qb = InKeyOrder(B, d)
  OBVIOUS
<1>8. /\ qa \in Seq(A) /\ Len(qa) = j
      /\ \A i \in 1..j : qa[i] \in A /\ Cardinality(Behind(A, d, qa[i])) = i - 1
  <2>0. Distinct(A) /\ d \in Sides /\ qa = InKeyOrder(A, d)
    BY <1>0, <1>7
  <2>1. /\ qa \in Seq(A) /\ Len(qa) = Cardinality(A)
        /\ \A i \in 1..Len(qa) : qa[i] \in A /\ Cardinality(Behind(A, d, qa[i])) = i - 1
    BY <2>0, OrderIs
  <2> QED
    BY <1>2, <2>1
<1>9. /\ qb \in Seq(B) /\ Len(qb) = k
      /\ \A i \in 1..k : qb[i] \in B /\ Cardinality(Behind(B, d, qb[i])) = i - 1
  <2>0. Distinct(B) /\ d \in Sides /\ qb = InKeyOrder(B, d)
    BY <1>0, <1>7
  <2>1. /\ qb \in Seq(B) /\ Len(qb) = Cardinality(B)
        /\ \A i \in 1..Len(qb) : qb[i] \in B /\ Cardinality(Behind(B, d, qb[i])) = i - 1
    BY <2>0, OrderIs
  <2> QED
    BY <1>2, <2>1
<1>10. PICK q1 : q1 = qa \o <<n>>
  OBVIOUS
<1>11. PICK q : q = q1 \o qb
  OBVIOUS
<1>12. qa \in Seq(S) /\ qb \in Seq(S) /\ <<n>> \in Seq(S) /\ Len(<<n>>) = 1 /\ <<n>>[1] = n
  BY <1>0, <1>8, <1>9, SeqMonotonic
<1>13. /\ q1 \in Seq(S) /\ Len(q1) = j + 1
       /\ \A i \in 1..(j + 1) : q1[i] = IF i <= j THEN qa[i] ELSE <<n>>[i - j]
  <2>1. /\ q1 \in Seq(S) /\ Len(q1) = Len(qa) + Len(<<n>>)
        /\ \A i \in 1..(Len(qa) + Len(<<n>>)) : q1[i] = IF i <= Len(qa) THEN qa[i] ELSE <<n>>[i - Len(qa)]
    BY <1>10, <1>12, ConcatProperties
  <2> QED
    BY <1>8, <1>12, <2>1
<1>14. /\ q \in Seq(S) /\ Len(q) = j + 1 + k
       /\ \A i \in 1..(j + 1 + k) : q[i] = IF i <= j + 1 THEN q1[i] ELSE qb[i - (j + 1)]
  <2>1. /\ q \in Seq(S) /\ Len(q) = Len(q1) + Len(qb)
        /\ \A i \in 1..(Len(q1) + Len(qb)) : q[i] = IF i <= Len(q1) THEN q1[i] ELSE qb[i - Len(q1)]
    BY <1>11, <1>12, <1>13, ConcatProperties
  <2> QED
    BY <1>9, <1>13, <2>1
<1>15. ASSUME NEW i \in 1..(j + 1 + k) PROVE Cardinality(Behind(S, d, q[i])) = i - 1
  <2>1. CASE i \in 1..j
    <3>1. q[i] = qa[i]
      BY <1>3, <1>13, <1>14, <2>1
    <3> QED
      BY <1>4, <1>8, <2>1, <3>1
  <2>2. CASE i = j + 1
    <3>1. q[i] = n
      BY <1>3, <1>12, <1>13, <1>14, <2>2
    <3> QED
      BY <1>2, <1>3, <1>5, <2>2, <3>1
  <2>3. CASE i \in (j + 2)..(j + 1 + k)
    <3>1. q[i] = qb[i - (j + 1)] /\ i - (j + 1) \in 1..k
      BY <1>3, <1>14, <2>3
    <3>2. q[i] \in B /\ Cardinality(Behind(B, d, q[i])) = i - (j + 1) - 1
      BY <1>9, <3>1
    <3>3. Cardinality(Behind(S, d, q[i])) = j + 1 + (i - (j + 1) - 1)
      BY <1>6, <3>2
    <3> QED
      BY <1>3, <3>3
  <2>4. i \in 1..j \/ i = j + 1 \/ i \in (j + 2)..(j + 1 + k)
    BY <1>3
  <2> QED
    BY <2>1, <2>2, <2>3, <2>4
<1>16. q = InKeyOrder(S, d)
  BY <1>3, <1>14, <1>15, OrderOnce
<1> QED
  BY <1>7, <1>10, <1>11, <1>16

\* The empty set in order.
LEMMA OrderEmpty ==
  ASSUME NEW d
  PROVE  InKeyOrder({}, d) = <<>>
<1>1. Cardinality({}) = 0
  BY FS_EmptySet
<1> QED
  BY <1>1 DEF InKeyOrder

\* The keys of a tree's nodes are different.
LEMMA DistinctSub ==
  ASSUME NEW tr, NEW sub, Tree(tr, sub), NEW S, S \subseteq Linked(tr)
  PROVE  Distinct(S)
<1>1. IsFiniteSet(S) /\ S \subseteq Nodes
  BY FS_Subset DEF Tree, Shaped
<1>2. ASSUME NEW m \in S, NEW n \in S, Key[m] = Key[n], m # n PROVE FALSE
  <2>1. m \in Linked(tr) /\ n \in Linked(tr) /\ "left" \in Sides /\ m \in Nodes /\ n \in Nodes
    BY <1>1 DEF Sides
  <2>2. Before("left", m, n) \/ Before("left", n, m)
    BY <1>2, <2>1, Comparable
  <2> QED
    BY <1>2, <2>1, <2>2, KeyAssumption DEF Before
<1> QED
  BY <1>1, <1>2 DEF Distinct

-----------------------------------------------------------------------------
(* What is reached from the root, and what a loop sees.                    *)

\* The nodes below n, in order.
Listed(sub, n) == InKeyOrder(Sub(sub, n), "right")

\* The nodes on the left of n, n, and those on its right.
Joined(a, n, b) == (a \o <<n>>) \o b

\* The nodes below n in order are those on the left, n, and those on the right.
LEMMA TraversalStep ==
  ASSUME NEW tr, NEW sub, Tree(tr, sub), NEW n \in Linked(tr), NEW x, x = tr.child["left"][n], NEW y, y = tr.child["right"][n]
  PROVE  Listed(sub, n) = Joined(Listed(sub, x), n, Listed(sub, y))
<1>1. "left" \in Sides /\ "right" \in Sides /\ Other("left") = "right" /\ n # NULL
  BY Fields DEF Sides, Other
<1>2. Sub(sub, n) = Sub(sub, x) \cup {n} \cup Sub(sub, y) /\ Sub(sub, n) \subseteq Linked(tr)
  <2>1. sub[n] = {n} \cup Sub(sub, x) \cup Sub(sub, y) /\ sub[n] \subseteq Linked(tr)
    BY DEF Tree, Spans
  <2> QED
    BY <1>1, <2>1 DEF Sub
<1>3. Distinct(Sub(sub, n))
  BY <1>2, DistinctSub
<1>4. ASSUME NEW a \in Sub(sub, x) PROVE Before("right", n, a)
  <2>1. Before("left", a, n)
    BY <1>1, SubSides
  <2>2. a \in Nodes /\ n \in Nodes
    BY <1>2, Fields
  <2>3. Before(Other("left"), n, a)
    BY <1>1, <2>1, <2>2, BeforeIrreflexive
  <2> QED
    BY <1>1, <2>3
<1>5. ASSUME NEW b \in Sub(sub, y) PROVE Before("right", b, n)
  BY <1>1, SubSides
<1>6. Split(Sub(sub, n), "right", Sub(sub, x), n, Sub(sub, y))
  BY <1>1, <1>2, <1>3, <1>4, <1>5 DEF Split
<1> QED
  BY <1>6, OrderConcat DEF Listed, Joined

\* What is reached from the root through the child pointers is what is linked.
LEMMA TraversalIs ==
  ASSUME NEW tr, NEW sub, Tree(tr, sub)
  PROVE  Traversal(tr) = InKeyOrder(Linked(tr), "right")
<1> DEFINE Solves(f) == f = [n \in Places(tr) |-> IF n = NULL THEN <<>>
                                 ELSE f[tr.child["left"][n]] \o <<n>> \o f[tr.child["right"][n]]]
<1>1. PICK g : g = [n \in Places(tr) |-> Listed(sub, n)]
  OBVIOUS
<1>2. ASSUME NEW n \in Linked(tr)
      PROVE  /\ tr.child["left"][n] \in Places(tr) /\ tr.child["right"][n] \in Places(tr)
             /\ g[n] = g[tr.child["left"][n]] \o <<n>> \o g[tr.child["right"][n]]
  <2>1. PICK x, y : x = tr.child["left"][n] /\ y = tr.child["right"][n]
    OBVIOUS
  <2>a. n \in Linked(tr) /\ x = tr.child["left"][n] /\ y = tr.child["right"][n]
    BY <2>1
  <2>2. x \in Places(tr) /\ y \in Places(tr) /\ n \in Places(tr)
    BY <2>1, Fields DEF Sides, Places
  <2>3. Listed(sub, n) = Joined(Listed(sub, x), n, Listed(sub, y))
    BY <2>a, TraversalStep
  <2>4. g[n] = Listed(sub, n) /\ g[x] = Listed(sub, x) /\ g[y] = Listed(sub, y)
    BY <1>1, <2>2
  <2> QED
    BY <2>1, <2>2, <2>3, <2>4 DEF Joined
<1>3. NULL \in Places(tr) /\ NULL \notin Linked(tr) /\ g[NULL] = <<>>
  <2>1. NULL \in Places(tr) /\ NULL \notin Linked(tr)
    BY Fields DEF Places
  <2>2. Sub(sub, NULL) = {}
    BY DEF Sub
  <2> QED
    BY <1>1, <2>1, <2>2, OrderEmpty DEF Listed
<1>4. Solves(g)
  <2>1. \A n \in Places(tr) : g[n] = IF n = NULL THEN <<>> ELSE g[tr.child["left"][n]] \o <<n>> \o g[tr.child["right"][n]]
    BY <1>2, <1>3 DEF Places
  <2> QED
    BY <1>1, <2>1
<1>5. PICK w : w = CHOOSE f : Solves(f)
  OBVIOUS
<1>6. Solves(w)
  BY <1>4, <1>5, Zenon
<1>7. Traversal(tr) = w[tr.root]
  BY <1>5, Zenon DEF Traversal
<1>8. \A n \in Places(tr) : w[n] = IF n = NULL THEN <<>> ELSE w[tr.child["left"][n]] \o <<n>> \o w[tr.child["right"][n]]
  BY <1>6, Zenon
<1> HIDE DEF Solves
<1>9. PICK Bad : Bad = {n \in Linked(tr) : w[n] # g[n]}
  OBVIOUS
<1>10. ASSUME NEW n \in Bad PROVE \E d \in Sides : tr.child[d][n] \in Bad
  <2>1. n \in Linked(tr) /\ w[n] # g[n] /\ n \in Places(tr) /\ n # NULL
    BY <1>3, <1>9 DEF Places
  <2>2. PICK x, y : x = tr.child["left"][n] /\ y = tr.child["right"][n]
    OBVIOUS
  <2>3. x \in Places(tr) /\ y \in Places(tr) /\ g[n] = g[x] \o <<n>> \o g[y]
    BY <1>2, <2>1, <2>2
  <2>4. w[n] = w[x] \o <<n>> \o w[y]
    BY <1>8, <2>1, <2>2
  <2>5. w[x] # g[x] \/ w[y] # g[y]
    BY <2>1, <2>3, <2>4
  <2>6. w[NULL] = g[NULL]
    BY <1>3, <1>8
  <2>7. (x \in Linked(tr) /\ w[x] # g[x]) \/ (y \in Linked(tr) /\ w[y] # g[y])
    BY <2>3, <2>5, <2>6 DEF Places
  <2> QED
    BY <1>9, <2>2, <2>7 DEF Sides
<1>11. Bad = {}
  <2>1. Bad \subseteq Linked(tr)
    BY <1>9
  <2> QED
    BY <1>10, <2>1, Descent
<1>12. tr.root \in Places(tr) /\ Sub(sub, tr.root) = Linked(tr)
  BY Fields DEF Tree, Spans
<1>13. w[NULL] = g[NULL]
  BY <1>3, <1>8
<1>14. w[tr.root] = g[tr.root]
  BY <1>9, <1>11, <1>12, <1>13 DEF Places
<1> QED
  BY <1>1, <1>7, <1>12, <1>14 DEF Listed

\* The nodes of tr from n on in direction d.
AheadOf(tr, n, d) == {m \in Linked(tr) : IF d = "right" THEN Key[m] >= Key[n] ELSE Key[m] <= Key[n]}

\* AheadOf, in terms of Before.
LEMMA AheadIs ==
  ASSUME NEW tr, NEW sub, Tree(tr, sub), NEW n \in Linked(tr), NEW d \in Sides, NEW m \in Linked(tr)
  PROVE  m \in AheadOf(tr, n, d) <=> m = n \/ Before(d, m, n)
<1>1. m \in Nodes /\ n \in Nodes /\ Key[m] \in Int /\ Key[n] \in Int
  BY Fields, KeyAssumption
<1>2. Key[m] = Key[n] => m = n
  <2>1. {m, n} \subseteq Linked(tr)
    OBVIOUS
  <2>2. Distinct({m, n})
    BY <2>1, DistinctSub
  <2> QED
    BY <2>2 DEF Distinct
<1> QED
  BY <1>1, <1>2 DEF AheadOf, Before, Sides

\* A loop's next node is the first of those that are left.
LEMMA ForeachNext ==
  ASSUME NEW tr, NEW sub, Tree(tr, sub), NEW n \in Linked(tr), NEW d \in Sides, NEW y, y = RB_NEXT(tr, n, d),
         NEW B, B = IF y = NULL THEN {} ELSE AheadOf(tr, y, d)
  PROVE  /\ y \in Places(tr) /\ y # n /\ n \notin B
         /\ InKeyOrder(AheadOf(tr, n, d), d) = <<n>> \o InKeyOrder(B, d)
         /\ InKeyOrder(B, d) \in Seq(Nodes)
<1>1. Neighbour(tr, d, n, y)
  BY NextIs
<1>2. y \in Places(tr) /\ y # n /\ (y # NULL => Before(d, y, n) /\ y \in Linked(tr)) /\ NULL \notin Linked(tr) /\ n \in Nodes
  BY <1>1, Fields DEF Neighbour, Places
<1>3. ASSUME NEW m \in Linked(tr) PROVE m \in B <=> Before(d, m, n)
  <2>1. m \in Nodes
    BY Fields
  <2>2. CASE y = NULL
    <3>1. ~Before(d, m, n)
      BY <1>1, <2>2 DEF Neighbour
    <3> QED
      BY <2>2, <3>1
  <2>3. CASE y # NULL
    <3>1. m \in B <=> m = y \/ Before(d, m, y)
      BY <1>2, <2>3, AheadIs
    <3>2. Before(d, m, n) => m = y \/ Before(d, m, y)
      BY <1>1 DEF Neighbour
    <3>3. y \in Nodes
      BY <1>2, <2>3, Fields
    <3>4. Before(d, m, y) => Before(d, m, n)
      BY <1>2, <2>1, <2>3, <3>3, BeforeTransitive
    <3> QED
      BY <1>2, <2>3, <3>1, <3>2, <3>4
  <2> QED
    BY <2>2, <2>3
<1>4. B \subseteq Linked(tr) /\ AheadOf(tr, n, d) \subseteq Linked(tr)
  BY DEF AheadOf
<1>5. AheadOf(tr, n, d) = {} \cup {n} \cup B
  <2>1. \A m \in Linked(tr) : m \in AheadOf(tr, n, d) <=> m = n \/ Before(d, m, n)
    BY AheadIs
  <2> QED
    BY <1>3, <1>4, <2>1
<1>6. \A b \in B : Before(d, b, n)
  BY <1>3, <1>4
<1>7. n \notin B
  <2>1. ~Before(d, n, n)
    BY <1>2, BeforeIrreflexive
  <2> QED
    BY <1>6, <2>1
<1>8. Distinct(AheadOf(tr, n, d)) /\ Distinct(B)
  BY <1>4, DistinctSub
<1>9. InKeyOrder(AheadOf(tr, n, d), d) = (InKeyOrder({}, d) \o <<n>>) \o InKeyOrder(B, d)
  <2>1. PICK A, S : A = {} /\ S = AheadOf(tr, n, d)
    OBVIOUS
  <2>2. S = A \cup {n} \cup B /\ Distinct(S)
    BY <1>5, <1>8, <2>1
  <2>3. \A a \in A : Before(d, n, a)
    BY <2>1
  <2>a. Split(S, d, A, n, B)
    BY <1>6, <2>2, <2>3 DEF Split
  <2>4. InKeyOrder(S, d) = (InKeyOrder(A, d) \o <<n>>) \o InKeyOrder(B, d)
    BY <2>a, OrderConcat
  <2> QED
    BY <2>1, <2>4
<1>10. InKeyOrder({}, d) \o <<n>> = <<n>>
  <2>1. <<n>> \in Seq(Nodes)
    BY <1>2
  <2> QED
    BY <2>1, OrderEmpty, ConcatEmptySeq
<1>11. InKeyOrder(B, d) \in Seq(Nodes)
  <2>1. InKeyOrder(B, d) \in Seq(B) /\ B \subseteq Nodes
    BY <1>8, OrderIs DEF Distinct
  <2> QED
    BY <2>1, SeqMonotonic
<1> QED
  BY <1>2, <1>7, <1>9, <1>10, <1>11

-----------------------------------------------------------------------------
(* The invariant and the steps.                                            *)

\* The tree and the operation under way.
TreeState(tr, o) ==
    /\ o = [pc |-> o.pc, elm |-> o.elm, parent |-> o.parent]
    /\ \E sub, h : TreeInv(tr, o.pc, o.elm, o.parent, sub, h)

\* The nodes a loop that is at x has still to visit.
Remaining(tr, x, d) == IF x = NULL THEN <<>> ELSE InKeyOrder(AheadOf(tr, x, d), d)

\* The loop under way: what it has seen and what is left is what was due.
LoopState(tr, lp) ==
    /\ lp = [on |-> lp.on, x |-> lp.x, dir |-> lp.dir, seen |-> lp.seen, due |-> lp.due]
    /\ lp.x \in Places(tr) /\ lp.dir \in Sides /\ lp.seen \in Seq(Nodes)
    /\ ~lp.on => lp.x = NULL
    /\ lp.on => lp.due = lp.seen \o Remaining(tr, lp.x, lp.dir)

\* The invariant of the specification.
TreeIInv == TreeState(tree, op) /\ LoopState(tree, loop)

\* A loop only depends on which nodes are linked.
LEMMA LoopSame ==
  ASSUME NEW tr, NEW q, NEW lp, LoopState(tr, lp), Linked(q) = Linked(tr)
  PROVE  LoopState(q, lp)
<1>1. Places(q) = Places(tr) /\ \A x, d : Remaining(q, x, d) = Remaining(tr, x, d)
  BY DEF Places, Remaining, AheadOf
<1> QED
  BY <1>1 DEF LoopState

\* Where no loop is under way, any tree will do.
LEMMA LoopOff ==
  ASSUME NEW tr, NEW q, NEW lp, LoopState(tr, lp), ~lp.on
  PROVE  LoopState(q, lp)
  BY DEF LoopState, Places

\* A state whose operation is op' and whose tree is q.
LEMMA StateIs ==
  ASSUME NEW q, NEW pc, NEW elm, NEW par, \E sub, h : TreeInv(q, pc, elm, par, sub, h),
         NEW o, o = [pc |-> pc, elm |-> elm, parent |-> par]
  PROVE  TreeState(q, o)
<1>1. o.pc = pc /\ o.elm = elm /\ o.parent = par
  OBVIOUS
<1> QED
  BY <1>1 DEF TreeState

\* RB_INSERT links one node and keeps the invariant.
LEMMA InsertStep ==
  ASSUME TreeIInv, NEW n \in Nodes, RB_INSERT(n)
  PROVE  TreeIInv' /\ n \notin Linked(tree) /\ Linked(tree') = Linked(tree) \cup {n}
<1>1. PICK sub, h : TreeInv(tree, op.pc, op.elm, op.parent, sub, h)
  BY DEF TreeIInv, TreeState
<1>2. op.pc = "idle" /\ op.elm = NULL /\ op.parent = NULL
  BY <1>1 DEF RB_INSERT, Idle, TreeInv, OpShape
<1>3. TreeInv(tree, "idle", NULL, NULL, sub, h)
  BY <1>1, <1>2
<1>4. PICK p, s : p = InsertionPoint(tree, Key[n]) /\ s = IF p = NULL THEN "left" ELSE Toward(Key[n], p)
  OBVIOUS
<1>5. /\ n \notin Linked(tree) /\ RB_FIND(tree, Key[n]) = NULL /\ tree' = RB_SET(tree, n, p, s)
      /\ op' = [pc |-> "insert_color", elm |-> n, parent |-> NULL] /\ loop' = loop /\ ~loop.on
  BY <1>4 DEF RB_INSERT
<1>6. Linked(tree') = Linked(tree) \cup {n} /\ \E r, g : TreeInv(tree', "insert_color", n, NULL, r, g)
  BY <1>3, <1>4, <1>5, InsertKeeps
<1>7. TreeState(tree', op')
  BY <1>5, <1>6, StateIs
<1>8. LoopState(tree', loop')
  <2>1. LoopState(tree', loop)
    BY <1>5, LoopOff DEF TreeIInv
  <2> QED
    BY <1>5, <2>1
<1> QED
  BY <1>5, <1>6, <1>7, <1>8 DEF TreeIInv

\* An iteration of RB_INSERT_COLOR keeps the invariant and the nodes.
LEMMA InsertColorStep ==
  ASSUME TreeIInv, RB_INSERT_COLOR
  PROVE  TreeIInv' /\ Linked(tree') = Linked(tree)
<1>1. PICK sub, h : TreeInv(tree, op.pc, op.elm, op.parent, sub, h)
  BY DEF TreeIInv, TreeState
<1>a. PICK elm, par, p, gp, s, u :
        /\ elm = op.elm /\ par = op.parent /\ p = tree.parent[elm] /\ gp = tree.parent[p]
        /\ s = Side(tree, gp, p) /\ u = tree.child[Other(s)][gp]
  OBVIOUS
<1>2. /\ op.pc = "insert_color" /\ p # NULL /\ tree.color[p] = "red" /\ loop' = loop
      /\ op = [pc |-> "insert_color", elm |-> elm, parent |-> par]
  BY <1>a DEF RB_INSERT_COLOR, TreeIInv, TreeState
<1>3. TreeInv(tree, "insert_color", elm, par, sub, h)
  BY <1>1, <1>2, <1>a
<1>4. Tree(tree, sub) /\ RedRule(tree, "insert_color", elm) /\ elm \in Linked(tree) /\ tree.color[elm] = "red"
  BY <1>3 DEF TreeInv, OpShape
<1>5. RedPair(tree, elm, p, gp, s)
  BY <1>2, <1>4, <1>a, RedPairs
<1>6. CASE IsRed(tree, u)
  <2>1. tree' = InsertRecolor(tree, elm) /\ op' = [op EXCEPT !.elm = gp]
    BY <1>6, <1>a DEF RB_INSERT_COLOR
  <2>2. op' = [pc |-> "insert_color", elm |-> gp, parent |-> par]
    BY <1>2, <2>1
  <2>a. PICK q : q = InsertRecolor(tree, elm)
    OBVIOUS
  <2>b. /\ TreeInv(tree, "insert_color", elm, par, sub, h) /\ RedPair(tree, elm, p, gp, s)
        /\ u = tree.child[Other(s)][gp] /\ IsRed(tree, u) /\ q = InsertRecolor(tree, elm)
    BY <1>3, <1>5, <1>6, <1>a, <2>a
  <2>c. Linked(q) = Linked(tree) /\ \E g : TreeInv(q, "insert_color", gp, par, sub, g)
    BY <2>b, InsertRecolorKeeps
  <2>3. Linked(tree') = Linked(tree) /\ \E g : TreeInv(tree', "insert_color", gp, par, sub, g)
    BY <2>1, <2>a, <2>c
  <2>4. \E r, g : TreeInv(tree', "insert_color", gp, par, r, g)
    BY <2>3
  <2>5. TreeState(tree', op')
    BY <2>2, <2>4, StateIs
  <2> QED
    BY <1>2, <2>3, <2>5, LoopSame DEF TreeIInv
<1>7. CASE ~IsRed(tree, u)
  <2>1. PICK inner : inner = (tree.child[Other(s)][p] = elm)
    OBVIOUS
  <2>2. tree' = InsertRotate(tree, elm) /\ op' = [op EXCEPT !.elm = IF inner THEN p ELSE elm]
    BY <1>7, <1>a, <2>1 DEF RB_INSERT_COLOR
  <2>3. ~IsRed(tree, tree.child[Other(s)][gp])
    BY <1>7, <1>a
  <2>4. CASE inner
    <3>1. PICK q : q = RB_ROTATE(tree, p, s)
      OBVIOUS
    <3>2. tree.child[Other(s)][p] = elm
      BY <2>1, <2>4
    <3>3. /\ Linked(q) = Linked(tree) /\ RedPair(q, p, elm, gp, s)
          /\ ~IsRed(q, q.child[Other(s)][gp]) /\ q.child[Other(s)][elm] # p
          /\ \E sub2, h2 : TreeInv(q, "insert_color", p, par, sub2, h2)
      BY <1>3, <1>5, <2>3, <3>1, <3>2, InsertInner
    <3>4. PICK sub2, h2 : TreeInv(q, "insert_color", p, par, sub2, h2)
      BY <3>3
    <3>5. tree' = RB_ROTATE(RB_SET_BLACKRED(q, elm, gp), gp, Other(s))
      BY <1>a, <2>2, <3>1, <3>2 DEF InsertRotate
    <3>6. Linked(tree') = Linked(q) /\ \E r, g : TreeInv(tree', "insert_color", p, par, r, g)
      BY <3>3, <3>4, <3>5, InsertOuter
    <3>7. op' = [pc |-> "insert_color", elm |-> p, parent |-> par]
      BY <1>2, <2>2, <2>4
    <3>8. TreeState(tree', op')
      BY <3>6, <3>7, StateIs
    <3>9. Linked(tree') = Linked(tree)
      BY <3>3, <3>6
    <3> QED
      BY <1>2, <3>8, <3>9, LoopSame DEF TreeIInv
  <2>5. CASE ~inner
    <3>1. tree.child[Other(s)][p] # elm
      BY <2>1, <2>5
    <3>2. tree' = RB_ROTATE(RB_SET_BLACKRED(tree, p, gp), gp, Other(s))
      BY <1>a, <2>2, <3>1 DEF InsertRotate
    <3>3. Linked(tree') = Linked(tree) /\ \E r, g : TreeInv(tree', "insert_color", elm, par, r, g)
      BY <1>3, <1>5, <2>3, <3>1, <3>2, InsertOuter
    <3>4. op' = [pc |-> "insert_color", elm |-> elm, parent |-> par]
      BY <1>2, <2>2, <2>5
    <3>5. TreeState(tree', op')
      BY <3>3, <3>4, StateIs
    <3> QED
      BY <1>2, <3>3, <3>5, LoopSame DEF TreeIInv
  <2> QED
    BY <2>4, <2>5
<1> QED
  BY <1>6, <1>7

\* The end of RB_INSERT_COLOR leaves an idle tree.
LEMMA InsertDoneStep ==
  ASSUME TreeIInv, InsertDone
  PROVE  TreeIInv' /\ Linked(tree') = Linked(tree)
<1>1. PICK sub, h : TreeInv(tree, op.pc, op.elm, op.parent, sub, h)
  BY DEF TreeIInv, TreeState
<1>2. /\ op.pc = "insert_color" /\ ~IsRed(tree, tree.parent[op.elm]) /\ tree' = SetColor(tree, tree.root, "black")
      /\ op' = Done /\ loop' = loop
  BY DEF InsertDone
<1>3. Linked(tree') = Linked(tree) /\ \E g : TreeInv(tree', "idle", NULL, NULL, sub, g)
  BY <1>1, <1>2, BlackenKeeps
<1>4. \E r, g : TreeInv(tree', "idle", NULL, NULL, r, g)
  BY <1>3
<1>5. TreeState(tree', op')
  BY <1>2, <1>4, StateIs DEF Done
<1> QED
  BY <1>2, <1>3, <1>5, LoopSame DEF TreeIInv

\* What StartRemove does to the tree.
LEMMA RemoveStarts ==
  ASSUME TreeIInv, Idle, NEW n \in Linked(tree), StartRemove(n)
  PROVE  TreeState(tree', op') /\ Linked(tree') = Linked(tree) \ {n}
<1>1. PICK sub, h : TreeInv(tree, op.pc, op.elm, op.parent, sub, h)
  BY DEF TreeIInv, TreeState
<1>2. op.pc = "idle" /\ op.elm = NULL /\ op.parent = NULL
  BY <1>1 DEF Idle, TreeInv, OpShape
<1>3. TreeInv(tree, "idle", NULL, NULL, sub, h)
  BY <1>1, <1>2
<1>4. PICK x : x = RB_REMOVE(tree, n)
  OBVIOUS
<1>5. /\ tree' = x.t
      /\ op' = IF x.color = "black" THEN [pc |-> "remove_color", elm |-> x.elm, parent |-> x.parent] ELSE Done
  BY <1>4 DEF StartRemove
<1>6. Linked(x.t) = Linked(tree) \ {n} /\ AfterRemove(x.color, x.t, x.elm, x.parent)
  BY <1>3, <1>4, RemoveKeeps
<1>7. CASE x.color = "black"
  <2>1. \E r, g : TreeInv(tree', "remove_color", x.elm, x.parent, r, g)
    BY <1>5, <1>6, <1>7 DEF AfterRemove
  <2> QED
    BY <1>5, <1>6, <1>7, <2>1, StateIs
<1>8. CASE x.color # "black"
  <2>1. \E r, g : TreeInv(tree', "idle", NULL, NULL, r, g)
    BY <1>5, <1>6, <1>8 DEF AfterRemove
  <2>2. op' = [pc |-> "idle", elm |-> NULL, parent |-> NULL]
    BY <1>5, <1>8 DEF Done
  <2> QED
    BY <1>5, <1>6, <2>1, <2>2, StateIs
<1> QED
  BY <1>7, <1>8

\* RB_REMOVE unlinks one node and keeps the invariant.
LEMMA RemoveStep ==
  ASSUME TreeIInv, NEW n \in Nodes, RemoveNode(n)
  PROVE  TreeIInv' /\ n \in Linked(tree) /\ Linked(tree') = Linked(tree) \ {n}
<1>1. Idle /\ ~loop.on /\ n \in Linked(tree) /\ StartRemove(n) /\ loop' = loop
  BY DEF RemoveNode
<1>2. TreeState(tree', op') /\ Linked(tree') = Linked(tree) \ {n}
  BY <1>1, RemoveStarts
<1>3. LoopState(tree', loop)
  BY <1>1, LoopOff DEF TreeIInv
<1> QED
  BY <1>1, <1>2, <1>3 DEF TreeIInv

\* An iteration of RB_REMOVE_COLOR keeps the invariant and the nodes.
LEMMA RemoveColorStep ==
  ASSUME TreeIInv, RB_REMOVE_COLOR
  PROVE  TreeIInv' /\ Linked(tree') = Linked(tree)
<1>1. PICK sub, h : TreeInv(tree, op.pc, op.elm, op.parent, sub, h)
  BY DEF TreeIInv, TreeState
<1>2. PICK elm, p, s : elm = op.elm /\ p = op.parent /\ s = Side(tree, p, elm)
  OBVIOUS
<1>3. PICK t1 : t1 = BlackSibling(tree, p, s)
  OBVIOUS
<1>4. PICK sib : sib = t1.child[Other(s)][p]
  OBVIOUS
<1>5. PICK t2, u : u = RedOutside(t1, p, s) /\ t2 = LastRotation(u, p, s)
  OBVIOUS
<1>6. /\ op.pc = "remove_color" /\ ~IsRed(tree, elm) /\ elm # tree.root /\ loop' = loop
      /\ op = [pc |-> "remove_color", elm |-> elm, parent |-> p]
  BY <1>2 DEF RB_REMOVE_COLOR, Short, TreeIInv, TreeState
<1>7. TreeInv(tree, "remove_color", elm, p, sub, h)
  BY <1>1, <1>2, <1>6
<1>8. ShortAt(tree, sub, h, p, s, elm)
  BY <1>2, <1>6, <1>7, ShortState
<1>9. /\ Linked(t1) = Linked(tree) /\ ~IsRed(t1, t1.child[Other(s)][p])
      /\ \E sub2, h2 : ShortAt(t1, sub2, h2, p, s, elm)
  BY <1>3, <1>8, BlackSiblingKeeps
<1>10. PICK sub2, h2 : ShortAt(t1, sub2, h2, p, s, elm)
  BY <1>9
<1>11. ~IsRed(t1, sib)
  BY <1>4, <1>9
<1>12. \/ /\ \A d \in Sides : ~IsRed(t1, t1.child[d][sib])
          /\ tree' = SetColor(t1, sib, "red") /\ op' = [op EXCEPT !.elm = p, !.parent = t1.parent[p]]
       \/ /\ \E d \in Sides : IsRed(t1, t1.child[d][sib])
          /\ tree' = t2 /\ op' = [op EXCEPT !.elm = t2.root]
  BY <1>2, <1>3, <1>4, <1>5 DEF RB_REMOVE_COLOR
<1>13. CASE /\ \A d \in Sides : ~IsRed(t1, t1.child[d][sib])
            /\ tree' = SetColor(t1, sib, "red") /\ op' = [op EXCEPT !.elm = p, !.parent = t1.parent[p]]
  <2>1. PICK q : q = SetColor(t1, sib, "red")
    OBVIOUS
  <2>2. Linked(q) = Linked(t1) /\ \E g : TreeInv(q, "remove_color", p, t1.parent[p], sub2, g)
    BY <1>4, <1>10, <1>11, <1>13, <2>1, RemoveRecolorKeeps
  <2>3. \E r, g : TreeInv(q, "remove_color", p, t1.parent[p], r, g)
    BY <2>2
  <2>4. op' = [pc |-> "remove_color", elm |-> p, parent |-> t1.parent[p]]
    BY <1>6, <1>13
  <2>5. TreeState(tree', op')
    BY <1>13, <2>1, <2>3, <2>4, StateIs
  <2>6. Linked(tree') = Linked(tree)
    BY <1>9, <1>13, <2>1, <2>2
  <2> QED
    BY <1>6, <2>5, <2>6, LoopSame DEF TreeIInv
<1>14. CASE /\ \E d \in Sides : IsRed(t1, t1.child[d][sib])
            /\ tree' = t2 /\ op' = [op EXCEPT !.elm = t2.root]
  <2>1. /\ Linked(u) = Linked(t1)
        /\ \E sub3, h3 : ShortAt(u, sub3, h3, p, s, elm)
        /\ ~IsRed(u, u.child[Other(s)][p]) /\ IsRed(u, u.child[Other(s)][u.child[Other(s)][p]])
    BY <1>4, <1>5, <1>10, <1>11, <1>14, RedOutsideKeeps
  <2>2. PICK sub3, h3 : ShortAt(u, sub3, h3, p, s, elm)
    BY <2>1
  <2>3. PICK x : x = u.child[Other(s)][p]
    OBVIOUS
  <2>4. ShortAt(u, sub3, h3, p, s, elm) /\ ~IsRed(u, x) /\ IsRed(u, u.child[Other(s)][x])
    BY <2>1, <2>2, <2>3
  <2>5. Linked(t2) = Linked(u) /\ \E r, g : TreeInv(t2, "remove_color", t2.root, p, r, g)
    BY <1>5, <2>3, <2>4, LastRotationKeeps
  <2>6. op' = [pc |-> "remove_color", elm |-> t2.root, parent |-> p]
    BY <1>6, <1>14
  <2>7. TreeState(t2, op')
    BY <2>5, <2>6, StateIs
  <2>8. Linked(tree') = Linked(tree) /\ TreeState(tree', op')
    BY <1>9, <1>14, <2>1, <2>5, <2>7
  <2> QED
    BY <1>6, <2>8, LoopSame DEF TreeIInv
<1> QED
  BY <1>12, <1>13, <1>14

\* The end of RB_REMOVE_COLOR leaves an idle tree.
LEMMA RemoveDoneStep ==
  ASSUME TreeIInv, RemoveDone
  PROVE  TreeIInv' /\ Linked(tree') = Linked(tree)
<1>1. PICK sub, h : TreeInv(tree, op.pc, op.elm, op.parent, sub, h)
  BY DEF TreeIInv, TreeState
<1>2. /\ op.pc = "remove_color" /\ (IsRed(tree, op.elm) \/ op.elm = tree.root)
      /\ tree' = SetColor(tree, op.elm, "black") /\ op' = Done /\ loop' = loop
  BY DEF RemoveDone, Short
<1>3. Linked(tree') = Linked(tree) /\ \E g : TreeInv(tree', "idle", NULL, NULL, sub, g)
  BY <1>1, <1>2, BlackenKeeps
<1>4. \E r, g : TreeInv(tree', "idle", NULL, NULL, r, g)
  BY <1>3
<1>5. TreeState(tree', op')
  BY <1>2, <1>4, StateIs DEF Done
<1> QED
  BY <1>2, <1>3, <1>5, LoopSame DEF TreeIInv

\* A tree without a root has no nodes.
LEMMA EmptyTree ==
  ASSUME NEW tr, NEW sub, Tree(tr, sub)
  PROVE  tr.root = NULL <=> Linked(tr) = {}
<1>1. Sub(sub, tr.root) = Linked(tr) /\ NULL \notin Linked(tr) /\ tr.root \in Places(tr)
  BY Fields DEF Tree, Spans
<1> QED
  BY <1>1, Fields DEF Sub, Places

\* RB_MIN and RB_MAX are at the ends.
LEMMA MinMaxIs ==
  ASSUME NEW tr, NEW sub, Tree(tr, sub), NEW s \in Sides, NEW y, y = RB_MINMAX(tr, s)
  PROVE  /\ y \in Places(tr) /\ (y = NULL <=> Linked(tr) = {})
         /\ \A m \in Linked(tr) : m # y => Before(s, y, m)
<1>1. CASE tr.root = NULL
  <2>1. Linked(tr) = {} /\ y = NULL
    BY <1>1, EmptyTree DEF RB_MINMAX
  <2> QED
    BY <2>1 DEF Places
<1>2. CASE tr.root # NULL
  <2>1. y = Outermost(tr, tr.root, s)
    BY <1>2 DEF RB_MINMAX
  <2>2. tr.root \in Linked(tr) /\ NULL \notin Linked(tr)
    BY <1>2, Fields DEF Places
  <2>3. Extreme(tr, sub, tr.root, s, y)
    BY <2>1, <2>2, OutermostIs
  <2>4. sub[tr.root] = Linked(tr)
    BY <1>2 DEF Tree, Spans, Sub
  <2>5. y \in Linked(tr) /\ \A m \in Linked(tr) : m # y => Before(s, y, m)
    BY <2>3, <2>4 DEF Extreme
  <2> QED
    BY <2>2, <2>5 DEF Places
<1> QED
  BY <1>1, <1>2

\* A loop that is under way.
LEMMA LoopIs ==
  ASSUME NEW tr, NEW x \in Places(tr), NEW d \in Sides, NEW seen \in Seq(Nodes), NEW due,
         due = seen \o Remaining(tr, x, d),
         NEW lp, lp = [on |-> TRUE, x |-> x, dir |-> d, seen |-> seen, due |-> due]
  PROVE  LoopState(tr, lp)
<1>1. lp.on = TRUE /\ lp.x = x /\ lp.dir = d /\ lp.seen = seen /\ lp.due = due
  OBVIOUS
<1> QED
  BY <1>1 DEF LoopState

\* A loop that starts has everything ahead of it to visit.
LEMMA ForeachStarts ==
  ASSUME TreeIInv, NEW d \in Sides, NEW n, RB_FOREACH(d, n)
  PROVE  TreeIInv' /\ Linked(tree') = Linked(tree)
<1>1. PICK sub : Tree(tree, sub)
  BY DEF TreeIInv, TreeState, TreeInv
<1>2. PICK due : due = IF n = NULL THEN <<>> ELSE InKeyOrder(Ahead(n, d), d)
  OBVIOUS
<1>3. /\ n \in Linked(tree) \cup {RB_MINMAX(tree, Other(d))} /\ tree' = tree /\ op' = op
      /\ loop' = [on |-> TRUE, x |-> n, dir |-> d, seen |-> <<>>, due |-> due]
  BY <1>2 DEF RB_FOREACH
<1>4. n \in Places(tree)
  <2>1. RB_MINMAX(tree, Other(d)) \in Places(tree)
    BY <1>1, OtherSide, MinMaxIs
  <2> QED
    BY <1>3, <2>1 DEF Places
<1>5. due = Remaining(tree, n, d)
  BY <1>2 DEF Remaining, Ahead, AheadOf
<1>6. due \in Seq(Nodes)
  <2>1. CASE n = NULL
    BY <1>2, <2>1
  <2>2. CASE n # NULL
    <3>1. AheadOf(tree, n, d) \subseteq Linked(tree)
      BY DEF AheadOf
    <3>2. Distinct(AheadOf(tree, n, d))
      BY <1>1, <3>1, DistinctSub
    <3>3. InKeyOrder(AheadOf(tree, n, d), d) \in Seq(AheadOf(tree, n, d)) /\ AheadOf(tree, n, d) \subseteq Nodes
      BY <3>2, OrderIs DEF Distinct
    <3>4. due = InKeyOrder(AheadOf(tree, n, d), d)
      BY <1>5, <2>2 DEF Remaining
    <3> QED
      BY <3>3, <3>4, SeqMonotonic
  <2> QED
    BY <2>1, <2>2
<1>7. due = <<>> \o Remaining(tree, n, d)
  BY <1>5, <1>6, ConcatEmptySeq
<1>8. LoopState(tree, loop')
  <2>1. <<>> \in Seq(Nodes)
    OBVIOUS
  <2> QED
    BY <1>3, <1>4, <1>7, <2>1, LoopIs
<1> QED
  BY <1>3, <1>8 DEF TreeIInv

\* An iteration of a loop, and what its body removes, keep the invariant.
LEMMA ForeachSteps ==
  ASSUME TreeIInv, ForeachStep
  PROVE  TreeIInv' /\ (Linked(tree') = Linked(tree) \/ \E n \in Linked(tree) : Linked(tree') = Linked(tree) \ {n})
<1>1. PICK sub : Tree(tree, sub)
  BY DEF TreeIInv, TreeState, TreeInv
<1>2. PICK x, y, d, seen, due, B :
        /\ x = loop.x /\ y = RB_NEXT(tree, x, d) /\ d = loop.dir /\ seen = loop.seen /\ due = loop.due
        /\ B = IF y = NULL THEN {} ELSE AheadOf(tree, y, d)
  OBVIOUS
<1>3. /\ Idle /\ x # NULL /\ loop.on = TRUE
      /\ loop' = [loop EXCEPT !.x = y, !.seen = Append(seen, x)]
      /\ (tree' = tree /\ op' = op) \/ StartRemove(x)
  BY <1>2 DEF ForeachStep
<1>4. /\ loop = [on |-> loop.on, x |-> x, dir |-> d, seen |-> seen, due |-> due]
      /\ x \in Linked(tree) /\ d \in Sides /\ seen \in Seq(Nodes) /\ due = seen \o InKeyOrder(AheadOf(tree, x, d), d)
  BY <1>2, <1>3 DEF TreeIInv, LoopState, Remaining, Places
<1>5. /\ y \in Places(tree) /\ y # x /\ x \notin B
      /\ InKeyOrder(AheadOf(tree, x, d), d) = <<x>> \o InKeyOrder(B, d)
      /\ InKeyOrder(B, d) \in Seq(Nodes)
  BY <1>1, <1>2, <1>4, ForeachNext
<1>6. x \in Nodes
  BY <1>1, <1>4, Fields
<1>7. due = Append(seen, x) \o InKeyOrder(B, d) /\ Append(seen, x) \in Seq(Nodes)
  <2>1. PICK r : r = InKeyOrder(B, d)
    OBVIOUS
  <2>2. <<x>> \in Seq(Nodes) /\ r \in Seq(Nodes)
    BY <1>5, <1>6, <2>1
  <2>3. Append(seen, x) = seen \o <<x>> /\ Append(seen, x) \in Seq(Nodes)
    BY <1>4, <1>6
  <2>4. due = seen \o (<<x>> \o r)
    BY <1>4, <1>5, <2>1
  <2>5. seen \o (<<x>> \o r) = (seen \o <<x>>) \o r
    BY <1>4, <2>2, ConcatAssociative
  <2> QED
    BY <2>1, <2>3, <2>4, <2>5
<1>8. loop' = [on |-> TRUE, x |-> y, dir |-> d, seen |-> Append(seen, x), due |-> due]
  <2>1. PICK a, on : a = Append(seen, x) /\ on = loop.on
    OBVIOUS
  <2>2. loop = [on |-> on, x |-> x, dir |-> d, seen |-> seen, due |-> due]
    BY <1>4, <2>1
  <2>3. loop' = [loop EXCEPT !.x = y, !.seen = a]
    BY <1>3, <2>1
  <2>4. loop' = [on |-> on, x |-> y, dir |-> d, seen |-> a, due |-> due]
    BY <2>2, <2>3
  <2> QED
    BY <1>3, <2>1, <2>4
<1>9. ASSUME NEW q, y \in Places(q), IF y = NULL THEN TRUE ELSE AheadOf(q, y, d) = B
      PROVE  LoopState(q, loop')
  <2>1. Remaining(q, y, d) = InKeyOrder(B, d)
    BY <1>2, <1>4, <1>9, OrderEmpty DEF Remaining
  <2>2. due = Append(seen, x) \o Remaining(q, y, d) /\ Append(seen, x) \in Seq(Nodes)
    BY <1>7, <2>1
  <2> QED
    BY <1>4, <1>8, <1>9, <2>2, LoopIs
<1>10. CASE tree' = tree /\ op' = op
  <2>1. LoopState(tree, loop')
    BY <1>2, <1>5, <1>9
  <2> QED
    BY <1>10, <2>1 DEF TreeIInv
<1>11. CASE StartRemove(x)
  <2>1. TreeState(tree', op') /\ Linked(tree') = Linked(tree) \ {x}
    BY <1>3, <1>4, <1>11, RemoveStarts
  <2>2. y \in Places(tree')
    BY <1>5, <2>1 DEF Places
  <2>3. y # NULL => AheadOf(tree', y, d) = AheadOf(tree, y, d) \ {x}
    BY <2>1 DEF AheadOf
  <2>4. LoopState(tree', loop')
    BY <1>2, <1>5, <1>9, <2>2, <2>3
  <2> QED
    BY <1>4, <2>1, <2>4 DEF TreeIInv
<1> QED
  BY <1>3, <1>10, <1>11

\* The end of a loop keeps the invariant.
LEMMA ForeachEnds ==
  ASSUME TreeIInv, ForeachEnd
  PROVE  TreeIInv' /\ Linked(tree') = Linked(tree)
<1>1. tree' = tree /\ op' = op /\ loop' = NoLoop
  BY DEF ForeachEnd
<1>2. LoopState(tree, NoLoop)
  BY DEF LoopState, NoLoop, Places, Sides
<1> QED
  BY <1>1, <1>2 DEF TreeIInv

\* An empty tree has the invariant.
LEMMA TreeStarts ==
  ASSUME RB_INIT
  PROVE  TreeIInv /\ Linked(tree) = {}
<1>1. PICK no : no = [m \in {} |-> m]
  OBVIOUS
<1>2. /\ tree = [root |-> NULL, child |-> [s \in Sides |-> <<>>], parent |-> <<>>, color |-> <<>>]
      /\ op = [pc |-> "idle", elm |-> NULL, parent |-> NULL] /\ loop = NoLoop
  BY DEF RB_INIT, Done
<1>3. Linked(tree) = {} /\ Places(tree) = {NULL}
  BY <1>2 DEF Linked, Places
<1>4. Shaped(tree)
  <2>1. /\ tree.root = NULL /\ tree.child = [s \in Sides |-> <<>>] /\ tree.parent = <<>> /\ tree.color = <<>>
        /\ tree = [root |-> tree.root, child |-> tree.child, parent |-> tree.parent, color |-> tree.color]
    BY <1>2
  <2>2. <<>> \in [{} -> {NULL}] /\ <<>> \in [{} -> Colors]
    OBVIOUS
  <2>3. tree.child \in [Sides -> [{} -> {NULL}]] /\ tree.parent \in [{} -> {NULL}] /\ tree.color \in [{} -> Colors]
    BY <2>1, <2>2
  <2>4. IsFiniteSet({})
    BY FS_EmptySet
  <2> QED
    BY <1>3, <2>1, <2>3, <2>4 DEF Shaped, Colors
<1>5. LinkedUp(tree)
  BY <1>3 DEF LinkedUp
<1>6. Spans(tree, no)
  <2>1. no \in [{} -> SUBSET {}]
    BY <1>1
  <2>2. tree.root = NULL
    BY <1>2
  <2> QED
    BY <1>3, <2>1, <2>2 DEF Spans, Sub
<1>7. Heights(tree, no, GapNode(tree, "idle", NULL, NULL), GapSide(tree, NULL, NULL))
  <2>1. no \in [{} -> Nat]
    BY <1>1
  <2> QED
    BY <1>3, <2>1 DEF Heights
<1>8. TreeInv(tree, "idle", NULL, NULL, no, no)
  BY <1>3, <1>4, <1>5, <1>6, <1>7 DEF TreeInv, Tree, RedRule, OpShape
<1>9. \E sub, h : TreeInv(tree, "idle", NULL, NULL, sub, h)
  BY <1>8
<1>10. TreeState(tree, op)
  BY <1>2, <1>9, StateIs
<1>11. LoopState(tree, loop)
  BY <1>2 DEF LoopState, NoLoop, Places, Sides
<1> QED
  BY <1>3, <1>10, <1>11 DEF TreeIInv

\* A step links one node, unlinks one, or leaves the nodes as they are.
TreeStep ==
    \/ Linked(tree') = Linked(tree)
    \/ \E n \in Nodes : RB_INSERT(n) /\ Linked(tree') = Linked(tree) \cup {n}
    \/ \E n \in Linked(tree) : Linked(tree') = Linked(tree) \ {n}

\* Every step keeps the invariant.
LEMMA TreeSteps ==
  ASSUME TreeIInv, [TreeNext]_treeVars
  PROVE  TreeIInv' /\ TreeStep
<1>1. CASE \E n \in Nodes : RB_INSERT(n)
  BY <1>1, InsertStep DEF TreeStep
<1>2. CASE \E n \in Nodes : RemoveNode(n)
  BY <1>2, RemoveStep DEF TreeStep
<1>3. CASE RB_INSERT_COLOR
  BY <1>3, InsertColorStep DEF TreeStep
<1>4. CASE InsertDone
  BY <1>4, InsertDoneStep DEF TreeStep
<1>5. CASE RB_REMOVE_COLOR
  BY <1>5, RemoveColorStep DEF TreeStep
<1>6. CASE RemoveDone
  BY <1>6, RemoveDoneStep DEF TreeStep
<1>7. CASE \E d \in Sides, n \in Pointers : RB_FOREACH(d, n)
  BY <1>7, ForeachStarts DEF TreeStep
<1>8. CASE ForeachStep
  BY <1>8, ForeachSteps DEF TreeStep
<1>9. CASE ForeachEnd
  BY <1>9, ForeachEnds DEF TreeStep
<1>10. CASE UNCHANGED treeVars
  BY <1>10 DEF treeVars, TreeIInv, TreeStep
<1> QED
  BY <1>1, <1>2, <1>3, <1>4, <1>5, <1>6, <1>7, <1>8, <1>9, <1>10 DEF TreeNext

\* The invariant holds in every state.
LEMMA TreeKept == TreeSpec => []TreeIInv
<1>1. RB_INIT => TreeIInv
  BY TreeStarts
<1>2. TreeIInv /\ [TreeNext]_treeVars => TreeIInv'
  BY TreeSteps
<1> QED
  BY <1>1, <1>2, PTL DEF TreeSpec

\* The fields of the tree are defined for the linked nodes and name only
\* those, at every iteration of the loops of tree.h.
THEOREM TreeTyped == TreeSpec => []TreeTypeOK
<1>1. ASSUME TreeIInv PROVE TreeTypeOK
  <2>1. PICK sub, h : TreeInv(tree, op.pc, op.elm, op.parent, sub, h)
    BY <1>1 DEF TreeIInv, TreeState
  <2>2. Tree(tree, sub) /\ OpShape(tree, op.pc, op.elm, op.parent)
    BY <2>1 DEF TreeInv
  <2>3. op.pc \in {"idle", "insert_color", "remove_color"} /\ {op.elm, op.parent} \subseteq Places(tree)
    BY <2>2 DEF OpShape, Places
  <2>4. loop.x \in Places(tree)
    BY <1>1 DEF TreeIInv, LoopState
  <2> QED
    BY <2>2, <2>3, <2>4 DEF TreeTypeOK, Tree, Shaped, Places
<1>2. QED
  BY <1>1, TreeKept, PTL

\* However the tree is rotated, the traversal from the root shows each linked
\* node once and in the order of the keys, and the parent pointers invert the
\* child pointers, at every iteration of RB_INSERT_COLOR and RB_REMOVE_COLOR.
THEOREM TreesSearchable == TreeSpec => []SearchTree
<1>1. ASSUME TreeIInv PROVE SearchTree
  <2>1. PICK sub : Tree(tree, sub)
    BY <1>1 DEF TreeIInv, TreeState, TreeInv
  <2>2. Traversal(tree) = InKeyOrder(Linked(tree), "right")
    BY <2>1, TraversalIs
  <2> QED
    BY <2>1, <2>2 DEF SearchTree, Tree, LinkedUp
<1>2. QED
  BY <1>1, TreeKept, PTL

\* A loop visits what was ahead of it when it started, each node once and in
\* order, and ends after the last, whichever nodes its body removes
\* (RB_FOREACH_SAFE and RB_FOREACH_REVERSE_SAFE).
THEOREM LoopsComplete == TreeSpec => []ForeachComplete
<1>1. ASSUME TreeIInv PROVE ForeachComplete
  <2> SUFFICES ASSUME loop.on PROVE IsPrefix(loop.seen, loop.due) /\ (loop.x = NULL => loop.seen = loop.due)
    BY DEF ForeachComplete
  <2>1. PICK sub : Tree(tree, sub)
    BY <1>1 DEF TreeIInv, TreeState, TreeInv
  <2>2. PICK seen, due, r : seen = loop.seen /\ due = loop.due /\ r = Remaining(tree, loop.x, loop.dir)
    OBVIOUS
  <2>3. seen \in Seq(Nodes) /\ due = seen \o r /\ loop.x \in Places(tree) /\ loop.dir \in Sides
    BY <1>1, <2>2 DEF TreeIInv, LoopState
  <2>4. r \in Seq(Nodes) /\ (loop.x = NULL => r = <<>>)
    <3>1. CASE loop.x = NULL
      BY <2>2, <3>1 DEF Remaining
    <3>2. CASE loop.x # NULL
      <4>1. PICK S : S = AheadOf(tree, loop.x, loop.dir)
        OBVIOUS
      <4>2. S \subseteq Linked(tree)
        BY <4>1 DEF AheadOf
      <4>3. Distinct(S)
        BY <2>1, <4>2, DistinctSub
      <4>4. r = InKeyOrder(S, loop.dir)
        BY <2>2, <3>2, <4>1 DEF Remaining
      <4>5. r \in Seq(S) /\ S \subseteq Nodes
        BY <2>3, <4>3, <4>4, OrderIs DEF Distinct
      <4> QED
        BY <3>2, <4>5, SeqMonotonic
    <3> QED
      BY <3>1, <3>2
  <2>5. loop.x = NULL => seen = due
    BY <2>3, <2>4, ConcatEmptySeq
  <2>6. Len(due) = Len(seen) + Len(r) /\ \A i \in 1..Len(seen) : due[i] = seen[i]
    BY <2>3, <2>4
  <2>7. IsPrefix(seen, due)
    BY <2>3, <2>4, <2>6 DEF IsPrefix
  <2> QED
    BY <2>2, <2>5, <2>7
<1>2. QED
  BY <1>1, TreeKept, PTL

\* What a traversal reaches are the nodes of the tree.
LEMMA OrderRange ==
  ASSUME NEW S, Distinct(S), NEW d \in Sides
  PROVE  ToSet(InKeyOrder(S, d)) = S
<1>1. PICK q, N : q = InKeyOrder(S, d) /\ N = Cardinality(S)
  OBVIOUS
<1>2. /\ q \in Seq(S) /\ Len(q) = N /\ N \in Nat
      /\ \A i \in 1..Len(q) : q[i] \in S /\ Cardinality(Behind(S, d, q[i])) = i - 1
  BY <1>1, OrderIs, Ranks
<1>3. DOMAIN q = 1..N
  BY <1>2
<1>4. ASSUME NEW n \in S PROVE \E i \in DOMAIN q : q[i] = n
  <2>1. PICK c : c = Cardinality(Behind(S, d, n))
    OBVIOUS
  <2>2. c \in 0..(N - 1)
    BY <1>1, <2>1, Ranks
  <2>3. c + 1 \in 1..N /\ (c + 1) - 1 = c
    BY <1>2, <2>2
  <2>4. q[c + 1] \in S /\ Cardinality(Behind(S, d, q[c + 1])) = c
    BY <1>2, <2>3
  <2>5. q[c + 1] = n
    BY <2>1, <2>4, Ranks
  <2> QED
    BY <1>3, <2>3, <2>5
<1>5. \A i \in DOMAIN q : q[i] \in S
  BY <1>2, <1>3
<1> QED
  BY <1>1, <1>4, <1>5 DEF ToSet

\* A traversal of a tree reaches the linked nodes.
LEMMA Reached ==
  ASSUME NEW tr, NEW o, TreeState(tr, o)
  PROVE  ToSet(Traversal(tr)) = Linked(tr)
<1>1. PICK sub : Tree(tr, sub)
  BY DEF TreeState, TreeInv
<1>2. Distinct(Linked(tr))
  BY <1>1, DistinctSub
<1> QED
  BY <1>1, <1>2, OrderRange, TraversalIs DEF Sides

\* Rebalancing a tree never changes what is reached from its root: the tree
\* implements a set from which RB_INSERT and RB_REMOVE are the only steps,
\* and to which no second node with the key of another is added.
THEOREM TreeImplementsSet == TreeSpec => ImplementsSet
<1>1. RB_INIT => Set!Init
  <2> SUFFICES ASSUME RB_INIT PROVE Set!Init
    OBVIOUS
  <2>1. TreeIInv /\ Linked(tree) = {}
    BY TreeStarts
  <2> QED
    BY <2>1, Reached DEF Set!Init, TreeIInv
<1>2. TreeIInv /\ TreeIInv' /\ TreeStep => [Set!Next]_(ToSet(Traversal(tree)))
  <2> SUFFICES ASSUME TreeIInv, TreeIInv', TreeStep PROVE [Set!Next]_(ToSet(Traversal(tree)))
    OBVIOUS
  <2>1. PICK M, N : M = Linked(tree) /\ N = Linked(tree')
    OBVIOUS
  <2>2. ToSet(Traversal(tree)) = M
    BY <2>1, Reached DEF TreeIInv
  <2>3. ToSet(Traversal(tree))' = N
    <3>1. TreeState(tree', op')
      BY DEF TreeIInv
    <3>2. ToSet(Traversal(tree')) = Linked(tree')
      BY <3>1, Reached
    <3> QED
      BY <2>1, <3>2
  <2>4. CASE N = M
    BY <2>2, <2>3, <2>4
  <2>5. ASSUME NEW n \in Nodes, RB_INSERT(n), N = M \cup {n}
        PROVE  Set!Next
    <3>1. PICK sub : Tree(tree, sub)
      BY DEF TreeIInv, TreeState, TreeInv
    <3>2. Key[n] \in Int /\ RB_FIND(tree, Key[n]) = NULL
      BY <2>5, KeyAssumption DEF RB_INSERT
    <3>3. \A m \in M : Key[m] # Key[n]
      BY <2>1, <3>1, <3>2, FindIs, Fields
    <3>4. Set!Insert(n)
      BY <2>2, <2>3, <2>5, <3>3 DEF Set!Insert
    <3> QED
      BY <3>4 DEF Set!Next
  <2>6. ASSUME NEW n \in M, N = M \ {n}
        PROVE  Set!Next
    <3>1. n \in Nodes
      <4>1. PICK sub : Tree(tree, sub)
        BY DEF TreeIInv, TreeState, TreeInv
      <4> QED
        BY <2>1, <4>1, Fields
    <3>2. Set!Remove(n)
      BY <2>2, <2>3, <2>6 DEF Set!Remove
    <3> QED
      BY <3>1, <3>2 DEF Set!Next
  <2> QED
    BY <2>1, <2>4, <2>5, <2>6 DEF TreeStep
<1>3. TreeIInv /\ [TreeNext]_treeVars => TreeIInv' /\ TreeStep
  BY TreeSteps
<1>4. RB_INIT => TreeIInv
  BY TreeStarts
<1> QED
  BY <1>1, <1>2, <1>3, <1>4, PTL DEF TreeSpec, ImplementsSet, Set!Spec

-----------------------------------------------------------------------------
(* Paths from the root, and the conditions on the colours.                 *)

\* A node is below another if it is that node or its parent is below it.
LEMMA BelowStep ==
  ASSUME NEW tr, NEW sub, Tree(tr, sub), NEW e \in Linked(tr), NEW m \in Linked(tr), NEW p, p = tr.parent[m]
  PROVE  m \in sub[e] <=> m = e \/ (p # NULL /\ p \in sub[e])
<1>1. m = e => m \in sub[e]
  BY SubSides DEF Sides
<1>2. m \in sub[e] /\ m # e => p \in sub[e] /\ p \in Linked(tr)
  BY ParentBelow
<1>3. ASSUME p # NULL, p \in sub[e] PROVE m \in sub[e]
  <2>1. PICK s : s = Side(tr, p, m)
    OBVIOUS
  <2>2. p \in Linked(tr) /\ s \in Sides /\ tr.child[s][p] = m
    BY <1>3, <2>1, SideIs
  <2>3. m # NULL
    BY Fields
  <2>4. m \in sub[m] /\ sub[m] \subseteq sub[p]
    BY <2>2, <2>3, SubSmaller
  <2>5. sub[p] \subseteq sub[e]
    BY <1>3, Nested
  <2> QED
    BY <2>4, <2>5
<1>4. NULL \notin Linked(tr)
  BY Fields
<1> QED
  BY <1>1, <1>2, <1>3, <1>4

\* Below, in terms of the nodes below a node.
LEMMA BelowIs ==
  ASSUME NEW sub, Tree(tree, sub), NEW e \in Linked(tree), NEW n \in Linked(tree)
  PROVE  Below(n, e) <=> n \in sub[e]
<1> DEFINE Solves(f) == f = [m \in Places(tree) |-> m # NULL /\ (m = e \/ f[tree.parent[m]])]
<1>1. PICK g : g = [m \in Places(tree) |-> m # NULL /\ m \in sub[e]]
  OBVIOUS
<1>2. ASSUME NEW m \in Places(tree)
      PROVE  g[m] = (m # NULL /\ (m = e \/ g[tree.parent[m]]))
  <2>1. CASE m = NULL
    BY <1>1, <2>1
  <2>2. CASE m # NULL
    <3>1. m \in Linked(tree)
      BY <2>2 DEF Places
    <3>2. PICK p : p = tree.parent[m]
      OBVIOUS
    <3>3. p \in Places(tree)
      BY <3>1, <3>2, Fields
    <3>4. m \in sub[e] <=> m = e \/ (p # NULL /\ p \in sub[e])
      BY <3>1, <3>2, BelowStep
    <3>5. (m # NULL /\ m \in sub[e]) = (m # NULL /\ (m = e \/ (p # NULL /\ p \in sub[e])))
      BY <3>4, Zenon
    <3>6. g[m] = (m # NULL /\ m \in sub[e]) /\ g[p] = (p # NULL /\ p \in sub[e])
      BY <1>1, <3>3, Zenon
    <3> QED
      BY <3>2, <3>5, <3>6, Zenon
  <2> QED
    BY <2>1, <2>2
<1>3. Solves(g)
  BY <1>1, <1>2, Zenon
<1>4. PICK w : w = CHOOSE f : Solves(f)
  OBVIOUS
<1>5. Solves(w)
  BY <1>3, <1>4, Zenon
<1>6. Below(n, e) = w[n]
  BY <1>4, Zenon DEF Below
<1>7. \A m \in Places(tree) : w[m] <=> m # NULL /\ (m = e \/ w[tree.parent[m]])
  BY <1>5, Zenon
<1> HIDE DEF Solves
<1>8. PICK Bad : Bad = {m \in Linked(tree) : ~(w[m] <=> m \in sub[e])}
  OBVIOUS
<1>9. ASSUME NEW m \in Bad PROVE tree.parent[m] \in Bad
  <2>1. m \in Linked(tree) /\ ~(w[m] <=> m \in sub[e])
    BY <1>8
  <2>2. PICK p : p = tree.parent[m]
    OBVIOUS
  <2>3. m \in Places(tree) /\ m # NULL /\ p \in Places(tree) /\ NULL \in Places(tree)
    BY <2>1, <2>2, Fields DEF Places
  <2>4. w[m] <=> m = e \/ w[p]
    BY <1>7, <2>2, <2>3, Zenon
  <2>5. m \in sub[e] <=> m = e \/ (p # NULL /\ p \in sub[e])
    BY <2>1, <2>2, BelowStep
  <2>6. ~w[NULL]
    BY <1>7, <2>3, Zenon
  <2>7. p # NULL
    <3>1. p = NULL => ~w[p]
      BY <2>6, Zenon
    <3> QED
      BY <2>1, <2>4, <2>5, <3>1, Zenon
  <2>9. ~(w[p] <=> p \in sub[e])
    BY <2>1, <2>4, <2>5, <2>7, Zenon
  <2>8. p \in Linked(tree)
    BY <2>3, <2>7 DEF Places
  <2> QED
    BY <1>8, <2>2, <2>8, <2>9, Zenon
<1>10. Bad = {}
  <2>1. Bad \subseteq Linked(tree)
    BY <1>8
  <2> QED
    BY <1>9, <2>1, Ascent
<1>11. w[n] <=> n \in sub[e]
  BY <1>8, <1>10, Zenon
<1> QED
  BY <1>6, <1>11, Zenon

\* Whether n is below the place that is one black node short.
Cut1(tr, sub, gn, gs, n) ==
    IF gn \in Linked(tr) /\ gs \in Sides /\ n \in Sub(sub, tr.child[gs][gn]) THEN 1 ELSE 0

\* The missing black node is counted once on the way down.
LEMMA CutStep ==
  ASSUME NEW tr, NEW sub, Tree(tr, sub), NEW gn, NEW gs, NEW m \in Linked(tr), NEW p, p = tr.parent[m], p # NULL
  PROVE  \E s \in Sides : /\ p \in Linked(tr) /\ tr.child[s][p] = m
                          /\ Cut1(tr, sub, gn, gs, m) = Cut1(tr, sub, gn, gs, p) + Gap(gn, gs, p, s)
<1>1. PICK s : s = Side(tr, p, m)
  OBVIOUS
<1>2. p \in Linked(tr) /\ s \in Sides /\ tr.child[s][p] = m /\ m # NULL /\ NULL \notin Linked(tr)
  BY <1>1, SideIs, Fields
<1>3. CASE gn \in Linked(tr) /\ gs \in Sides
  <2>1. PICK e : e = tr.child[gs][gn]
    OBVIOUS
  <2>2. Cut1(tr, sub, gn, gs, m) = (IF m \in Sub(sub, e) THEN 1 ELSE 0)
    BY <1>3, <2>1 DEF Cut1
  <2>3. Cut1(tr, sub, gn, gs, p) = (IF p \in Sub(sub, e) THEN 1 ELSE 0)
    BY <1>3, <2>1 DEF Cut1
  <2>4. CASE m = e
    <3>1. p = gn /\ s = gs
      BY <1>2, <1>3, <2>1, <2>4, ChildOnce
    <3>2. m \in sub[m] /\ p \notin sub[m]
      BY <1>2, SubSmaller
    <3>3. Gap(gn, gs, p, s) = 1
      BY <3>1 DEF Gap
    <3> QED
      BY <1>2, <2>2, <2>3, <2>4, <3>2, <3>3 DEF Sub
  <2>5. CASE m # e
    <3>1. Gap(gn, gs, p, s) = 0
      BY <1>2, <2>1, <2>5 DEF Gap
    <3>2. m \in Sub(sub, e) <=> p \in Sub(sub, e)
      <4>1. CASE e = NULL
        BY <4>1 DEF Sub
      <4>2. CASE e # NULL
        <5>1. e \in Linked(tr)
          BY <1>3, <2>1, <4>2, ChildIs
        <5>2. m \in sub[e] <=> m = e \/ (p # NULL /\ p \in sub[e])
          BY <5>1, BelowStep
        <5> QED
          BY <2>5, <4>2, <5>2 DEF Sub
      <4> QED
        BY <4>1, <4>2
    <3> QED
      BY <1>2, <2>2, <2>3, <3>1, <3>2
  <2> QED
    BY <2>4, <2>5
<1>4. CASE ~(gn \in Linked(tr) /\ gs \in Sides)
  <2>1. Gap(gn, gs, p, s) = 0
    BY <1>2, <1>4 DEF Gap
  <2>2. Cut1(tr, sub, gn, gs, m) = 0 /\ Cut1(tr, sub, gn, gs, p) = 0
    BY <1>4 DEF Cut1
  <2> QED
    BY <1>2, <2>1, <2>2
<1> QED
  BY <1>3, <1>4

\* It is not missing at the root.
LEMMA CutRoot ==
  ASSUME NEW tr, NEW sub, Tree(tr, sub), NEW gn, NEW gs
  PROVE  Cut1(tr, sub, gn, gs, tr.root) = 0 /\ \A n : Cut1(tr, sub, gn, gs, n) \in {0, 1}
<1>1. ASSUME gn \in Linked(tr), gs \in Sides PROVE tr.root \notin Sub(sub, tr.child[gs][gn])
  BY <1>1, InChild
<1> QED
  BY <1>1 DEF Cut1

\* The black nodes down to n and those of the paths below it add up to those
\* of a path from the root.
LEMMA BlackDepthIs ==
  ASSUME NEW sub, Tree(tree, sub), NEW h, NEW gn, NEW gs, Heights(tree, h, gn, gs), NEW n \in Linked(tree)
  PROVE  BlackDepth(n) = ((h[tree.root] + BlackOf(tree, n)) - h[n]) - Cut1(tree, sub, gn, gs, n)
<1> DEFINE Solves(f) == f = [m \in Places(tree) |-> IF m = NULL THEN 0
                                ELSE (IF tree.color[m] = "black" THEN 1 ELSE 0) + f[tree.parent[m]]]
           At(m) == ((h[tree.root] + BlackOf(tree, m)) - h[m]) - Cut1(tree, sub, gn, gs, m)
<1>1. PICK g : g = [m \in Places(tree) |-> IF m = NULL THEN 0 ELSE At(m)]
  OBVIOUS
<1>0. tree.root \in Linked(tree) /\ NULL \notin Linked(tree) /\ h[tree.root] \in Nat
  BY Fields, HeightFacts DEF Sides
<1>2. ASSUME NEW m \in Linked(tree), NEW p, p = tree.parent[m]
      PROVE  p \in Places(tree) /\ At(m) \in Int /\ At(m) = BlackOf(tree, m) + (IF p = NULL THEN 0 ELSE At(p))
  <2>1. p \in Places(tree) /\ (p = NULL <=> m = tree.root)
    BY <1>2, Fields
  <2>2. /\ h[m] \in Nat /\ BlackOf(tree, m) \in {0, 1} /\ Cut1(tree, sub, gn, gs, m) \in {0, 1}
    BY HeightFacts, BlackBit, CutRoot DEF Sides
  <2>3. CASE p = NULL
    <3>1. m = tree.root /\ Cut1(tree, sub, gn, gs, m) = 0
      BY <2>1, <2>3, CutRoot
    <3> QED
      BY <1>0, <2>1, <2>2, <2>3, <3>1
  <2>4. CASE p # NULL
    <3>1. PICK s \in Sides : /\ p \in Linked(tree) /\ tree.child[s][p] = m
                             /\ Cut1(tree, sub, gn, gs, m) = Cut1(tree, sub, gn, gs, p) + Gap(gn, gs, p, s)
      BY <1>2, <2>4, CutStep
    <3>2. /\ h[p] = h[m] + Gap(gn, gs, p, s) + BlackOf(tree, p) /\ h[p] \in Nat
      <4>1. m # NULL
        BY <1>0
      <4> QED
        BY <3>1, <4>1, HeightFacts
    <3>3. BlackOf(tree, p) \in {0, 1} /\ Cut1(tree, sub, gn, gs, p) \in {0, 1} /\ Gap(gn, gs, p, s) \in {0, 1}
      BY <3>1, BlackBit, CutRoot, GapBit
    <3> QED
      BY <1>0, <2>1, <2>2, <2>4, <3>1, <3>2, <3>3
  <2> QED
    BY <2>3, <2>4
<1> HIDE DEF At
<1>3. \A m \in Places(tree) :
        g[m] = IF m = NULL THEN 0 ELSE (IF tree.color[m] = "black" THEN 1 ELSE 0) + g[tree.parent[m]]
  <2> SUFFICES ASSUME NEW m \in Places(tree), m # NULL
               PROVE  g[m] = (IF tree.color[m] = "black" THEN 1 ELSE 0) + g[tree.parent[m]]
    BY <1>1
  <2>1. PICK p : p = tree.parent[m]
    OBVIOUS
  <2>2. m \in Linked(tree)
    BY DEF Places
  <2>3. p \in Places(tree) /\ At(m) = BlackOf(tree, m) + (IF p = NULL THEN 0 ELSE At(p))
    BY <1>2, <2>1, <2>2
  <2>4. g[m] = At(m) /\ g[p] = (IF p = NULL THEN 0 ELSE At(p))
    BY <1>1, <2>3
  <2> QED
    BY <2>1, <2>3, <2>4 DEF BlackOf
<1>4. Solves(g)
  BY <1>1, <1>3, Zenon
<1>5. PICK w : w = CHOOSE f : Solves(f)
  OBVIOUS
<1>6. Solves(w)
  BY <1>4, <1>5, Zenon
<1>7. BlackDepth(n) = w[n]
  BY <1>5, Zenon DEF BlackDepth
<1>8. \A m \in Places(tree) :
        w[m] = IF m = NULL THEN 0 ELSE (IF tree.color[m] = "black" THEN 1 ELSE 0) + w[tree.parent[m]]
  BY <1>6, Zenon
<1> HIDE DEF Solves
<1>9. PICK Bad : Bad = {m \in Linked(tree) : w[m] # At(m)}
  OBVIOUS
<1>10. ASSUME NEW m \in Bad PROVE tree.parent[m] \in Bad
  <2>1. m \in Linked(tree) /\ w[m] # At(m)
    BY <1>9
  <2>2. PICK p : p = tree.parent[m]
    OBVIOUS
  <2>3. p \in Places(tree) /\ At(m) = BlackOf(tree, m) + (IF p = NULL THEN 0 ELSE At(p))
    BY <1>2, <2>1, <2>2
  <2>4. m \in Places(tree) /\ m # NULL /\ NULL \in Places(tree)
    BY <1>0, <2>1 DEF Places
  <2>5. w[m] = BlackOf(tree, m) + w[p] /\ w[NULL] = 0
    BY <1>8, <2>2, <2>4 DEF BlackOf
  <2>6. p # NULL /\ w[p] # At(p)
    BY <2>1, <2>3, <2>5
  <2> QED
    BY <1>9, <2>2, <2>3, <2>6 DEF Places
<1>11. Bad = {}
  <2>1. Bad \subseteq Linked(tree)
    BY <1>9
  <2> QED
    BY <1>10, <2>1, Ascent
<1>12. w[n] = At(n)
  BY <1>9, <1>11
<1> QED
  BY <1>7, <1>12 DEF At

\* The black nodes on the way to a leaf, with the one that is missing.
LEMMA LeafIs ==
  ASSUME NEW sub, NEW h, TreeInv(tree, op.pc, op.elm, op.parent, sub, h),
         NEW n \in Linked(tree), NEW s \in Sides, tree.child[s][n] = NULL,
         NEW miss, miss = (IF op.pc = "remove_color" /\ IF op.elm = NULL
                                 THEN n = op.parent /\ s = Side(tree, n, NULL) ELSE Below(n, op.elm)
                             THEN 1 ELSE 0)
  PROVE  BlackDepth(n) + miss
           = h[tree.root] + (IF op.pc = "remove_color" /\ op.elm = tree.root THEN 1 ELSE 0)
<1>1. PICK gn, gs, elm, par : /\ gn = GapNode(tree, op.pc, op.elm, op.parent) /\ gs = GapSide(tree, op.elm, op.parent)
                              /\ elm = op.elm /\ par = op.parent
  OBVIOUS
<1>2. Tree(tree, sub) /\ Heights(tree, h, gn, gs) /\ OpShape(tree, op.pc, elm, par)
  BY <1>1 DEF TreeInv
<1>0. tree.root \in Linked(tree) /\ NULL \notin Linked(tree)
  BY <1>2, Fields
<1>3. PICK cut : cut = Cut1(tree, sub, gn, gs, n)
  OBVIOUS
<1>4. /\ BlackDepth(n) = ((h[tree.root] + BlackOf(tree, n)) - h[n]) - cut
      /\ cut \in {0, 1} /\ h[tree.root] \in Nat
  BY <1>0, <1>2, <1>3, BlackDepthIs, CutRoot, HeightFacts
<1>5. /\ h[n] \in Nat /\ h[n] = 0 + Gap(gn, gs, n, s) + BlackOf(tree, n)
      /\ Gap(gn, gs, n, s) \in {0, 1} /\ BlackOf(tree, n) \in {0, 1}
  BY <1>2, HeightFacts, GapBit, BlackBit DEF Height
<1>6. BlackDepth(n) = (h[tree.root] - Gap(gn, gs, n, s)) - cut
  BY <1>4, <1>5
<1>7. CASE op.pc # "remove_color"
  <2>1. gn = NULL
    BY <1>1, <1>7 DEF GapNode
  <2>2. Gap(gn, gs, n, s) = 0 /\ cut = 0
    BY <1>0, <1>3, <2>1 DEF Gap, Cut1
  <2>3. miss = 0
    BY <1>7
  <2> QED
    BY <1>4, <1>6, <1>7, <2>2, <2>3
<1>8. CASE op.pc = "remove_color" /\ elm = tree.root
  <2>1. gn = NULL
    BY <1>1, <1>8 DEF GapNode
  <2>2. Gap(gn, gs, n, s) = 0 /\ cut = 0
    BY <1>0, <1>3, <2>1 DEF Gap, Cut1
  <2>3. Below(n, elm)
    <3>1. n \in sub[elm] /\ elm \in Linked(tree)
      BY <1>0, <1>2, <1>8 DEF Tree, Spans, Sub
    <3> QED
      BY <1>2, <3>1, BelowIs
  <2>4. miss = 1
    BY <1>0, <1>1, <1>8, <2>3
  <2> QED
    BY <1>1, <1>4, <1>6, <1>8, <2>2, <2>4
<1>9. CASE op.pc = "remove_color" /\ elm # tree.root
  <2>1. gn = par /\ par \in Linked(tree) /\ gs = Side(tree, par, elm) /\ gs \in Sides /\ tree.child[gs][par] = elm
    BY <1>1, <1>2, <1>9 DEF GapNode, GapSide, OpShape
  <2>2. cut = (IF n \in Sub(sub, elm) THEN 1 ELSE 0)
    BY <1>3, <2>1 DEF Cut1
  <2>3. CASE elm = NULL
    <3>1. cut = 0
      BY <2>2, <2>3 DEF Sub
    <3>2. miss = (IF n = par /\ s = Side(tree, n, NULL) THEN 1 ELSE 0)
      BY <1>1, <1>9, <2>3
    <3>3. Gap(gn, gs, n, s) = (IF n = par /\ s = Side(tree, n, NULL) THEN 1 ELSE 0)
      BY <2>1, <2>3 DEF Gap
    <3> QED
      BY <1>1, <1>4, <1>6, <1>9, <3>1, <3>2, <3>3
  <2>4. CASE elm # NULL
    <3>1. elm \in Linked(tree)
      BY <1>2, <2>1, <2>4, ChildIs
    <3>2. Gap(gn, gs, n, s) = 0
      BY <2>1, <2>4 DEF Gap
    <3>3. Below(n, elm) <=> n \in sub[elm]
      BY <1>2, <3>1, BelowIs
    <3>4. cut = (IF n \in sub[elm] THEN 1 ELSE 0)
      BY <2>2, <2>4 DEF Sub
    <3>5. miss = (IF n \in sub[elm] THEN 1 ELSE 0)
      BY <1>1, <1>9, <2>4, <3>3
    <3> QED
      BY <1>1, <1>4, <1>6, <1>9, <3>2, <3>4, <3>5
  <2> QED
    BY <2>3, <2>4
<1> QED
  BY <1>1, <1>7, <1>8, <1>9

\* Every path of a tree from the root to a leaf has as many black nodes and
\* no red node a red parent, but for the element a rebalancing loop is
\* working on (tree.h:38-44): a path is never more than twice the shortest.
THEOREM TreesRedBlack == TreeSpec => []RedBlack
<1>1. ASSUME TreeIInv PROVE RedBlack
  <2>1. PICK sub, h : TreeInv(tree, op.pc, op.elm, op.parent, sub, h)
    BY <1>1 DEF TreeIInv, TreeState
  <2>2. RedRule(tree, op.pc, op.elm)
    BY <2>1 DEF TreeInv
  <2> DEFINE removing == op.pc = "remove_color"
             missing(n, s) == removing /\ IF op.elm = NULL
                                             THEN n = op.parent /\ s = Side(tree, n, NULL) ELSE Below(n, op.elm)
             leaves == {l \in Linked(tree) \X Sides : tree.child[l[2]][l[1]] = NULL}
             blacks == {BlackDepth(l[1]) + IF missing(l[1], l[2]) THEN 1 ELSE 0 : l \in leaves}
             all == h[tree.root] + (IF removing /\ op.elm = tree.root THEN 1 ELSE 0)
  <2>3. ASSUME NEW l \in leaves
        PROVE  (BlackDepth(l[1]) + IF missing(l[1], l[2]) THEN 1 ELSE 0) = all
    <3>1. PICK n, s : n = l[1] /\ s = l[2]
      OBVIOUS
    <3>2. n \in Linked(tree) /\ s \in Sides /\ tree.child[s][n] = NULL
      BY <3>1
    <3>3. PICK m : m = IF missing(n, s) THEN 1 ELSE 0
      OBVIOUS
    <3>4. BlackDepth(n) + m = all
      BY <2>1, <3>2, <3>3, LeafIs
    <3> QED
      BY <3>1, <3>3, <3>4
  <2>4. \A b \in blacks : b = all
    BY <2>3
  <2>5. \A a, b \in blacks : a = b
    BY <2>4
  <2> QED
    BY <2>2, <2>5 DEF RedBlack, RedRule
<1>2. QED
  BY <1>1, TreeKept, PTL

-----------------------------------------------------------------------------
(* RB_NFIND and the other readers.                                         *)

\* y is the first node below n whose key is not less than k.
NotLess(sub, n, k, y) ==
    /\ y # NULL => y \in Sub(sub, n) /\ Key[y] >= k
    /\ \A m \in Sub(sub, n) : Key[m] >= k => y # NULL /\ (m = y \/ Key[m] > Key[y])

\* What the search finds below n, from what it finds below the child it takes.
NfindAt(tr, k, n, z) ==
    IF k = Key[n] THEN n ELSE IF k < Key[n] /\ z = NULL THEN n ELSE z

\* The first node not less than k below n, from that below the child taken.
LEMMA NotLessUp ==
  ASSUME NEW tr, NEW sub, Tree(tr, sub), NEW n \in Linked(tr), NEW k \in Int, NEW c, c = tr.child[Toward(k, n)][n],
         NEW z, k # Key[n] => NotLess(sub, c, k, z)
  PROVE  NotLess(sub, n, k, NfindAt(tr, k, n, z))
<1>a. PICK s, e, y : s = Toward(k, n) /\ e = tr.child[Other(s)][n] /\ y = NfindAt(tr, k, n, z)
  OBVIOUS
<1>0. /\ n \in Nodes /\ s \in Sides /\ (s = "left" <=> k < Key[n]) /\ Key[n] \in Int /\ n # NULL
      /\ Other(s) \in Sides /\ Other(s) # s
  <2>1. n \in Nodes /\ n # NULL
    BY Fields
  <2>2. Toward(k, n) \in Sides /\ (Toward(k, n) = "left" <=> k < Key[n]) /\ Key[n] \in Int
    BY <2>1, TowardIs
  <2> QED
    BY <1>a, <2>1, <2>2, OtherSide
<1>1. /\ sub[n] = {n} \cup Sub(sub, c) \cup Sub(sub, e) /\ sub[n] \subseteq Linked(tr)
      /\ \A m \in Sub(sub, c) : Before(s, m, n)
      /\ \A m \in Sub(sub, e) : Before(Other(s), m, n)
  BY <1>0, <1>a, SubSides
<1>2. Sub(sub, n) = {n} \cup Sub(sub, c) \cup Sub(sub, e)
  BY <1>0, <1>1 DEF Sub
<1>3. \A m \in Sub(sub, n) : m \in Linked(tr) /\ m \in Nodes /\ Key[m] \in Int /\ m # NULL
  BY <1>0, <1>1, Fields, KeyAssumption DEF Sub
<1>4. CASE k = Key[n]
  <2>1. y = n
    BY <1>4, <1>a DEF NfindAt
  <2>2. ASSUME NEW m \in Sub(sub, n), Key[m] >= k PROVE m = n \/ Key[m] > Key[n]
    <3>1. m # n => Key[m] # Key[n]
      BY <1>0, <1>1, <1>2, <1>3 DEF Before
    <3> QED
      BY <1>0, <1>3, <1>4, <2>2, <3>1
  <2>3. NotLess(sub, n, k, n)
    BY <1>0, <1>2, <1>4, <2>2 DEF NotLess
  <2> QED
    BY <1>a, <2>1, <2>3
<1>5. CASE k < Key[n]
  <2>0. /\ \A m \in Sub(sub, c) : Key[m] < Key[n]
        /\ \A m \in Sub(sub, e) : Key[m] > Key[n]
    BY <1>0, <1>1, <1>5 DEF Before, Sides, Other
  <2>1. NotLess(sub, c, k, z) /\ k # Key[n]
    BY <1>0, <1>5
  <2>2. CASE z = NULL
    <3>1. y = n
      BY <1>5, <1>a, <2>1, <2>2 DEF NfindAt
    <3>2. \A m \in Sub(sub, c) : ~(Key[m] >= k)
      BY <2>1, <2>2 DEF NotLess
    <3>3. \A m \in Sub(sub, n) : Key[m] >= k => m = n \/ Key[m] > Key[n]
      BY <1>2, <2>0, <3>2
    <3>4. Key[n] >= k
      BY <1>0, <1>5
    <3>5. NotLess(sub, n, k, n)
      BY <1>0, <1>2, <3>3, <3>4 DEF NotLess
    <3> QED
      BY <1>a, <3>1, <3>5
  <2>3. CASE z # NULL
    <3>1. y = z
      BY <1>a, <2>1, <2>3 DEF NfindAt
    <3>2. z \in Sub(sub, c) /\ Key[z] >= k
      BY <2>1, <2>3 DEF NotLess
    <3>3. \A m \in Sub(sub, c) : Key[m] >= k => m = z \/ Key[m] > Key[z]
      BY <2>1 DEF NotLess
    <3>4. Key[z] < Key[n] /\ Key[z] \in Int
      BY <1>2, <1>3, <2>0, <3>2
    <3>5. \A m \in Sub(sub, e) : Key[m] > Key[z]
      <4>1. ASSUME NEW m \in Sub(sub, e) PROVE Key[m] > Key[z]
        <5>1. Key[m] \in Int /\ Key[m] > Key[n]
          BY <1>2, <1>3, <2>0
        <5> QED
          BY <1>0, <3>4, <5>1
      <4> QED
        BY <4>1
    <3>6. Key[n] > Key[z]
      BY <1>0, <3>4
    <3>7. \A m \in Sub(sub, n) : Key[m] >= k => m = z \/ Key[m] > Key[z]
      BY <1>2, <3>3, <3>5, <3>6
    <3>8. NotLess(sub, n, k, z)
      BY <1>2, <2>3, <3>2, <3>7 DEF NotLess
    <3> QED
      BY <1>a, <3>1, <3>8
  <2> QED
    BY <2>2, <2>3
<1>6. CASE k > Key[n]
  <2>0. s = "right" /\ \A m \in Sub(sub, e) : Key[m] < Key[n]
    BY <1>0, <1>1, <1>6 DEF Before, Sides, Other
  <2>1. NotLess(sub, c, k, z) /\ k # Key[n] /\ ~(k < Key[n])
    BY <1>0, <1>6
  <2>2. y = z
    BY <1>a, <2>1 DEF NfindAt
  <2>3. \A m \in Sub(sub, e) : ~(Key[m] >= k)
    <3>1. ASSUME NEW m \in Sub(sub, e) PROVE ~(Key[m] >= k)
      <4>1. Key[m] \in Int /\ Key[m] < Key[n]
        BY <1>2, <1>3, <2>0
      <4> QED
        BY <1>0, <1>6, <4>1
    <3> QED
      BY <3>1
  <2>4. ~(Key[n] >= k)
    BY <1>0, <1>6
  <2>5. NotLess(sub, n, k, z)
    BY <1>2, <2>1, <2>3, <2>4 DEF NotLess
  <2> QED
    BY <1>a, <2>2, <2>5
<1> QED
  BY <1>0, <1>4, <1>5, <1>6

\* There is one such node.
LEMMA NotLessOnce ==
  ASSUME NEW tr, NEW sub, Tree(tr, sub), NEW n \in Places(tr), NEW k \in Int,
         NEW y, NotLess(sub, n, k, y), NEW z, NotLess(sub, n, k, z)
  PROVE  y = z
<1>1. \A m \in Sub(sub, n) : Key[m] \in Int /\ m # NULL
  <2>1. Sub(sub, n) \subseteq Linked(tr)
    BY SubSides DEF Places, Sub, Sides
  <2> QED
    BY <2>1, Fields, KeyAssumption
<1>2. y # NULL => y \in Sub(sub, n) /\ Key[y] >= k /\ z # NULL /\ (y = z \/ Key[y] > Key[z])
  BY DEF NotLess
<1>3. z # NULL => z \in Sub(sub, n) /\ Key[z] >= k /\ y # NULL /\ (z = y \/ Key[z] > Key[y])
  BY DEF NotLess
<1> QED
  BY <1>1, <1>2, <1>3

\* There is always such a node, or NULL.
LEMMA NotLessExists ==
  ASSUME NEW tr, NEW sub, Tree(tr, sub), NEW k \in Int
  PROVE  \A n \in Places(tr) : \E y : NotLess(sub, n, k, y)
<1>1. NotLess(sub, NULL, k, NULL)
  BY DEF NotLess, Sub
<1>2. PICK Bad : Bad = {n \in Linked(tr) : ~\E y : NotLess(sub, n, k, y)}
  OBVIOUS
<1>3. ASSUME NEW n \in Bad PROVE \E s \in Sides : tr.child[s][n] \in Bad
  <2>1. n \in Linked(tr) /\ ~\E y : NotLess(sub, n, k, y)
    BY <1>2
  <2>2. PICK s, c : s = Toward(k, n) /\ c = tr.child[s][n]
    OBVIOUS
  <2>3. s \in Sides /\ c \in Places(tr)
    BY <2>1, <2>2, TowardIs, Fields
  <2>4. ~\E z : NotLess(sub, c, k, z)
    BY <2>1, <2>2, NotLessUp
  <2>5. c \in Linked(tr)
    BY <1>1, <2>3, <2>4 DEF Places
  <2> QED
    BY <1>2, <2>2, <2>3, <2>4, <2>5
<1>4. Bad = {}
  <2>1. Bad \subseteq Linked(tr)
    BY <1>2
  <2> QED
    BY <1>3, <2>1, Descent
<1> QED
  BY <1>1, <1>2, <1>4 DEF Places

\* RB_NFIND returns the first node that is not less, NULL if all are.
LEMMA NfindIs ==
  ASSUME NEW tr, NEW sub, Tree(tr, sub), NEW k \in Int
  PROVE  NotLess(sub, tr.root, k, RB_NFIND(tr, k))
<1> DEFINE Solves(f) == f = [n \in Places(tr) |->
                               IF n = NULL \/ k = Key[n] THEN n
                               ELSE IF k < Key[n] /\ f[tr.child["left"][n]] = NULL THEN n
                               ELSE f[tr.child[Toward(k, n)][n]]]
<1>1. PICK g : g = [n \in Places(tr) |-> CHOOSE y : NotLess(sub, n, k, y)]
  OBVIOUS
<1>2. \A n \in Places(tr) : NotLess(sub, n, k, g[n])
  BY <1>1, NotLessExists
<1>0. NULL \in Places(tr) /\ NotLess(sub, NULL, k, NULL)
  BY DEF NotLess, Sub, Places
<1>3. ASSUME NEW n \in Linked(tr), NEW c, c = tr.child[Toward(k, n)][n]
      PROVE  c \in Places(tr) /\ n \in Places(tr) /\ n # NULL /\ (k < Key[n] => c = tr.child["left"][n])
  BY <1>3, TowardIs, Fields DEF Places
<1>4. \A n \in Places(tr) : g[n] = IF n = NULL \/ k = Key[n] THEN n
                                   ELSE IF k < Key[n] /\ g[tr.child["left"][n]] = NULL THEN n
                                   ELSE g[tr.child[Toward(k, n)][n]]
  <2> SUFFICES ASSUME NEW n \in Places(tr)
               PROVE  g[n] = IF n = NULL \/ k = Key[n] THEN n
                             ELSE IF k < Key[n] /\ g[tr.child["left"][n]] = NULL THEN n
                             ELSE g[tr.child[Toward(k, n)][n]]
    OBVIOUS
  <2>1. CASE n = NULL
    <3>1. g[NULL] = NULL
      BY <1>0, <1>2, NotLessOnce
    <3> QED
      BY <2>1, <3>1
  <2>2. CASE n # NULL
    <3>1. PICK c : c = tr.child[Toward(k, n)][n]
      OBVIOUS
    <3>2. n \in Linked(tr)
      BY <2>2 DEF Places
    <3>3. c \in Places(tr) /\ (k < Key[n] => c = tr.child["left"][n])
      BY <1>3, <3>1, <3>2
    <3>4. NotLess(sub, c, k, g[c])
      BY <1>2, <3>3
    <3>5. NotLess(sub, n, k, NfindAt(tr, k, n, g[c]))
      BY <3>1, <3>2, <3>4, NotLessUp
    <3>6. g[n] = NfindAt(tr, k, n, g[c])
      BY <1>2, <3>5, NotLessOnce
    <3> QED
      BY <2>2, <3>1, <3>3, <3>6 DEF NfindAt
  <2> QED
    BY <2>1, <2>2
<1>5. Solves(g)
  BY <1>1, <1>4, Zenon
<1>6. PICK w : w = CHOOSE f : Solves(f)
  OBVIOUS
<1>7. Solves(w)
  BY <1>5, <1>6, Zenon
<1>8. RB_NFIND(tr, k) = w[tr.root]
  BY <1>6, Zenon DEF RB_NFIND
<1>9. \A n \in Places(tr) : w[n] = IF n = NULL \/ k = Key[n] THEN n
                                   ELSE IF k < Key[n] /\ w[tr.child["left"][n]] = NULL THEN n
                                   ELSE w[tr.child[Toward(k, n)][n]]
  BY <1>7, Zenon
<1> HIDE DEF Solves
<1>10. PICK Bad : Bad = {n \in Linked(tr) : ~NotLess(sub, n, k, w[n])}
  OBVIOUS
<1>11. w[NULL] = NULL
  BY <1>0, <1>9
<1>12. ASSUME NEW n \in Bad PROVE \E s \in Sides : tr.child[s][n] \in Bad
  <2>1. n \in Linked(tr) /\ ~NotLess(sub, n, k, w[n])
    BY <1>10
  <2>2. PICK s, c : s = Toward(k, n) /\ c = tr.child[s][n]
    OBVIOUS
  <2>3. s \in Sides
    BY <2>1, <2>2, TowardIs, Fields
  <2>4. c \in Places(tr) /\ n \in Places(tr) /\ n # NULL /\ (k < Key[n] => c = tr.child["left"][n])
    BY <1>3, <2>1, <2>2
  <2>5. w[n] = NfindAt(tr, k, n, w[c])
    BY <1>9, <2>2, <2>4 DEF NfindAt
  <2>6. ~NotLess(sub, c, k, w[c])
    BY <2>1, <2>2, <2>5, NotLessUp
  <2>7. c \in Linked(tr)
    BY <1>0, <1>11, <2>4, <2>6 DEF Places
  <2> QED
    BY <1>10, <2>2, <2>3, <2>6, <2>7
<1>13. Bad = {}
  <2>1. Bad \subseteq Linked(tr)
    BY <1>10
  <2> QED
    BY <1>12, <2>1, Descent
<1>14. tr.root \in Places(tr)
  BY Fields
<1>15. NotLess(sub, tr.root, k, w[tr.root])
  BY <1>0, <1>10, <1>11, <1>13, <1>14 DEF Places
<1> QED
  BY <1>8, <1>15

\* The i-th node of a sequence, NULL outside it.
At(q, i) == IF i \in 1..Len(q) THEN q[i] ELSE NULL

\* A node's place in the order is given by the number of nodes before it.
LEMMA RankAt ==
  ASSUME NEW S, Distinct(S), NEW q, q = InKeyOrder(S, "right"), NEW y \in S, NEW F, F = Behind(S, "right", y)
  PROVE  Cardinality(F) \in Nat /\ At(q, Cardinality(F) + 1) = y
<1>0. "right" \in Sides
  BY DEF Sides
<1>1. PICK c, N : c = Cardinality(F) /\ N = Cardinality(S)
  OBVIOUS
<1>2. /\ q \in Seq(S) /\ Len(q) = N /\ N \in Nat
      /\ \A i \in 1..Len(q) : q[i] \in S /\ Cardinality(Behind(S, "right", q[i])) = i - 1
  BY <1>0, <1>1, OrderIs, Ranks
<1>3. c \in 0..(N - 1)
  BY <1>0, <1>1, Ranks
<1>4. c \in Nat /\ c + 1 \in 1..Len(q) /\ (c + 1) - 1 = c
  BY <1>2, <1>3
<1>5. q[c + 1] \in S /\ Cardinality(Behind(S, "right", q[c + 1])) = c
  BY <1>2, <1>4
<1>6. q[c + 1] = y
  BY <1>0, <1>1, <1>5, Ranks
<1> QED
  BY <1>1, <1>4, <1>6 DEF At

\* A set in order has as many elements as the set, each at its rank.
LEMMA OrderLength ==
  ASSUME NEW S, Distinct(S), NEW q, q = InKeyOrder(S, "right")
  PROVE  /\ Len(q) = Cardinality(S) /\ Len(q) \in Nat
         /\ \A i \in 1..Len(q) : q[i] \in S /\ Cardinality(Behind(S, "right", q[i])) = i - 1
<1>1. "right" \in Sides
  BY DEF Sides
<1>2. Cardinality(S) \in Nat
  BY <1>1, Ranks
<1>3. /\ Len(q) = Cardinality(S)
      /\ \A i \in 1..Len(q) : q[i] \in S /\ Cardinality(Behind(S, "right", q[i])) = i - 1
  BY <1>1, OrderIs
<1> QED
  BY <1>2, <1>3

\* What RB_NFIND and RB_FIND return, by the number of smaller keys.
LEMMA RanksOf ==
  ASSUME NEW sub, Tree(tree, sub), NEW k \in Int, NEW q, q = InKeyOrder(Linked(tree), "right"),
         NEW F, F = {n \in Linked(tree) : Key[n] < k}
  PROVE  /\ RB_NFIND(tree, k) = At(q, Cardinality(F) + 1)
         /\ RB_FIND(tree, k) = IF \E n \in Linked(tree) : Key[n] = k THEN At(q, Cardinality(F) + 1) ELSE NULL
<1>1. PICK S : S = Linked(tree)
  OBVIOUS
<1>2. Distinct(S) /\ \A m \in S : Key[m] \in Int
  BY <1>1, DistinctSub, Fields, KeyAssumption
<1>3. ASSUME NEW y \in S, Key[y] >= k, \A m \in S : Key[m] >= k => m = y \/ Key[m] > Key[y]
      PROVE  y = At(q, Cardinality(F) + 1)
  <2>1. \A m \in S : Key[m] < Key[y] <=> Key[m] < k
    <3>1. ASSUME NEW m \in S PROVE Key[m] < Key[y] <=> Key[m] < k
      <4>1. Key[m] \in Int /\ Key[y] \in Int /\ (Key[m] >= k => m = y \/ Key[m] > Key[y])
        BY <1>2, <1>3
      <4> QED
        BY <1>3, <4>1
    <3> QED
      BY <3>1
  <2>2. F = Behind(S, "right", y)
    BY <1>1, <2>1 DEF Behind
  <2> QED
    BY <1>1, <1>2, <2>2, RankAt
<1>4. RB_NFIND(tree, k) = At(q, Cardinality(F) + 1)
  <2>1. PICK y : y = RB_NFIND(tree, k)
    OBVIOUS
  <2>2. NotLess(sub, tree.root, k, y) /\ Sub(sub, tree.root) = S
    BY <1>1, <2>1, NfindIs DEF Tree, Spans
  <2>3. CASE y = NULL
    <3>1. \A m \in S : ~(Key[m] >= k)
      BY <2>2, <2>3 DEF NotLess
    <3>2. F = S
      BY <1>1, <1>2, <3>1
    <3>3. Len(q) = Cardinality(S) /\ Len(q) \in Nat
      BY <1>1, <1>2, OrderLength
    <3>4. PICK c : c = Cardinality(F)
      OBVIOUS
    <3>5. Len(q) = c /\ c \in Nat
      BY <3>2, <3>3, <3>4
    <3>6. At(q, c + 1) = NULL
      BY <3>5 DEF At
    <3> QED
      BY <2>1, <2>3, <3>4, <3>6
  <2>4. CASE y # NULL
    <3>1. y \in S /\ Key[y] >= k /\ \A m \in S : Key[m] >= k => m = y \/ Key[m] > Key[y]
      BY <2>2, <2>4 DEF NotLess
    <3> QED
      BY <1>3, <2>1, <3>1
  <2> QED
    BY <2>3, <2>4
<1>5. PICK f : f = RB_FIND(tree, k)
  OBVIOUS
<1>6. \/ f = NULL /\ \A m \in S : Key[m] # k
      \/ f \in S /\ Key[f] = k
  BY <1>1, <1>5, FindIs
<1>7. CASE f = NULL /\ \A m \in S : Key[m] # k
  BY <1>1, <1>4, <1>5, <1>7
<1>8. CASE f \in S /\ Key[f] = k
  <2>1. Key[f] >= k
    BY <1>8
  <2>2. \A m \in S : Key[m] >= k => m = f \/ Key[m] > Key[f]
    <3>1. ASSUME NEW m \in S, Key[m] >= k PROVE m = f \/ Key[m] > Key[f]
      <4>1. Key[m] \in Int /\ (Key[m] = Key[f] => m = f)
        BY <1>2, <1>8 DEF Distinct
      <4> QED
        BY <1>8, <3>1, <4>1
    <3> QED
      BY <3>1
  <2>3. f = At(q, Cardinality(F) + 1)
    BY <1>3, <1>8, <2>1, <2>2
  <2> QED
    BY <1>1, <1>4, <1>5, <1>8, <2>3
<1> QED
  BY <1>6, <1>7, <1>8

\* The neighbours in the order are those RB_NEXT and RB_PREV return.
LEMMA NeighboursOf ==
  ASSUME NEW sub, Tree(tree, sub), NEW q, q = InKeyOrder(Linked(tree), "right"), NEW i \in 1..Len(q)
  PROVE  RB_NEXT(tree, q[i], "right") = At(q, i + 1) /\ RB_NEXT(tree, q[i], "left") = At(q, i - 1)
<1>1. PICK S, n : S = Linked(tree) /\ n = q[i]
  OBVIOUS
<1>2. Distinct(S) /\ IsFiniteSet(S) /\ NULL \notin S /\ \A m \in S : Key[m] \in Int
  BY <1>1, DistinctSub, Fields, KeyAssumption DEF Distinct
<1>3. Len(q) = Cardinality(S) /\ Len(q) \in Nat /\ n \in S /\ Cardinality(Behind(S, "right", n)) = i - 1
  BY <1>1, <1>2, OrderLength
<1>4. \A m \in S : (Key[m] = Key[n] => m = n) /\ Key[n] \in Int
  BY <1>2, <1>3 DEF Distinct
<1>a. \A y \in S : Behind(S, "right", y) = {m \in S : Key[m] < Key[y]} /\ Behind(S, "right", y) \subseteq S
  BY DEF Behind
<1>b. \A y \in S : IsFiniteSet(Behind(S, "right", y))
  BY <1>2, <1>a, FS_Subset
<1>5. RB_NEXT(tree, n, "right") = At(q, i + 1)
  <2>1. PICK y : y = RB_NEXT(tree, n, "right")
    OBVIOUS
  <2>2. Neighbour(tree, "right", n, y)
    BY <1>1, <1>3, <2>1, NextIs DEF Sides
  <2>3. /\ y \in Places(tree) /\ y # n /\ (y # NULL => Key[y] > Key[n])
        /\ \A m \in S : Key[m] > Key[n] => y # NULL /\ (m = y \/ Key[m] > Key[y])
    BY <1>1, <2>2 DEF Neighbour, Before
  <2>4. CASE y = NULL
    <3>1. \A m \in S : Key[m] < Key[n] <=> m # n
      BY <1>2, <1>4, <2>3, <2>4
    <3>2. S = Behind(S, "right", n) \cup {n} /\ n \notin Behind(S, "right", n)
      BY <1>3, <1>a, <3>1
    <3>3. Cardinality(S) = (i - 1) + 1
      BY <1>3, <1>b, <3>2, FS_AddElement
    <3>4. At(q, i + 1) = NULL
      BY <1>3, <3>3 DEF At
    <3> QED
      BY <2>1, <2>4, <3>4
  <2>5. CASE y # NULL
    <3>1. y \in S /\ Key[y] > Key[n]
      BY <1>1, <2>3, <2>5 DEF Places
    <3>2. \A m \in S : Key[m] < Key[y] <=> Key[m] < Key[n] \/ m = n
      <4>1. ASSUME NEW m \in S PROVE Key[m] < Key[y] <=> Key[m] < Key[n] \/ m = n
        <5>1. /\ Key[m] \in Int /\ Key[n] \in Int /\ Key[y] \in Int /\ (Key[m] = Key[n] => m = n)
              /\ Key[m] > Key[n] => m = y \/ Key[m] > Key[y]
          BY <1>2, <1>4, <2>3, <3>1
        <5> QED
          BY <3>1, <5>1
      <4> QED
        BY <4>1
    <3>3. Behind(S, "right", y) = Behind(S, "right", n) \cup {n} /\ n \notin Behind(S, "right", n)
      BY <1>3, <1>4, <1>a, <3>1, <3>2
    <3>4. Cardinality(Behind(S, "right", y)) = (i - 1) + 1
      BY <1>3, <1>b, <3>3, FS_AddElement
    <3>5. y = At(q, ((i - 1) + 1) + 1)
      BY <1>1, <1>2, <3>1, <3>4, RankAt
    <3> QED
      BY <1>3, <2>1, <3>5
  <2> QED
    BY <2>4, <2>5
<1>6. RB_NEXT(tree, n, "left") = At(q, i - 1)
  <2>1. PICK y : y = RB_NEXT(tree, n, "left")
    OBVIOUS
  <2>2. Neighbour(tree, "left", n, y)
    BY <1>1, <1>3, <2>1, NextIs DEF Sides
  <2>3. /\ y \in Places(tree) /\ y # n /\ (y # NULL => Key[y] < Key[n])
        /\ \A m \in S : Key[m] < Key[n] => y # NULL /\ (m = y \/ Key[m] < Key[y])
    BY <1>1, <2>2 DEF Neighbour, Before
  <2>4. CASE y = NULL
    <3>1. Behind(S, "right", n) = {}
      BY <1>3, <1>a, <2>3, <2>4
    <3>2. i - 1 = 0
      BY <1>3, <3>1, FS_EmptySet
    <3>3. At(q, i - 1) = NULL
      BY <1>3, <3>2 DEF At
    <3> QED
      BY <2>1, <2>4, <3>3
  <2>5. CASE y # NULL
    <3>1. y \in S /\ Key[y] < Key[n]
      BY <1>1, <2>3, <2>5 DEF Places
    <3>2. \A m \in S : Key[m] < Key[n] <=> Key[m] < Key[y] \/ m = y
      <4>1. ASSUME NEW m \in S PROVE Key[m] < Key[n] <=> Key[m] < Key[y] \/ m = y
        <5>1. /\ Key[m] \in Int /\ Key[n] \in Int /\ Key[y] \in Int
              /\ Key[m] < Key[n] => m = y \/ Key[m] < Key[y]
          BY <1>2, <1>4, <2>3, <3>1
        <5> QED
          BY <3>1, <5>1
      <4> QED
        BY <4>1
    <3>3. Behind(S, "right", n) = Behind(S, "right", y) \cup {y} /\ y \notin Behind(S, "right", y)
      BY <1>2, <1>3, <1>a, <3>1, <3>2
    <3>4. /\ Cardinality(Behind(S, "right", y)) \in Nat
          /\ y = At(q, Cardinality(Behind(S, "right", y)) + 1)
      BY <1>1, <1>2, <3>1, RankAt
    <3>5. i - 1 = Cardinality(Behind(S, "right", y)) + 1
      BY <1>3, <1>b, <3>1, <3>3, FS_AddElement
    <3> QED
      BY <2>1, <3>4, <3>5
  <2> QED
    BY <2>4, <2>5
<1> QED
  BY <1>1, <1>5, <1>6

\* RB_MIN and RB_MAX return the ends of the order.
LEMMA EndsOf ==
  ASSUME NEW sub, Tree(tree, sub), NEW q, q = InKeyOrder(Linked(tree), "right")
  PROVE  RB_MINMAX(tree, "left") = At(q, 1) /\ RB_MINMAX(tree, "right") = At(q, Len(q))
<1>1. PICK S : S = Linked(tree)
  OBVIOUS
<1>2. Distinct(S) /\ IsFiniteSet(S) /\ NULL \notin S /\ \A m \in S : Key[m] \in Int
  BY <1>1, DistinctSub, Fields, KeyAssumption DEF Distinct
<1>3. Len(q) = Cardinality(S) /\ Len(q) \in Nat
  BY <1>1, <1>2, OrderLength
<1>4. PICK a, b : a = RB_MINMAX(tree, "left") /\ b = RB_MINMAX(tree, "right")
  OBVIOUS
<1>5. /\ a \in Places(tree) /\ (a = NULL <=> S = {}) /\ \A m \in S : m # a => Key[a] < Key[m]
      /\ b \in Places(tree) /\ (b = NULL <=> S = {}) /\ \A m \in S : m # b => Key[b] > Key[m]
  <2>1. a \in Places(tree) /\ (a = NULL <=> S = {}) /\ \A m \in S : m # a => Before("left", a, m)
    BY <1>1, <1>4, MinMaxIs DEF Sides
  <2>2. b \in Places(tree) /\ (b = NULL <=> S = {}) /\ \A m \in S : m # b => Before("right", b, m)
    BY <1>1, <1>4, MinMaxIs DEF Sides
  <2> QED
    BY <2>1, <2>2 DEF Before
<1>6. CASE S = {}
  <2>1. Len(q) = 0 /\ a = NULL /\ b = NULL
    BY <1>3, <1>5, <1>6, FS_EmptySet
  <2>2. At(q, 1) = NULL /\ At(q, Len(q)) = NULL
    BY <2>1 DEF At
  <2> QED
    BY <1>4, <2>1, <2>2
<1>7. CASE S # {}
  <2>1. a \in S /\ b \in S
    BY <1>1, <1>5, <1>7 DEF Places
  <2>2. Behind(S, "right", a) = {}
    <3>1. \A m \in S : ~(Key[m] < Key[a])
      BY <1>2, <1>5, <2>1
    <3> QED
      BY <3>1 DEF Behind
  <2>3. S = Behind(S, "right", b) \cup {b} /\ b \notin Behind(S, "right", b)
    BY <1>2, <1>5, <2>1 DEF Behind
  <2>4. At(q, 0 + 1) = a
    BY <1>1, <1>2, <2>1, <2>2, RankAt, FS_EmptySet
  <2>5. PICK c : c = Cardinality(Behind(S, "right", b))
    OBVIOUS
  <2>6. c \in Nat /\ At(q, c + 1) = b
    BY <1>1, <1>2, <2>1, <2>5, RankAt
  <2>7. IsFiniteSet(Behind(S, "right", b))
    <3>1. Behind(S, "right", b) \subseteq S
      BY DEF Behind
    <3> QED
      BY <1>2, <3>1, FS_Subset
  <2>8. Cardinality(S) = c + 1
    BY <2>3, <2>5, <2>7, FS_AddElement
  <2> QED
    BY <1>3, <1>4, <2>4, <2>6, <2>8
<1> QED
  BY <1>6, <1>7

\* The invariant has the searches answer as the order says.
LEMMA LookupsRight ==
  ASSUME TreeIInv
  PROVE  LookupsAgree
<1>1. PICK sub : Tree(tree, sub)
  BY DEF TreeIInv, TreeState, TreeInv
<1>2. PICK q : q = InKeyOrder(Linked(tree), "right")
  OBVIOUS
<1>3. ASSUME NEW k \in {Key[n] : n \in Nodes}, NEW F, F = {n \in Linked(tree) : Key[n] < k}
      PROVE  /\ RB_NFIND(tree, k) = (IF Cardinality(F) + 1 \in 1..Len(q) THEN q[Cardinality(F) + 1] ELSE NULL)
             /\ RB_FIND(tree, k) = IF \E n \in Linked(tree) : Key[n] = k
                                     THEN (IF Cardinality(F) + 1 \in 1..Len(q) THEN q[Cardinality(F) + 1] ELSE NULL)
                                     ELSE NULL
  <2>1. k \in Int
    BY KeyAssumption
  <2> QED
    BY <1>1, <1>2, <1>3, <2>1, RanksOf DEF At
<1>4. ASSUME NEW i \in 1..Len(q)
      PROVE  /\ RB_NEXT(tree, q[i], "right") = IF i + 1 \in 1..Len(q) THEN q[i + 1] ELSE NULL
             /\ RB_NEXT(tree, q[i], "left") = IF i - 1 \in 1..Len(q) THEN q[i - 1] ELSE NULL
  BY <1>1, <1>2, NeighboursOf DEF At
<1>5. /\ RB_MINMAX(tree, "left") = IF 1 \in 1..Len(q) THEN q[1] ELSE NULL
      /\ RB_MINMAX(tree, "right") = IF Len(q) \in 1..Len(q) THEN q[Len(q)] ELSE NULL
  BY <1>1, <1>2, EndsOf DEF At
<1> QED
  BY <1>2, <1>3, <1>4, <1>5, Zenon DEF LookupsAgree

\* The searches of an idle tree answer as an ordered set of its nodes would,
\* and a loop visits what such a set would show it, its body's removals
\* included (RB_FIND, RB_NFIND, RB_NEXT, RB_PREV, RB_MIN, RB_MAX, RB_FOREACH_SAFE).
THEOREM TreeReadersAgree == TreeSpec => []ReadersAgree
<1>1. TreeIInv => LookupsAgree
  BY LookupsRight
<1>2. QED
  BY <1>1, TreeKept, LoopsComplete, PTL DEF ReadersAgree
-----------------------------------------------------------------------------
(* The error codes.                                                        *)

\* No two errors of a table have one number, no error is in two tables, and
\* each table has numbers of its own.
LEMMA FileAndSocketTable ==
  /\ \A e \in DOMAIN FileAndSocketCodes : FileAndSocketCodes[e] \in 4066 .. 4093
  /\ \A e, f \in DOMAIN FileAndSocketCodes :
        FileAndSocketCodes[e] = FileAndSocketCodes[f] => e = f
  BY DEF FileAndSocketCodes

\* The same of the errors of networks.
LEMMA NetworkTable ==
  /\ \A e \in DOMAIN NetworkCodes : NetworkCodes[e] \in 4042 .. 4065
  /\ \A e, f \in DOMAIN NetworkCodes :
        NetworkCodes[e] = NetworkCodes[f] => e = f
  BY DEF NetworkCodes

\* The same of the later ones.
LEMMA LaterTable ==
  /\ \A e \in DOMAIN LaterCodes : LaterCodes[e] \in 4022 .. 4041
  /\ \A e, f \in DOMAIN LaterCodes : LaterCodes[e] = LaterCodes[f] => e = f
  BY DEF LaterCodes

\* The errors that are never the platform's have numbers outside of these tables,
LEMMA FixedRange ==
  \A e \in DOMAIN FixedCodes :
     /\ FixedCodes[e] \in 3000 .. 4095
     /\ FixedCodes[e] < 4022 \/ FixedCodes[e] > 4093
  BY DEF FixedCodes

\* each its own.
LEMMA FixedDistinct ==
  \A e, f \in DOMAIN FixedCodes : FixedCodes[e] = FixedCodes[f] => e = f
  BY DEF FixedCodes

\* So have the errors of the three tables together.
LEMMA OwnTable ==
  /\ \A e \in DOMAIN OwnCodes : OwnCodes[e] \in 4022 .. 4093
  /\ \A e, f \in DOMAIN OwnCodes : OwnCodes[e] = OwnCodes[f] => e = f
<1>1. PICK a, b, c : a = FileAndSocketCodes /\ b = NetworkCodes /\ c = LaterCodes
  OBVIOUS
<1>2. /\ \A e \in DOMAIN a : a[e] \in 4066 .. 4093
      /\ \A e \in DOMAIN b : b[e] \in 4042 .. 4065
      /\ \A e \in DOMAIN c : c[e] \in 4022 .. 4041
  BY <1>1, FileAndSocketTable, NetworkTable, LaterTable
<1>3. /\ \A e, f \in DOMAIN a : a[e] = a[f] => e = f
      /\ \A e, f \in DOMAIN b : b[e] = b[f] => e = f
      /\ \A e, f \in DOMAIN c : c[e] = c[f] => e = f
  BY <1>1, FileAndSocketTable, NetworkTable, LaterTable
<1>4. PICK o : o = OwnCodes
  OBVIOUS
<1>5. /\ DOMAIN o = DOMAIN a \cup DOMAIN b \cup DOMAIN c
      /\ \A e \in DOMAIN o : o[e] = IF e \in DOMAIN a THEN a[e] ELSE IF e \in DOMAIN b THEN b[e] ELSE c[e]
  BY <1>1, <1>4 DEF OwnCodes
<1>6. \A e \in DOMAIN o : /\ o[e] \in 4066 .. 4093 => e \in DOMAIN a /\ o[e] = a[e]
                          /\ o[e] \in 4042 .. 4065 => e \in DOMAIN b /\ o[e] = b[e]
                          /\ o[e] \in 4022 .. 4041 => e \in DOMAIN c /\ o[e] = c[e]
                          /\ o[e] \in 4022 .. 4093
  BY <1>2, <1>5
<1>7. \A e, f \in DOMAIN o : o[e] = o[f] => e = f
  BY <1>3, <1>6
<1> QED
  BY <1>4, <1>6, <1>7

\* Their range,
LEMMA OwnRange == \A e \in DOMAIN OwnCodes : OwnCodes[e] \in 4022 .. 4093
  BY OwnTable

\* and that they differ.
LEMMA OwnDistinct == \A e, f \in DOMAIN OwnCodes : OwnCodes[e] = OwnCodes[f] => e = f
  BY OwnTable

\* What is known of the last failure: the platform may have defined the error so.
FailureOK ==
    failure = NoFailure
      \/ /\ failure.platform \in UvPlatforms /\ failure.error \in ErrorNames
         /\ failure.errno \in Errnos
         /\ MayDefine(failure.platform, failure.error, failure.errno)

\* The number of an error, without its sign: the platform's, or one a BSD hides;
FromPlatform(n, e, p, x) ==
    \/ x # 0 /\ p # "windows" /\ n = x
    \/ e = "EHOSTDOWN" /\ p \in {"apple", "freebsd"} /\ n = 64

\* or that of a table.
Fixed(n, e) == e \in DOMAIN FixedCodes /\ n = FixedCodes[e]

\* A number of libuv's own.
Own(n, e) == e \in DOMAIN OwnCodes /\ n = OwnCodes[e]

\* The number is either.
IsNumber(n, e, p, x) ==
    \/ n < 3000 /\ FromPlatform(n, e, p, x)
    \/ n >= 3000 /\ n < 4096 /\ (n < 4022 \/ n > 4093) /\ Fixed(n, e)
    \/ n >= 4022 /\ n <= 4093 /\ Own(n, e)
    \/ n = 9919 /\ e = "ENODATA"

\* A fixed number is one error's.
LEMMA FixedSame == ASSUME NEW n, NEW e, NEW f, Fixed(n, e), Fixed(n, f) PROVE e = f
  BY FixedDistinct DEF Fixed

\* A number of libuv's own is one error's.
LEMMA OwnSame == ASSUME NEW n, NEW e, NEW f, Own(n, e), Own(n, f) PROVE e = f
  BY OwnDistinct DEF Own

\* What an error's code is the negative of.
HasNumber(e, p, x) == \E n \in Nat : n > 0 /\ UvCode(e, p, x) = -n /\ IsNumber(n, e, p, x)

\* The code of an error is the negative of its number.
LEMMA CodeOf ==
  ASSUME NEW e \in ErrorNames, NEW p, NEW x \in PlatformNumbers
  PROVE  HasNumber(e, p, x)
<1>0. x \in Nat /\ x < 3000
  BY DEF PlatformNumbers
<1>1. CASE e \in DOMAIN FixedCodes
  <2>1. PICK n : n = FixedCodes[e]
    OBVIOUS
  <2>2. n \in 3000 .. 4095 /\ (n < 4022 \/ n > 4093)
    <3>1. FixedCodes[e] \in 3000 .. 4095 /\ (FixedCodes[e] < 4022 \/ FixedCodes[e] > 4093)
      BY <1>1, FixedRange
    <3> QED
      BY <2>1, <3>1
  <2>3. n \in Nat /\ n >= 3000 /\ n < 4096 /\ n > 0
    BY <2>2
  <2>4. UvCode(e, p, x) = -n /\ Fixed(n, e)
    BY <1>1, <2>1 DEF UvCode, Fixed
  <2> QED
    BY <2>2, <2>3, <2>4 DEF IsNumber, HasNumber
<1>2. CASE e \notin DOMAIN FixedCodes
  <2>1. PICK n : n = OwnCodes[e]
    OBVIOUS
  <2>2. e \in DOMAIN OwnCodes
    BY <1>2 DEF ErrorNames
  <2>3. n \in 4022 .. 4093 /\ Own(n, e)
    <3>1. OwnCodes[e] \in 4022 .. 4093
      BY <2>2, OwnRange
    <3> QED
      BY <2>1, <2>2, <3>1 DEF Own
  <2>4. IsNumber(n, e, p, x) /\ n \in Nat /\ n > 0
    BY <2>3 DEF IsNumber
  <2>5. CASE x # 0 /\ p # "windows"
    <3>1. UvCode(e, p, x) = -x
      BY <1>0, <1>2, <2>5 DEF UvCode, UV__ERR
    <3>2. IsNumber(x, e, p, x) /\ x \in Nat /\ x > 0
      BY <1>0, <2>5 DEF IsNumber, FromPlatform
    <3> QED
      BY <3>1, <3>2 DEF HasNumber
  <2>6. CASE ~(x # 0 /\ p # "windows") /\ e = "EHOSTDOWN" /\ p \in {"apple", "freebsd"}
    <3>1. UvCode(e, p, x) = -64
      BY <1>2, <2>6 DEF UvCode
    <3>2. IsNumber(64, e, p, x)
      BY <2>6 DEF IsNumber, FromPlatform
    <3> QED
      BY <3>1, <3>2 DEF HasNumber
  <2>7. CASE ~(x # 0 /\ p # "windows") /\ e = "ENODATA" /\ p = "freebsd"
    <3>1. UvCode(e, p, x) = -9919
      BY <1>2, <2>7 DEF UvCode
    <3>2. IsNumber(9919, e, p, x)
      BY <2>7 DEF IsNumber
    <3> QED
      BY <3>1, <3>2 DEF HasNumber
  <2>8. CASE /\ ~(x # 0 /\ p # "windows") /\ ~(e = "EHOSTDOWN" /\ p \in {"apple", "freebsd"})
             /\ ~(e = "ENODATA" /\ p = "freebsd")
    <3>1. UvCode(e, p, x) = -n
      BY <1>2, <2>1, <2>8 DEF UvCode
    <3> QED
      BY <2>4, <3>1 DEF HasNumber
  <2> QED
    BY <2>5, <2>6, <2>7, <2>8
<1> QED
  BY <1>1, <1>2

\* Two errors never have the same number.
LEMMA NumbersDiffer ==
  ASSUME NEW p, NEW e, NEW x, MayDefine(p, e, x), NEW f, NEW y, MayDefine(p, f, y),
         MayDefineBoth(p, x, y), NEW n \in Nat, IsNumber(n, e, p, x), IsNumber(n, f, p, y)
  PROVE  e = f
<1>1. \/ FromPlatform(n, e, p, x) /\ FromPlatform(n, f, p, y)
      \/ Fixed(n, e) /\ Fixed(n, f)
      \/ Own(n, e) /\ Own(n, f)
      \/ e = f
  BY DEF IsNumber
<1>2. CASE FromPlatform(n, e, p, x) /\ FromPlatform(n, f, p, y)
  BY <1>2 DEF FromPlatform, MayDefine, MayDefineBoth
<1> QED
  BY <1>1, <1>2, FixedSame, OwnSame

\* The code of a failure is its own.
LEMMA UniqueCode ==
  ASSUME FailureOK
  PROVE  CodeIsUnique
<1> SUFFICES ASSUME failure # NoFailure
             PROVE  /\ UvCode(failure.error, failure.platform, failure.errno) < 0
                    /\ \A f \in ErrorNames \ {failure.error}, y \in Errnos :
                          /\ MayDefine(failure.platform, f, y)
                          /\ MayDefineBoth(failure.platform, failure.errno, y)
                          => UvCode(f, failure.platform, y)
                               # UvCode(failure.error, failure.platform, failure.errno)
  BY DEF CodeIsUnique
<1>0. PICK p, e, x : p = failure.platform /\ e = failure.error /\ x = failure.errno
  OBVIOUS
<1>1. p \in UvPlatforms /\ e \in ErrorNames /\ x \in Errnos /\ MayDefine(p, e, x)
  BY <1>0 DEF FailureOK
<1>2. x \in PlatformNumbers
  BY <1>1, ErrnosAssumption
<1>3. PICK m \in Nat : m > 0 /\ UvCode(e, p, x) = -m /\ IsNumber(m, e, p, x)
  <2>1. HasNumber(e, p, x)
    BY <1>1, <1>2, CodeOf
  <2> QED
    BY <2>1 DEF HasNumber
<1>4. ASSUME NEW f \in ErrorNames \ {e}, NEW y \in Errnos,
             MayDefine(p, f, y), MayDefineBoth(p, x, y)
      PROVE  UvCode(f, p, y) # UvCode(e, p, x)
  <2>1. y \in PlatformNumbers /\ f \in ErrorNames /\ e # f
    BY ErrnosAssumption
  <2>2. PICK n \in Nat : UvCode(f, p, y) = -n /\ IsNumber(n, f, p, y)
    <3>1. HasNumber(f, p, y)
      BY <2>1, CodeOf
    <3> QED
      BY <3>1 DEF HasNumber
  <2>3. m # n
    BY <1>1, <1>3, <1>4, <2>1, <2>2, NumbersDiffer
  <2> QED
    BY <1>3, <2>2, <2>3
<1>5. UvCode(e, p, x) < 0
  BY <1>3
<1> QED
  BY <1>0, <1>4, <1>5

(***************************************************************************)
(* The code a failed call returns is no success and no other error's, for  *)
(* every way in which a platform's errno.h may number the errors it has,   *)
(* as long as its numbers are below libuv's own (errno.h and uv.h).        *)
(***************************************************************************)
THEOREM ErrorCodesUnique == UvSpec => []CodeIsUnique
<1>1. UvInit => FailureOK
  BY DEF UvInit, FailureOK
<1>2. FailureOK /\ [UvNext]_failure => FailureOK'
  <2> SUFFICES ASSUME FailureOK, [UvNext]_failure PROVE FailureOK'
    OBVIOUS
  <2>1. CASE UNCHANGED failure
    BY <2>1 DEF FailureOK
  <2>2. CASE Handled
    BY <2>2 DEF FailureOK, Handled
  <2>3. ASSUME NEW p \in UvPlatforms, NEW e \in ErrorNames, NEW x \in Errnos, Fail(p, e, x)
        PROVE  FailureOK'
    BY <2>3 DEF FailureOK, Fail
  <2> QED
    BY <2>1, <2>2, <2>3 DEF UvNext
<1>3. FailureOK => CodeIsUnique
  BY UniqueCode
<1> QED
  BY <1>1, <1>2, <1>3, PTL DEF UvSpec
=============================================================================
