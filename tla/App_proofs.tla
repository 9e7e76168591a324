----------------------------- MODULE App_proofs -----------------------------
(***************************************************************************)
(* The middlewares in front of a handler, for any applications, prefixes,  *)
(* paths and numbers of registrations; and the close handshake, the        *)
(* history of states and the bound on messages of a WebSocket connection   *)
(* such a handler opens, for every limit, set of codes, number of frames   *)
(* and calls.                                                              *)
(*                                                                         *)
(* The prefixes stay ordered by length (Ordered), so the chain built for a *)
(* request is (Ascending), and what ran is a beginning of it (Running).    *)
(* For GuardsRun, a middleware a handler was mounted with is found under a *)
(* prefix that applies to the handler's path (Mounted), the prefixes in    *)
(* use are all listed once Root listens (Listening), so the chain has the  *)
(* middleware (Guarded).                                                   *)
(*                                                                         *)
(* CloseHandshake is not inductive: it does not say that a connection that *)
(* is not closing has sent no close frame, which is why another may follow *)
(* none.  Good adds that, and that a connection that is closing or closed  *)
(* over a working socket has sent one.  Half describes a context in the    *)
(* middle of an operation: it is closing, and its close frame is not out   *)
(* yet unless the handler of state changes forced the close.               *)
(***************************************************************************)
EXTENDS App, WebSocket, FiniteSetTheorems, SequenceTheorems, WellFoundedInduction, TLAPS

-----------------------------------------------------------------------------
(* Flattening *)

\* A set of numbers has a least one.
LEMMA LeastNumber ==
    ASSUME NEW T, T \subseteq Nat, T # {}
    PROVE  \E f \in T : \A j \in T : f <= j
<1>1. PICK less : less = OpToRel(<, Nat)
  BY Zenon
<1>2. IsWellFoundedOn(less, Nat)
  BY <1>1, NatLessThanWellFounded, Zenon
<1>3. PICK f \in T : \A y \in T : <<y, f>> \notin less
  BY <1>2, WFMin, Zenon
<1>4. \A y \in T : ~(y < f)
  BY <1>1, <1>3 DEF OpToRel
<1>5. QED
  BY <1>4

\* Induction up to a bound, for a set of numbers that holds 0 and with a number
\* the next one.
LEMMA UpTo ==
    ASSUME NEW n \in Nat, NEW G, 0 \in G, \A y \in 0 .. n - 1 : y \in G => y + 1 \in G
    PROVE  \A y \in 0 .. n : y \in G
<1>1. PICK T : T = {y \in 0 .. n : y \notin G}
  OBVIOUS
<1>2. ASSUME T # {} PROVE FALSE
  <2>1. T \subseteq Nat
    BY <1>1
  <2>2. PICK f \in T : \A j \in T : f <= j
    BY <1>2, <2>1, LeastNumber
  <2>3. f \in 0 .. n /\ f \notin G /\ f # 0
    BY <1>1
  <2>4. f - 1 \in 0 .. n /\ f - 1 \in 0 .. n - 1 /\ f - 1 + 1 = f
    BY <2>3
  <2>5. f - 1 \notin T
    BY <2>1, <2>2
  <2>6. f - 1 \in G
    BY <1>1, <2>4, <2>5
  <2>7. QED
    BY <2>3, <2>4, <2>6
<1>3. QED
  BY <1>1, <1>2

\* The partial concatenations of the sequences a.
Joins(S, a, n, p) == p \in [0 .. n -> Seq(S)] /\ p[0] = <<>> /\ \A y \in 0 .. n - 1 : p[y + 1] = p[y] \o a[y + 1]

\* They exist.
LEMMA JoinsExist ==
    ASSUME NEW S, NEW n \in Nat, NEW a \in [1 .. n -> Seq(S)]
    PROVE  \E p : Joins(S, a, n, p)
<1>1. PICK G : G = {m \in 0 .. n : \E p : Joins(S, a, m, p)}
  OBVIOUS
<1>2. 0 \in G
  <2>1. PICK p : p = [y \in 0 .. 0 |-> <<>>]
    OBVIOUS
  <2>2. p \in [0 .. 0 -> Seq(S)] /\ p[0] = <<>> /\ \A y \in 0 .. 0 - 1 : p[y + 1] = p[y] \o a[y + 1]
    BY <2>1
  <2>3. Joins(S, a, 0, p) /\ 0 \in 0 .. n
    BY <2>2 DEF Joins
  <2>4. QED
    BY <1>1, <2>3
<1>3. ASSUME NEW m \in 0 .. n - 1, m \in G PROVE m + 1 \in G
  <2>1. PICK p : Joins(S, a, m, p)
    BY <1>1, <1>3
  <2>2. p \in [0 .. m -> Seq(S)] /\ p[0] = <<>> /\ \A y \in 0 .. m - 1 : p[y + 1] = p[y] \o a[y + 1]
    BY <2>1 DEF Joins
  <2>3. m + 1 \in 1 .. n /\ m \in 0 .. m
    BY <1>3
  <2>4. p[m] \in Seq(S) /\ a[m + 1] \in Seq(S)
    BY <2>2, <2>3
  <2>5. PICK v \in Seq(S) : v = p[m] \o a[m + 1]
    BY <2>4, ConcatProperties
  <2>6. PICK l \in Nat : l = m + 1
    BY <1>3
  <2>7. PICK q : q = [y \in 0 .. l |-> IF y <= m THEN p[y] ELSE v]
    OBVIOUS
  <2>8. q \in [0 .. l -> Seq(S)] /\ q[0] = <<>>
    BY <1>3, <2>2, <2>5, <2>6, <2>7
  <2>9. ASSUME NEW y \in 0 .. l - 1 PROVE q[y + 1] = q[y] \o a[y + 1]
    <3>1. CASE y = m
      <4>1. q[m + 1] = v /\ q[m] = p[m]
        BY <1>3, <2>6, <2>7
      <4>2. QED
        BY <2>5, <3>1, <4>1
    <3>2. CASE y # m
      <4>1. y \in 0 .. m - 1 /\ y + 1 \in 0 .. m
        BY <1>3, <2>6, <2>9, <3>2
      <4>2. q[y + 1] = p[y + 1] /\ q[y] = p[y]
        BY <1>3, <2>6, <2>7, <4>1
      <4>3. QED
        BY <2>2, <4>1, <4>2
    <3>3. QED
      BY <3>1, <3>2
  <2>10. Joins(S, a, l, q)
    BY <2>8, <2>9 DEF Joins
  <2>11. l \in 0 .. n
    BY <1>3, <2>6
  <2>12. QED
    BY <1>1, <2>6, <2>10, <2>11
<1>4. \A y \in 0 .. n : y \in G
  BY <1>2, <1>3, UpTo
<1>5. n \in 0 .. n
  OBVIOUS
<1>6. QED
  BY <1>1, <1>4, <1>5

\* FlattenSeq concatenates all of them.
LEMMA Flattened ==
    ASSUME NEW S, NEW a \in Seq(Seq(S)), NEW n \in Nat, n = Len(a), NEW p, Joins(S, a, n, p)
    PROVE  FlattenSeq(a) = p[n]
<1>1. p \in [0 .. n -> Seq(S)] /\ p[0] = <<>> /\ \A y \in 0 .. n - 1 : p[y + 1] = p[y] \o a[y + 1]
  BY DEF Joins
<1>2. CASE n = 0
  <2>1. a = <<>>
    BY <1>2, EmptySeq
  <2>2. FlattenSeq(a) = a
    BY <1>2 DEF FlattenSeq
  <2>3. QED
    BY <1>1, <1>2, <2>1, <2>2
<1>3. CASE n # 0
  <2> DEFINE Solves(f) == f = [i \in 1 .. Len(a) |-> IF i = 1 THEN a[i] ELSE f[i - 1] \o a[i]]
  <2>1. a \in [1 .. n -> Seq(S)]
    OBVIOUS
  <2>2. ASSUME NEW i \in 1 .. n PROVE p[i] = IF i = 1 THEN a[i] ELSE p[i - 1] \o a[i]
    <3>1. i - 1 \in 0 .. n - 1 /\ i - 1 + 1 = i
      BY <2>2
    <3>2. p[i] = p[i - 1] \o a[i]
      BY <1>1, <3>1
    <3>3. CASE i = 1
      <4>1. a[1] \in Seq(S)
        BY <2>1, <2>2, <3>3
      <4>2. i - 1 = 0
        BY <3>3
      <4>3. p[i] = <<>> \o a[1]
        BY <1>1, <3>2, <3>3, <4>2
      <4>4. <<>> \o a[1] = a[1]
        BY <4>1, ConcatEmptySeq
      <4>5. QED
        BY <3>3, <4>3, <4>4
    <3>4. QED
      BY <3>2, <3>3
  <2>3. PICK g : g = [i \in 1 .. n |-> p[i]]
    OBVIOUS
  <2>4. Solves(g)
    <3>1. ASSUME NEW i \in 1 .. n PROVE g[i] = IF i = 1 THEN a[i] ELSE g[i - 1] \o a[i]
      <4>1. CASE i = 1
        BY <2>2, <2>3, <4>1
      <4>2. CASE i # 1
        <5>1. i - 1 \in 1 .. n
          BY <3>1, <4>2
        <5>2. g[i - 1] = p[i - 1] /\ g[i] = p[i]
          BY <2>3, <5>1
        <5>3. QED
          BY <2>2, <4>2, <5>2
      <4>3. QED
        BY <4>1, <4>2
    <3>2. QED
      BY <2>3, <3>1
  <2>5. PICK flatten : flatten = CHOOSE f : Solves(f)
    OBVIOUS
  <2>6. Solves(flatten)
    <3>1. \E f : Solves(f)
      BY <2>4
    <3>2. QED
      BY <2>5, <3>1, Zenon
  <2>7. FlattenSeq(a) = flatten[Len(a)]
    <3>1. Len(a) # 0
      BY <1>3
    <3>2. QED
      BY <2>5, <3>1, Zenon DEF FlattenSeq
  <2> HIDE DEF Solves
  <2>8. \A i \in 1 .. n : flatten[i] = IF i = 1 THEN a[i] ELSE flatten[i - 1] \o a[i]
    BY <2>6, Zenon DEF Solves
  <2>9. PICK G : G = {x \in Nat : x = 0 \/ flatten[x] = p[x]}
    OBVIOUS
  <2>10. ASSUME NEW y \in 0 .. n - 1, y \in G PROVE y + 1 \in G
    <3>1. PICK z \in 1 .. n : z = y + 1 /\ z - 1 = y /\ z \in Nat
      BY <2>10
    <3>2. flatten[z] = p[z]
      <4>1. CASE z = 1
        BY <2>2, <2>8, <4>1
      <4>2. CASE z # 1
        <5>1. flatten[z - 1] = p[z - 1]
          BY <2>9, <2>10, <3>1, <4>2
        <5>2. QED
          BY <2>2, <2>8, <4>2, <5>1
      <4>3. QED
        BY <4>1, <4>2
    <3>3. QED
      BY <2>9, <3>1, <3>2
  <2>11. n \in G
    <3>1. 0 \in G /\ n \in 0 .. n
      BY <2>9
    <3>2. QED
      BY <2>10, <3>1, UpTo
  <2>12. QED
    BY <1>3, <2>7, <2>9, <2>11
<1>4. QED
  BY <1>2, <1>3

\* Where the elements of a concatenation are.
LEMMA ConcatElements ==
    ASSUME NEW S, NEW x \in Seq(S), NEW y \in Seq(S), NEW z, z = x \o y
    PROVE  /\ z \in Seq(S) /\ Len(z) = Len(x) + Len(y)
           /\ \A i \in 1 .. Len(x) : i \in 1 .. Len(z) /\ z[i] = x[i]
           /\ \A i \in 1 .. Len(y) : Len(x) + i \in 1 .. Len(z) /\ z[Len(x) + i] = y[i]
           /\ \A k \in 1 .. Len(z) : \/ k \in 1 .. Len(x) /\ z[k] = x[k]
                                     \/ k - Len(x) \in 1 .. Len(y) /\ k > Len(x) /\ z[k] = y[k - Len(x)]
<1>1. z \in Seq(S) /\ Len(z) = Len(x) + Len(y)
  BY ConcatProperties
<1>2. \A i \in 1 .. Len(x) + Len(y) : z[i] = IF i <= Len(x) THEN x[i] ELSE y[i - Len(x)]
  BY ConcatProperties
<1>3. Len(x) \in Nat /\ Len(y) \in Nat
  OBVIOUS
<1>4. QED
  BY <1>1, <1>2, <1>3

-----------------------------------------------------------------------------
(* Chains *)

\* The characters of paths, of which the code itself adds "/".
Chars == STRING \cup {"/"}

Ats == MountPoints \cup {<<>>}

\* The entries of a router.
Entry == [path : Seq(Chars), guards : SUBSET Mws, id : 1 .. MaxHandlers]

\* Longer prefixes come later.
Ordered(s)   == \A i, j \in DOMAIN s : i < j => Len(s[i]) <= Len(s[j])
Ascending(q) == \A i, j \in DOMAIN q : i < j => Len(q[i].at) <= Len(q[j].at)

\* Prefixes and the paths of handlers are sequences.
LEMMA PathsFacts == MountPoints \subseteq Seq(Chars) /\ HandlerPaths \subseteq Seq(Chars) /\ Slash \in Seq(Chars)
<1>1. ASSUME NEW p \in Seq(STRING) PROVE p \in Seq(Chars)
  <2>1. Len(p) \in Nat /\ DOMAIN p = 1 .. Len(p) /\ \A i \in 1 .. Len(p) : p[i] \in Chars
    BY DEF Chars
  <2>2. p \in [1 .. Len(p) -> Chars]
    BY <2>1
  <2>3. QED
    BY <2>1, <2>2
<1>2. "/" \in Chars
  BY DEF Chars
<1>3. <<"/">> \in Seq(Chars)
  BY <1>2
<1>4. QED
  BY <1>1, <1>3, PathsAssumption DEF Slash

\* They have lengths.
LEMMA AtsFacts == Ats \subseteq Seq(Chars) /\ \A at \in Ats : Len(at) \in Nat
<1>1. <<>> \in Seq(Chars)
  BY EmptySeq
<1>2. Ats \subseteq Seq(Chars)
  BY <1>1, PathsFacts DEF Ats
<1>3. QED
  BY <1>2

\* The links of one prefix.
LEMMA LinksFacts ==
    ASSUME NEW at \in Ats, NEW mws \in Seq(Mws), NEW q, q = Links(at, mws)
    PROVE  /\ q \in Seq(Link) /\ Len(q) = Len(mws) /\ Ascending(q)
           /\ \A i \in 1 .. Len(q) : q[i].at = at /\ q[i].mw = mws[i]
<1>1. Len(mws) \in Nat /\ DOMAIN mws = 1 .. Len(mws) /\ \A i \in 1 .. Len(mws) : mws[i] \in Mws
  OBVIOUS
<1>2. \A i \in 1 .. Len(mws) : [at |-> at, mw |-> mws[i]] \in Link
  BY <1>1 DEF Link, Ats
<1>3. q = [i \in 1 .. Len(mws) |-> [at |-> at, mw |-> mws[i]]]
  BY <1>1 DEF Links
<1>4. q \in Seq(Link) /\ Len(q) = Len(mws)
  BY <1>1, <1>2, <1>3
<1>5. \A i \in 1 .. Len(q) : q[i].at = at /\ q[i].mw = mws[i]
  BY <1>1, <1>3, <1>4
<1>6. DOMAIN q = 1 .. Len(q) /\ Len(at) \in Nat
  BY <1>1, <1>3, <1>4, AtsFacts
<1>7. Ascending(q)
  BY <1>5, <1>6 DEF Ascending
<1>8. QED
  BY <1>4, <1>5, <1>7

\* A chain behind another one, with longer prefixes.
LEMMA AscendingConcat ==
    ASSUME NEW x \in Seq(Link), NEW y \in Seq(Link), Ascending(x), Ascending(y),
           \A i \in 1 .. Len(x), j \in 1 .. Len(y) : Len(x[i].at) <= Len(y[j].at)
    PROVE  Ascending(x \o y)
<1>1. PICK z : z = x \o y
  OBVIOUS
<1>2. /\ z \in Seq(Link)
      /\ \A k \in 1 .. Len(z) : \/ k \in 1 .. Len(x) /\ z[k] = x[k]
                                \/ k - Len(x) \in 1 .. Len(y) /\ k > Len(x) /\ z[k] = y[k - Len(x)]
  BY <1>1, ConcatElements
<1>3. DOMAIN z = 1 .. Len(z) /\ DOMAIN x = 1 .. Len(x) /\ DOMAIN y = 1 .. Len(y) /\ Len(x) \in Nat /\ Len(z) \in Nat
  BY <1>2
<1>4. SUFFICES ASSUME NEW i \in 1 .. Len(z), NEW j \in 1 .. Len(z), i < j PROVE Len(z[i].at) <= Len(z[j].at)
  BY <1>1, <1>3 DEF Ascending
<1>5. CASE j \in 1 .. Len(x) /\ z[j] = x[j]
  <2>1. i \in 1 .. Len(x) /\ z[i] = x[i]
    BY <1>2, <1>3, <1>4, <1>5
  <2>2. QED
    BY <1>3, <1>4, <1>5, <2>1 DEF Ascending
<1>6. CASE j - Len(x) \in 1 .. Len(y) /\ z[j] = y[j - Len(x)]
  <2>1. CASE i \in 1 .. Len(x) /\ z[i] = x[i]
    BY <1>6, <2>1
  <2>2. CASE i - Len(x) \in 1 .. Len(y) /\ z[i] = y[i - Len(x)]
    <3>1. i - Len(x) < j - Len(x)
      BY <1>3, <1>4
    <3>2. QED
      BY <1>3, <1>6, <2>2, <3>1 DEF Ascending
  <2>3. QED
    BY <1>2, <2>1, <2>2
<1>7. QED
  BY <1>2, <1>5, <1>6

\* What the flattened chains of ordered prefixes are.
LEMMA FlattenedChain ==
    ASSUME NEW s \in Seq(MountPoints), Ordered(s), NEW a \in Seq(Seq(Link)), Len(a) = Len(s),
           \A i \in 1 .. Len(a) : Ascending(a[i]) /\ \A q \in 1 .. Len(a[i]) : a[i][q].at = s[i]
    PROVE  /\ FlattenSeq(a) \in Seq(Link)
           /\ Ascending(FlattenSeq(a))
           /\ \A i \in 1 .. Len(a) : \A q \in 1 .. Len(a[i]) :
                 \E r \in 1 .. Len(FlattenSeq(a)) : FlattenSeq(a)[r] = a[i][q]
<1>1. PICK n \in Nat : n = Len(a)
  OBVIOUS
<1>2. a \in [1 .. n -> Seq(Link)] /\ \A i \in 1 .. n : s[i] \in MountPoints /\ Len(s[i]) \in Nat
  BY <1>1, PathsFacts
<1>3. PICK p : Joins(Link, a, n, p)
  BY <1>1, <1>2, JoinsExist
<1>4. FlattenSeq(a) = p[n]
  BY <1>1, <1>3, Flattened
<1>5. p \in [0 .. n -> Seq(Link)] /\ p[0] = <<>> /\ \A y \in 0 .. n - 1 : p[y + 1] = p[y] \o a[y + 1]
  BY <1>3 DEF Joins
<1> DEFINE From(y)  == \A q \in 1 .. Len(p[y]) : \E j \in 1 .. y : p[y][q].at = s[j]
           Holds(y) == \A i \in 1 .. y : \A q \in 1 .. Len(a[i]) : \E r \in 1 .. Len(p[y]) : p[y][r] = a[i][q]
<1>6. PICK G : G = {y \in 0 .. n : Ascending(p[y]) /\ From(y) /\ Holds(y)}
  OBVIOUS
<1>7. 0 \in G
  <2>1. Len(p[0]) = 0 /\ DOMAIN p[0] = 1 .. 0
    BY <1>5
  <2>2. Ascending(p[0]) /\ From(0) /\ Holds(0)
    BY <2>1 DEF Ascending
  <2>3. QED
    BY <1>6, <2>2
<1>8. ASSUME NEW y \in 0 .. n - 1, y \in G PROVE y + 1 \in G
  <2>1. Ascending(p[y]) /\ From(y) /\ Holds(y)
    BY <1>6, <1>8
  <2>2. PICK k \in 1 .. n : k = y + 1 /\ k \in 0 .. n /\ y < k
    BY <1>8
  <2>3. PICK x \in Seq(Link) : x = p[y]
    BY <1>5, <1>8
  <2>4. PICK b \in Seq(Link) : b = a[k]
    BY <1>2
  <2>5. p[k] = x \o b
    BY <1>5, <1>8, <2>2, <2>3, <2>4
  <2>6. /\ \A i \in 1 .. Len(x) : i \in 1 .. Len(p[k]) /\ p[k][i] = x[i]
        /\ \A i \in 1 .. Len(b) : Len(x) + i \in 1 .. Len(p[k]) /\ p[k][Len(x) + i] = b[i]
        /\ \A m \in 1 .. Len(p[k]) : \/ m \in 1 .. Len(x) /\ p[k][m] = x[m]
                                     \/ m - Len(x) \in 1 .. Len(b) /\ p[k][m] = b[m - Len(x)]
    BY <2>5, ConcatElements
  <2>7. Ascending(b) /\ \A q \in 1 .. Len(b) : b[q].at = s[k]
    BY <1>1, <2>4
  <2>8. Ascending(p[k])
    <3>1. ASSUME NEW i \in 1 .. Len(x), NEW j \in 1 .. Len(b) PROVE Len(x[i].at) <= Len(b[j].at)
      <4>1. PICK m \in 1 .. y : x[i].at = s[m]
        BY <2>1, <2>3
      <4>2. m < k /\ m \in DOMAIN s /\ k \in DOMAIN s
        <5>1. DOMAIN s = 1 .. n
          BY <1>1
        <5>2. m < k /\ m \in 1 .. n
          BY <1>8, <2>2
        <5>3. QED
          BY <5>1, <5>2
      <4>3. Len(s[m]) <= Len(s[k])
        BY <4>2 DEF Ordered
      <4>4. QED
        BY <2>7, <4>1, <4>3
    <3>2. QED
      BY <2>1, <2>3, <2>5, <2>7, <3>1, AscendingConcat
  <2>9. From(k)
    <3>1. SUFFICES ASSUME NEW q \in 1 .. Len(p[k]) PROVE \E j \in 1 .. k : p[k][q].at = s[j]
      OBVIOUS
    <3>2. CASE q \in 1 .. Len(x) /\ p[k][q] = x[q]
      <4>1. PICK j \in 1 .. y : x[q].at = s[j]
        BY <2>1, <2>3, <3>2
      <4>2. j \in 1 .. k
        BY <1>8, <2>2
      <4>3. QED
        BY <3>2, <4>1, <4>2
    <3>3. CASE q - Len(x) \in 1 .. Len(b) /\ p[k][q] = b[q - Len(x)]
      <4>1. p[k][q].at = s[k] /\ k \in 1 .. k
        BY <2>7, <3>3
      <4>2. QED
        BY <4>1
    <3>4. QED
      BY <2>6, <3>2, <3>3
  <2>10. Holds(k)
    <3>1. SUFFICES ASSUME NEW i \in 1 .. k, NEW q \in 1 .. Len(a[i])
                   PROVE  \E r \in 1 .. Len(p[k]) : p[k][r] = a[i][q]
      OBVIOUS
    <3>2. CASE i = k
      BY <2>4, <2>6, <3>2
    <3>3. CASE i # k
      <4>1. i \in 1 .. y
        BY <1>8, <2>2, <3>3
      <4>2. PICK r \in 1 .. Len(x) : x[r] = a[i][q]
        BY <2>1, <2>3, <4>1
      <4>3. QED
        BY <2>6, <4>2
    <3>4. QED
      BY <3>2, <3>3
  <2>11. QED
    BY <1>6, <2>2, <2>8, <2>9, <2>10
<1>9. n \in G
  <2>1. n \in 0 .. n
    OBVIOUS
  <2>2. QED
    BY <1>7, <1>8, <2>1, UpTo
<1>10. p[n] \in Seq(Link)
  BY <1>5
<1>11. QED
  BY <1>1, <1>4, <1>6, <1>9, <1>10

MwsOf(q) == {q[i].mw : i \in DOMAIN q}

ATypes ==
    /\ handlers \in [Apps -> Seq(Entry)]
    /\ middlewares \in [Apps -> Seq(Mws)]
    /\ route_middlewares \in [Apps -> [MountPoints -> Seq(Mws)]]
    /\ has_middlewares \in [Apps -> BOOLEAN]
    /\ sorted_prefixes \in Seq(MountPoints) /\ Ordered(sorted_prefixes)

\* The chain found for a path is ascending and has the global middlewares and
\* those of every listed prefix that applies.
LEMMA ChainFound ==
    ASSUME ATypes, NEW path, NEW q, q = get_middlewares_for_path(path)
    PROVE  /\ q \in Seq(Link) /\ Ascending(q)
           /\ Used(Root) \subseteq MwsOf(q)
           /\ \A i \in DOMAIN sorted_prefixes : applies(sorted_prefixes[i], path) =>
                 \A m \in DOMAIN route_middlewares[Root][sorted_prefixes[i]] :
                     route_middlewares[Root][sorted_prefixes[i]][m] \in MwsOf(q)
<1>1. PICK s \in Seq(MountPoints) : s = sorted_prefixes /\ Ordered(s)
  BY DEF ATypes
<1>2. PICK rm \in [MountPoints -> Seq(Mws)] : rm = route_middlewares[Root]
  BY AppAssumption DEF ATypes
<1>3. PICK mws \in Seq(Mws) : mws = middlewares[Root]
  BY AppAssumption DEF ATypes
<1>4. Len(s) \in Nat /\ DOMAIN s = 1 .. Len(s) /\ \A i \in 1 .. Len(s) : s[i] \in MountPoints /\ s[i] \in Ats
  BY DEF Ats
<1>5. PICK a : a = [i \in DOMAIN s |-> IF applies(s[i], path) THEN Links(s[i], rm[s[i]]) ELSE <<>>]
  OBVIOUS
<1>6. ASSUME NEW i \in 1 .. Len(s)
      PROVE  a[i] \in Seq(Link) /\ Ascending(a[i]) /\ \A k \in 1 .. Len(a[i]) : a[i][k].at = s[i]
  <2>1. CASE applies(s[i], path)
    <3>1. a[i] = Links(s[i], rm[s[i]]) /\ rm[s[i]] \in Seq(Mws)
      BY <1>4, <1>5, <2>1
    <3>2. QED
      BY <1>4, <3>1, LinksFacts
  <2>2. CASE ~applies(s[i], path)
    <3>1. a[i] = <<>>
      BY <1>4, <1>5, <2>2
    <3>2. <<>> \in Seq(Link) /\ Len(<<>>) = 0
      BY EmptySeq
    <3>3. Ascending(<<>>)
      BY DEF Ascending
    <3>4. QED
      BY <3>1, <3>2, <3>3
  <2>3. QED
    BY <2>1, <2>2
<1>7. a \in Seq(Seq(Link)) /\ Len(a) = Len(s)
  <2>1. a \in [1 .. Len(s) -> Seq(Link)]
    BY <1>4, <1>5, <1>6
  <2>2. PICK S : S = Seq(Link)
    OBVIOUS
  <2>3. a \in [1 .. Len(s) -> S]
    BY <2>1, <2>2
  <2>4. PICK n \in Nat : n = Len(s)
    BY <1>4
  <2>5. a \in [1 .. n -> S]
    BY <2>3, <2>4
  <2>6. a \in Seq(S) /\ Len(a) = n
    BY <2>5
  <2>7. QED
    BY <2>2, <2>4, <2>6
<1>8. PICK f : f = FlattenSeq(a)
  OBVIOUS
<1>9. /\ f \in Seq(Link) /\ Ascending(f)
      /\ \A i \in 1 .. Len(a) : \A k \in 1 .. Len(a[i]) : \E r \in 1 .. Len(f) : f[r] = a[i][k]
  <2>1. \A i \in 1 .. Len(a) : Ascending(a[i]) /\ \A k \in 1 .. Len(a[i]) : a[i][k].at = s[i]
    BY <1>6, <1>7
  <2>2. /\ FlattenSeq(a) \in Seq(Link) /\ Ascending(FlattenSeq(a))
        /\ \A i \in 1 .. Len(a) : \A k \in 1 .. Len(a[i]) :
              \E r \in 1 .. Len(FlattenSeq(a)) : FlattenSeq(a)[r] = a[i][k]
    BY <1>1, <1>7, <2>1, FlattenedChain, Zenon
  <2>3. QED
    BY <1>8, <2>2, Zenon
<1>10. PICK g : g = Links(<<>>, mws)
  OBVIOUS
<1>11. /\ g \in Seq(Link) /\ Len(g) = Len(mws) /\ Ascending(g)
       /\ \A i \in 1 .. Len(g) : g[i].at = <<>> /\ g[i].mw = mws[i]
  <2>1. <<>> \in Ats
    BY DEF Ats
  <2>2. QED
    BY <1>10, <2>1, LinksFacts
<1>12. q = g \o f
  <2>1. Globals = g
    BY <1>3, <1>10 DEF Globals
  <2>2. q = g \o FlattenSeq([i \in DOMAIN s |-> IF applies(s[i], path) THEN Links(s[i], rm[s[i]]) ELSE <<>>])
    BY <1>1, <1>2, <2>1 DEF get_middlewares_for_path
  <2>3. QED
    BY <1>5, <1>8, <2>2
<1>13. /\ q \in Seq(Link)
       /\ \A i \in 1 .. Len(g) : i \in 1 .. Len(q) /\ q[i] = g[i]
       /\ \A i \in 1 .. Len(f) : Len(g) + i \in 1 .. Len(q) /\ q[Len(g) + i] = f[i]
  BY <1>9, <1>11, <1>12, ConcatElements
<1>14. DOMAIN q = 1 .. Len(q)
  BY <1>13
<1>15. Ascending(q)
  <2>1. ASSUME NEW i \in 1 .. Len(g), NEW j \in 1 .. Len(f) PROVE Len(g[i].at) <= Len(f[j].at)
    <3>1. f[j] \in Link
      BY <1>9, ElementOfSeq
    <3>2. f[j].at \in Ats
      BY <3>1 DEF Link, Ats
    <3>3. Len(f[j].at) \in Nat
      BY <3>2, AtsFacts
    <3>4. g[i].at = <<>> /\ Len(<<>>) = 0
      BY <1>11, EmptySeq
    <3>5. QED
      BY <3>3, <3>4
  <2>2. QED
    BY <1>9, <1>11, <1>12, <2>1, AscendingConcat
<1>16. Used(Root) \subseteq MwsOf(q)
  <2>1. SUFFICES ASSUME NEW i \in DOMAIN mws PROVE mws[i] \in MwsOf(q)
    BY <1>3 DEF Used
  <2>2. i \in 1 .. Len(g) /\ q[i].mw = mws[i] /\ i \in DOMAIN q
    BY <1>11, <1>13, <1>14
  <2>3. QED
    BY <2>2 DEF MwsOf
<1>17. ASSUME NEW i \in DOMAIN s, applies(s[i], path), NEW m \in DOMAIN rm[s[i]]
       PROVE  rm[s[i]][m] \in MwsOf(q)
  <2>1. i \in 1 .. Len(a) /\ rm[s[i]] \in Seq(Mws) /\ a[i] = Links(s[i], rm[s[i]]) /\ s[i] \in Ats
    BY <1>4, <1>5, <1>7, <1>17
  <2>2. m \in 1 .. Len(a[i]) /\ a[i][m].mw = rm[s[i]][m]
    BY <2>1, LinksFacts
  <2>3. PICK r \in 1 .. Len(f) : f[r] = a[i][m]
    BY <1>9, <2>1, <2>2
  <2>4. Len(g) + r \in DOMAIN q /\ q[Len(g) + r].mw = rm[s[i]][m]
    BY <1>13, <1>14, <2>2, <2>3
  <2>5. QED
    BY <2>4 DEF MwsOf
<1>18. QED
  BY <1>1, <1>2, <1>13, <1>15, <1>16, <1>17

-----------------------------------------------------------------------------
(* Registrations *)

\* A sequence with one more element.
LEMMA Appended ==
    ASSUME NEW S, NEW q \in Seq(S), NEW e \in S, NEW z, z = Append(q, e)
    PROVE  /\ z \in Seq(S) /\ Len(z) = Len(q) + 1
           /\ \A i \in 1 .. Len(q) : z[i] = q[i]
           /\ z[Len(q) + 1] = e
OBVIOUS

\* The numbers of the next middleware and of the next handler are within their
\* bounds.
LEMMA NextNumbers ==
    ASSUME ATypes
    PROVE  /\ Cardinality(AllUsed) < MaxMws => Cardinality(AllUsed) + 1 \in Mws
           /\ Cardinality(AllIds) < MaxHandlers => Cardinality(AllIds) + 1 \in 1 .. MaxHandlers
<1>1. MaxMws \in Nat /\ MaxHandlers \in Nat
  BY AppAssumption
<1>2. AllUsed \subseteq 1 .. MaxMws
  <2>1. ASSUME NEW a \in Apps, NEW i \in DOMAIN middlewares[a] PROVE middlewares[a][i] \in 1 .. MaxMws
    <3>1. middlewares[a] \in Seq(Mws)
      BY DEF ATypes
    <3>2. i \in 1 .. Len(middlewares[a])
      BY <2>1, <3>1, LenProperties
    <3>3. QED
      BY <3>1, <3>2, ElementOfSeq DEF Mws
  <2>2. QED
    BY <2>1 DEF AllUsed, Used
<1>3. AllIds \subseteq 1 .. MaxHandlers
  <2>1. ASSUME NEW a \in Apps, NEW i \in DOMAIN handlers[a] PROVE handlers[a][i].id \in 1 .. MaxHandlers
    <3>1. handlers[a] \in Seq(Entry)
      BY DEF ATypes
    <3>2. handlers[a][i] \in Entry
      BY <2>1, <3>1
    <3>3. QED
      BY <3>2 DEF Entry
  <2>2. QED
    BY <2>1 DEF AllIds
<1>4. IsFiniteSet(1 .. MaxMws) /\ IsFiniteSet(1 .. MaxHandlers)
  BY <1>1, FS_Interval
<1>5. Cardinality(AllUsed) \in Nat /\ Cardinality(AllIds) \in Nat
  BY <1>2, <1>3, <1>4, FS_Subset, FS_CardinalityType
<1>6. QED
  BY <1>1, <1>5 DEF Mws

\* A mounted path begins with the prefix.
LEMMA MountedPath ==
    ASSUME NEW prefix \in MountPoints, NEW path \in Seq(Chars), NEW m, m = mounted_path(prefix, path)
    PROVE  m \in Seq(Chars) /\ applies(prefix, m)
<1>1. prefix \in Seq(Chars) /\ Slash \in Seq(Chars)
  BY PathsFacts
<1>2. m = prefix \/ m = prefix \o path \/ m = prefix \o Slash \o path
  BY DEF mounted_path
<1>3. ASSUME NEW r \in Seq(Chars) PROVE prefix \o r \in Seq(Chars) /\ IsPrefix(prefix, prefix \o r)
  <2>1. PICK z : z = prefix \o r
    OBVIOUS
  <2>2. z \in Seq(Chars) /\ Len(z) = Len(prefix) + Len(r) /\ \A i \in 1 .. Len(prefix) : z[i] = prefix[i]
    BY <1>1, <2>1, ConcatElements
  <2>3. Len(prefix) <= Len(z) /\ SubSeq(prefix, 1, Len(prefix)) = SubSeq(z, 1, Len(prefix))
    BY <1>1, <2>2
  <2>4. QED
    BY <2>1, <2>2, <2>3 DEF IsPrefix
<1>4. CASE m = prefix
  BY <1>1, <1>4 DEF applies, IsPrefix
<1>5. CASE m = prefix \o path
  BY <1>3, <1>5 DEF applies
<1>6. CASE m = prefix \o Slash \o path
  <2>1. Slash \o path \in Seq(Chars)
    BY <1>1
  <2>2. prefix \o Slash \o path = prefix \o (Slash \o path)
    BY <1>1, ConcatAssociative
  <2>3. QED
    BY <1>3, <1>6, <2>1, <2>2 DEF applies
<1>7. QED
  BY <1>2, <1>4, <1>5, <1>6

\* The handlers of a mounted application.
LEMMA MergedFacts ==
    ASSUME ATypes, NEW prefix \in MountPoints, NEW b \in Apps, NEW q, q = merged(prefix, b)
    PROVE  /\ q \in Seq(Entry) /\ Len(q) = Len(handlers[b])
           /\ \A i \in 1 .. Len(q) : /\ applies(prefix, q[i].path)
                                     /\ q[i].guards = handlers[b][i].guards \cup Used(b)
<1>1. PICK h \in Seq(Entry) : h = handlers[b]
  BY DEF ATypes
<1>2. PICK u \in SUBSET Mws : u = Used(b)
  <2>1. middlewares[b] \in Seq(Mws)
    BY DEF ATypes
  <2>2. \A i \in DOMAIN middlewares[b] : middlewares[b][i] \in Mws
    BY <2>1, LenProperties, ElementOfSeq
  <2>3. QED
    BY <2>2 DEF Used
<1>3. Len(h) \in Nat /\ DOMAIN h = 1 .. Len(h)
  OBVIOUS
<1>4. q = [i \in 1 .. Len(h) |-> [path |-> mounted_path(prefix, h[i].path), guards |-> h[i].guards \cup u, id |-> h[i].id]]
  BY <1>1, <1>2, <1>3 DEF merged
<1>5. ASSUME NEW i \in 1 .. Len(h)
      PROVE  q[i] \in Entry /\ applies(prefix, q[i].path) /\ q[i].guards = h[i].guards \cup u
  <2>1. h[i] \in Entry
    BY <1>5
  <2>2. h[i].path \in Seq(Chars) /\ h[i].guards \in SUBSET Mws /\ h[i].id \in 1 .. MaxHandlers
    BY <2>1 DEF Entry
  <2>3. PICK m : m = mounted_path(prefix, h[i].path)
    OBVIOUS
  <2>4. m \in Seq(Chars) /\ applies(prefix, m)
    BY <2>2, <2>3, MountedPath
  <2>5. q[i] = [path |-> m, guards |-> h[i].guards \cup u, id |-> h[i].id]
    BY <1>4, <1>5, <2>3
  <2>6. h[i].guards \cup u \in SUBSET Mws
    BY <2>2
  <2>7. QED
    BY <2>2, <2>4, <2>5, <2>6 DEF Entry
<1>6. q \in Seq(Entry) /\ Len(q) = Len(h)
  <2>1. q \in [1 .. Len(h) -> Entry]
    BY <1>4, <1>5
  <2>2. QED
    BY <1>3, <2>1
<1>7. QED
  BY <1>1, <1>2, <1>5, <1>6

-----------------------------------------------------------------------------
(* Outer middlewares first *)

\* What ran is a beginning of the chain.
Begins(ran, q) ==
    /\ ran \in Seq(Link) /\ q \in Seq(Link) /\ Ascending(q)
    /\ Len(ran) <= Len(q) /\ \A i \in 1 .. Len(ran) : ran[i] = q[i]

Running ==
    /\ request = [phase |-> request.phase, path |-> request.path, upgrade |-> request.upgrade,
                  handler |-> request.handler, chain |-> request.chain, ran |-> request.ran]
    /\ Begins(request.ran, request.chain)

OInv == ATypes /\ Running

\* Nothing has run of a chain yet.
LEMMA BeginsEmpty == ASSUME NEW q \in Seq(Link), Ascending(q) PROVE Begins(<<>>, q)
<1>1. <<>> \in Seq(Link) /\ Len(<<>>) = 0 /\ Len(q) \in Nat
  BY EmptySeq
<1>2. QED
  BY <1>1 DEF Begins

\* The empty chain.
LEMMA EmptyChain == <<>> \in Seq(Link) /\ Ascending(<<>>)
  BY EmptySeq DEF Ascending

\* Nothing is registered at first.
LEMMA InitOInv == Init => OInv
<1> SUFFICES ASSUME Init PROVE OInv
  OBVIOUS
<1>1. <<>> \in Seq(Entry) /\ <<>> \in Seq(Mws) /\ <<>> \in Seq(MountPoints)
  BY EmptySeq
<1>2. Ordered(<<>>)
  BY DEF Ordered
<1>3. ATypes
  BY <1>1, <1>2 DEF Init, ATypes
<1>4. request.ran = <<>> /\ request.chain = <<>>
  BY DEF Init, Idle
<1>5. Begins(<<>>, <<>>)
  BY EmptyChain, BeginsEmpty
<1>6. Running
  BY <1>4, <1>5 DEF Init, Idle, Running
<1>7. QED
  BY <1>3, <1>6 DEF OInv

\* The chain of a request.
LEMMA ChainType ==
    ASSUME ATypes, NEW path
    PROVE  chain(path) \in Seq(Link) /\ Ascending(chain(path))
<1>1. Globals \in Seq(Link) /\ Ascending(Globals)
  <2>1. middlewares[Root] \in Seq(Mws) /\ <<>> \in Ats
    BY AppAssumption DEF ATypes, Ats
  <2>2. QED
    BY <2>1, LinksFacts DEF Globals
<1>2. get_middlewares_for_path(path) \in Seq(Link) /\ Ascending(get_middlewares_for_path(path))
  BY ChainFound
<1>3. chain(path) \in {Globals, <<>>, get_middlewares_for_path(path)}
  BY DEF chain
<1>4. QED
  BY <1>1, <1>2, <1>3, EmptyChain

\* A registration of a handler.
LEMMA GetTypes ==
    ASSUME ATypes, NEW a \in Apps, NEW path \in HandlerPaths, get(a, path)
    PROVE  /\ ATypes'
           /\ \E e \in Entry : e.guards = {} /\ handlers' = [handlers EXCEPT ![a] = Append(handlers[a], e)]
<1>1. PICK e : e = [path |-> path, guards |-> {}, id |-> Cardinality(AllIds) + 1]
  OBVIOUS
<1>2. Cardinality(AllIds) + 1 \in 1 .. MaxHandlers /\ path \in Seq(Chars)
  BY NextNumbers, PathsFacts DEF get
<1>3. e \in Entry /\ e.guards = {}
  BY <1>1, <1>2 DEF Entry
<1>4. handlers' = [handlers EXCEPT ![a] = Append(handlers[a], e)]
  BY <1>1 DEF get
<1>5. Append(handlers[a], e) \in Seq(Entry)
  BY <1>3, Appended DEF ATypes
<1>6. handlers' \in [Apps -> Seq(Entry)]
  BY <1>4, <1>5 DEF ATypes
<1>7. QED
  BY <1>3, <1>4, <1>6 DEF ATypes, get

\* A registration of a middleware.
LEMMA UseTypes ==
    ASSUME ATypes, NEW a \in Apps, use(a)
    PROVE  ATypes'
<1>1. Cardinality(AllUsed) + 1 \in Mws
  BY NextNumbers DEF use
<1>2. middlewares[a] \in Seq(Mws)
  BY DEF ATypes
<1>3. Append(middlewares[a], Cardinality(AllUsed) + 1) \in Seq(Mws)
  BY <1>1, <1>2, Appended
<1>4. middlewares' \in [Apps -> Seq(Mws)] /\ has_middlewares' \in [Apps -> BOOLEAN]
  BY <1>3 DEF ATypes, use
<1>5. QED
  BY <1>4 DEF ATypes, use

\* A mount.
LEMMA RouteTypes ==
    ASSUME ATypes, NEW a \in Apps, NEW b \in Apps, NEW prefix \in MountPoints, route(a, prefix, b)
    PROVE  ATypes'
<1>1. PICK q : q = merged(prefix, b)
  OBVIOUS
<1>2. q \in Seq(Entry) /\ handlers[a] \in Seq(Entry)
  BY <1>1, MergedFacts DEF ATypes
<1>3. handlers[a] \o q \in Seq(Entry)
  BY <1>2, ConcatProperties
<1>4. handlers' \in [Apps -> Seq(Entry)]
  BY <1>1, <1>3 DEF ATypes, route
<1>5. PICK v : v = inherited(a, prefix, b)
  OBVIOUS
<1>6. v \in Seq(Mws)
  <2>1. route_middlewares[a][prefix] \in Seq(Mws) /\ middlewares[b] \in Seq(Mws)
    BY DEF ATypes
  <2>2. QED
    BY <1>5, <2>1, ConcatProperties DEF inherited
<1>7. route_middlewares' = [route_middlewares EXCEPT ![a][prefix] = v] \/ route_middlewares' = route_middlewares
  BY <1>5 DEF route
<1>8. route_middlewares' \in [Apps -> [MountPoints -> Seq(Mws)]]
  <2>1. PICK S : S = Seq(Mws)
    OBVIOUS
  <2>2. v \in S /\ route_middlewares \in [Apps -> [MountPoints -> S]]
    BY <1>6, <2>1 DEF ATypes
  <2>3. CASE route_middlewares' = [route_middlewares EXCEPT ![a][prefix] = v]
    <3>1. PICK rm \in [MountPoints -> S] : rm = route_middlewares[a]
      BY <2>2
    <3>2. PICK w : w = [rm EXCEPT ![prefix] = v]
      OBVIOUS
    <3>3. w \in [MountPoints -> S]
      BY <2>2, <3>1, <3>2
    <3>4. route_middlewares' = [route_middlewares EXCEPT ![a] = w]
      BY <2>3, <3>1, <3>2
    <3>5. QED
      BY <2>1, <2>2, <3>3, <3>4
  <2>4. CASE route_middlewares' = route_middlewares
    BY <2>4 DEF ATypes
  <2>5. QED
    BY <1>7, <2>3, <2>4
<1>9. has_middlewares' \in [Apps -> BOOLEAN]
  BY DEF ATypes, route
<1>10. QED
  BY <1>4, <1>8, <1>9 DEF ATypes, route

\* The sorted prefixes are all the prefixes in use.
LEMMA OrdersFacts ==
    ASSUME ATypes, NEW s \in prefix_orders
    PROVE  s \in Seq(MountPoints) /\ Ordered(s) /\ \A p \in Keys : \E i \in DOMAIN s : s[i] = p
<1>1. Keys \subseteq MountPoints
  BY DEF Keys
<1>2. IsFiniteSet(Keys)
  BY <1>1, PathsAssumption, FS_Subset
<1>3. PICK n \in Nat : n = Cardinality(Keys)
  BY <1>2, FS_CardinalityType
<1>4. s \in [1 .. n -> Keys] /\ \A i, j \in 1 .. n : i < j => s[i] # s[j] /\ Len(s[i]) <= Len(s[j])
  BY <1>3 DEF prefix_orders
<1>5. s \in [1 .. n -> MountPoints]
  BY <1>1, <1>4
<1>6. s \in Seq(MountPoints)
  BY <1>5
<1>7. Ordered(s)
  BY <1>4 DEF Ordered
<1>8. \A i, j \in 1 .. n : s[i] = s[j] => i = j
  <2>1. SUFFICES ASSUME NEW i \in 1 .. n, NEW j \in 1 .. n, s[i] = s[j], i # j PROVE FALSE
    OBVIOUS
  <2>2. i < j \/ j < i
    BY <2>1
  <2>3. QED
    BY <1>4, <2>1, <2>2
<1>9. s \in Injection(1 .. n, Keys)
  BY <1>4, <1>8 DEF Injection, IsInjective
<1>10. Cardinality(1 .. n) = n
  <2>1. Cardinality(1 .. n) = IF 1 > n THEN 0 ELSE n - 1 + 1
    BY FS_Interval
  <2>2. QED
    BY <2>1
<1>11. s \in Surjection(1 .. n, Keys)
  BY <1>2, <1>3, <1>9, <1>10, FS_Injection
<1>12. \A p \in Keys : \E i \in 1 .. n : s[i] = p
  BY <1>11 DEF Surjection
<1>13. QED
  BY <1>4, <1>6, <1>7, <1>12

\* Listening.
LEMMA ListenTypes ==
    ASSUME ATypes, NEW how, listen(how)
    PROVE  ATypes'
<1>1. UNCHANGED <<handlers, middlewares, route_middlewares>>
  BY DEF listen
<1>2. CASE how \in {"listen", "listen_usockets"}
  <2>1. sorted_prefixes' \in prefix_orders
    BY <1>2 DEF listen, precompute_middleware_prefixes
  <2>2. sorted_prefixes' \in Seq(MountPoints) /\ Ordered(sorted_prefixes')
    BY <2>1, OrdersFacts
  <2>3. has_middlewares' \in [Apps -> BOOLEAN]
    <3>1. PICK v \in BOOLEAN : v = (middlewares[Root] # <<>> \/ Keys # {})
      OBVIOUS
    <3>2. has_middlewares' = [has_middlewares EXCEPT ![Root] = v]
      BY <1>2, <3>1 DEF listen, precompute_middleware_prefixes
    <3>3. QED
      BY <3>2 DEF ATypes
  <2>4. QED
    BY <1>1, <2>2, <2>3 DEF ATypes
<1>3. CASE how \notin {"listen", "listen_usockets"}
  BY <1>1, <1>3 DEF listen, ATypes
<1>4. QED
  BY <1>2, <1>3

\* A middleware runs.
LEMMA OneMoreRuns ==
    ASSUME Running, request.phase = "chain", Len(request.ran) < Len(request.chain),
           NEW ran, ran = Append(request.ran, current)
    PROVE  Begins(ran, request.chain)
<1>1. PICK q \in Seq(Link) : q = request.chain /\ Ascending(q)
  BY DEF Running, Begins
<1>2. PICK r \in Seq(Link) : r = request.ran /\ Len(r) < Len(q) /\ \A i \in 1 .. Len(r) : r[i] = q[i]
  BY <1>1 DEF Running, Begins
<1>3. Len(r) \in Nat /\ Len(q) \in Nat
  OBVIOUS
<1>4. Len(r) + 1 \in 1 .. Len(q)
  BY <1>2, <1>3
<1>5. q[Len(r) + 1] \in Link /\ ran = Append(r, q[Len(r) + 1])
  BY <1>1, <1>2, <1>4, ElementOfSeq DEF current
<1>6. /\ ran \in Seq(Link) /\ Len(ran) = Len(r) + 1
      /\ \A i \in 1 .. Len(r) : ran[i] = r[i]
      /\ ran[Len(r) + 1] = q[Len(r) + 1]
  BY <1>5, Appended
<1>7. \A i \in 1 .. Len(ran) : ran[i] = q[i]
  BY <1>2, <1>3, <1>6
<1>8. Len(ran) <= Len(q)
  BY <1>2, <1>3, <1>6
<1>9. QED
  BY <1>1, <1>6, <1>7, <1>8 DEF Begins

\* Every step keeps the invariant.
LEMMA NextOInv == OInv /\ [Next]_vars => OInv'
<1> SUFFICES ASSUME OInv, [Next]_vars PROVE OInv'
  OBVIOUS
<1>1. ATypes /\ Running
  BY DEF OInv
<1>2. request' = request => Running'
  BY <1>1 DEF Running
<1>3. UNCHANGED appVars => ATypes'
  BY <1>1 DEF appVars, ATypes
<1>4. ASSUME NEW a \in Apps, NEW path \in HandlerPaths, get(a, path) PROVE OInv'
  BY <1>1, <1>2, <1>4, GetTypes DEF OInv, get
<1>5. ASSUME NEW a \in Apps, use(a) PROVE OInv'
  BY <1>1, <1>2, <1>5, UseTypes DEF OInv, use
<1>6. ASSUME NEW a \in Apps, NEW b \in Apps, NEW prefix \in MountPoints, route(a, prefix, b) PROVE OInv'
  BY <1>1, <1>2, <1>6, RouteTypes DEF OInv, route
<1>7. ASSUME NEW how \in Listeners, listen(how) PROVE OInv'
  BY <1>1, <1>2, <1>7, ListenTypes DEF OInv, listen
<1>8. ASSUME NEW path \in RequestPaths, receive(path) PROVE OInv'
  <2>1. PICK q \in Seq(Link) : q = chain(path) /\ Ascending(q)
    BY <1>1, ChainType
  <2>2. PICK h : h = match_route(path)
    OBVIOUS
  <2>3. request' = [phase |-> "chain", path |-> path, upgrade |-> FALSE, handler |-> h, chain |-> q, ran |-> <<>>] /\ UNCHANGED appVars
    BY <1>8, <2>1, <2>2 DEF receive
  <2>4. Begins(<<>>, q)
    BY <2>1, BeginsEmpty
  <2>5. Running'
    BY <2>3, <2>4 DEF Running
  <2>6. QED
    BY <1>3, <2>3, <2>5 DEF OInv
<1>9. ASSUME NEW path \in RequestPaths, receive_upgrade(path) PROVE OInv'
  <2>1. PICK h : h = match_route(path)
    OBVIOUS
  <2>2. PICK phase : request' = [phase |-> phase, path |-> path, upgrade |-> TRUE, handler |-> h,
                                 chain |-> <<>>, ran |-> <<>>]
    BY <1>9, <2>1 DEF receive_upgrade
  <2>3. Begins(<<>>, <<>>)
    BY EmptyChain, BeginsEmpty
  <2>4. Running'
    BY <2>2, <2>3 DEF Running
  <2>5. QED
    BY <1>3, <1>9, <2>4 DEF OInv, receive_upgrade
<1>10. ASSUME NEW goes_on \in BOOLEAN, exec_middleware(goes_on) PROVE OInv'
  <2>1. PICK ran : ran = Append(request.ran, current)
    OBVIOUS
  <2>2. PICK phase : phase = IF goes_on THEN request.phase ELSE "stopped"
    OBVIOUS
  <2>3. request' = [request EXCEPT !.ran = ran, !.phase = phase] /\ UNCHANGED appVars
    BY <1>10, <2>1, <2>2 DEF exec_middleware
  <2>4. Begins(ran, request.chain)
    BY <1>1, <1>10, <2>1, OneMoreRuns DEF exec_middleware
  <2>5. request' = [phase |-> phase, path |-> request.path, upgrade |-> request.upgrade,
                    handler |-> request.handler, chain |-> request.chain, ran |-> ran]
    BY <1>1, <2>3 DEF Running
  <2>6. Running'
    BY <2>4, <2>5 DEF Running
  <2>7. QED
    BY <1>3, <2>3, <2>6 DEF OInv
<1>11. CASE exec_handler
  <2>1. PICK phase : request' = [request EXCEPT !.phase = phase]
    BY <1>11 DEF exec_handler
  <2>2. request' = [phase |-> phase, path |-> request.path, upgrade |-> request.upgrade,
                    handler |-> request.handler, chain |-> request.chain, ran |-> request.ran]
    BY <1>1, <2>1 DEF Running
  <2>3. Running'
    BY <1>1, <2>2 DEF Running
  <2>4. QED
    BY <1>3, <1>11, <2>3 DEF OInv, exec_handler
<1>12. CASE respond
  <2>1. Begins(<<>>, <<>>)
    BY EmptyChain, BeginsEmpty
  <2>2. Running'
    BY <1>12, <2>1 DEF Running, respond, Idle
  <2>3. QED
    BY <1>3, <1>12, <2>2 DEF OInv, respond
<1>13. CASE UNCHANGED vars
  <2>1. UNCHANGED appVars /\ request' = request
    BY <1>13 DEF vars
  <2>2. QED
    BY <1>2, <1>3, <2>1 DEF OInv
<1>14. QED
  BY <1>4, <1>5, <1>6, <1>7, <1>8, <1>9, <1>10, <1>11, <1>12, <1>13 DEF Next

\* Of the middlewares that ran, none belongs to a prefix that contains the
\* prefix of an earlier one, whatever was mounted where and however Root
\* listens.
THEOREM OuterRunsFirst == Spec => []OuterFirst
<1>1. OInv => OuterFirst
  <2>1. SUFFICES ASSUME OInv, NEW i \in DOMAIN request.ran, NEW j \in DOMAIN request.ran, i < j,
                        IsPrefix(request.ran[j].at, request.ran[i].at), request.ran[i].at # request.ran[j].at
                 PROVE  FALSE
    BY DEF OuterFirst
  <2>2. PICK q \in Seq(Link) : q = request.chain /\ Ascending(q)
    BY <2>1 DEF OInv, Running, Begins
  <2>3. PICK r \in Seq(Link) : r = request.ran /\ Len(r) <= Len(q) /\ \A k \in 1 .. Len(r) : r[k] = q[k]
    BY <2>1, <2>2 DEF OInv, Running, Begins
  <2>4. i \in 1 .. Len(r) /\ j \in 1 .. Len(r) /\ i \in DOMAIN q /\ j \in DOMAIN q
    BY <2>1, <2>3
  <2>5. r[i] \in Link /\ r[j] \in Link
    BY <2>4, ElementOfSeq
  <2>6. PICK s \in Seq(Chars) : s = r[j].at
    BY <2>5, AtsFacts DEF Link, Ats
  <2>7. PICK t \in Seq(Chars) : t = r[i].at
    BY <2>5, AtsFacts DEF Link, Ats
  <2>8. Len(t) <= Len(s)
    BY <2>1, <2>2, <2>3, <2>4, <2>6, <2>7 DEF Ascending
  <2>9. Len(s) <= Len(t) /\ SubSeq(s, 1, Len(s)) = SubSeq(t, 1, Len(s)) /\ s # t
    BY <2>1, <2>3, <2>6, <2>7 DEF IsPrefix
  <2>10. Len(s) = Len(t)
    BY <2>8, <2>9
  <2>11. SubSeq(s, 1, Len(s)) = s /\ SubSeq(t, 1, Len(t)) = t
    BY SubSeqFull
  <2>12. QED
    BY <2>9, <2>10, <2>11
<1>2. QED
  BY <1>1, InitOInv, NextOInv, PTL DEF Spec

-----------------------------------------------------------------------------
(* The guards of a handler *)

\* A middleware is found under a prefix that applies to the path.
Found(g, path) ==
    \E p \in MountPoints :
        /\ applies(p, path)
        /\ \E m \in DOMAIN route_middlewares[Root][p] : route_middlewares[Root][p][m] = g

\* Mounted handlers of mounted applications have no middlewares of their own.
Plain == \A a \in Apps \ {Root} : \A i \in DOMAIN handlers[a] : handlers[a][i].guards = {}

Mounted ==
    \A i \in DOMAIN handlers[Root] :
        \A g \in handlers[Root][i].guards : Found(g, handlers[Root][i].path)

Listening ==
    /\ listener # "" =>
          /\ \A p \in Keys : \E i \in DOMAIN sorted_prefixes : sorted_prefixes[i] = p
          /\ has_middlewares[Root] \/ (middlewares[Root] = <<>> /\ Keys = {})
    /\ listener = "" => request.phase = "idle"

Guarded ==
    /\ request.phase \in {"chain", "handled"} /\ ~request.upgrade /\ request.handler # None =>
          request.handler.guards \cup Used(Root) \subseteq MwsOf(request.chain)
    /\ request.phase = "handled" /\ ~request.upgrade =>
          request.ran = request.chain /\ request.handler # None

GInv == OInv /\ Plain /\ Mounted /\ Listening /\ Guarded

\* An application without middlewares uses none.
LEMMA NoneUsed == ASSUME NEW a, middlewares[a] = <<>> PROVE Used(a) = {}
<1>1. <<>> \in Seq(Mws) /\ Len(<<>>) = 0
  BY EmptySeq
<1>2. DOMAIN middlewares[a] = {}
  BY <1>1, LenProperties
<1>3. QED
  BY <1>2 DEF Used

\* A prefix with a middleware is in use.
LEMMA FoundIsKey ==
    ASSUME ATypes, NEW p \in MountPoints, NEW m \in DOMAIN route_middlewares[Root][p]
    PROVE  p \in Keys
<1>1. route_middlewares[Root][p] # <<>>
  OBVIOUS
<1>2. QED
  BY <1>1 DEF Keys

\* The handler found for a path is one of Root, for that path.
LEMMA MatchedHandler ==
    ASSUME ATypes, NEW path, match_route(path) # None
    PROVE  \E i \in DOMAIN handlers[Root] : handlers[Root][i] = match_route(path) /\ handlers[Root][i].path = path
<1>1. PICK h \in Seq(Entry) : h = handlers[Root]
  BY AppAssumption DEF ATypes
<1>2. PICK n \in Nat : n = Len(h) /\ DOMAIN h = 1 .. n
  OBVIOUS
<1>3. PICK hits : hits = {i \in 1 .. n : h[i].path = path}
  OBVIOUS
<1>4. match_route(path) = IF hits = {} THEN None ELSE h[CHOOSE i \in hits : \A j \in hits : j <= i]
  BY <1>1, <1>2, <1>3 DEF match_route
<1>5. hits # {}
  BY <1>4
<1>6. \E i \in hits : \A j \in hits : j <= i
  <2>1. PICK T : T = {k \in 0 .. n : n - k \in hits}
    OBVIOUS
  <2>2. PICK i0 \in hits : i0 \in 1 .. n
    BY <1>3, <1>5
  <2>3. n - i0 \in 0 .. n /\ n - (n - i0) = i0
    BY <2>2
  <2>4. T # {} /\ T \subseteq Nat
    <3>1. n - (n - i0) \in hits
      BY <2>2, <2>3
    <3>2. n - i0 \in T
      BY <2>1, <2>3, <3>1
    <3>3. QED
      BY <2>1, <3>2
  <2>5. PICK f \in T : \A j \in T : f <= j
    BY <2>4, LeastNumber
  <2>6. n - f \in hits /\ f \in 0 .. n
    BY <2>1
  <2>7. ASSUME NEW j \in hits PROVE j <= n - f
    <3>1. j \in 1 .. n
      BY <1>3
    <3>2. n - j \in 0 .. n /\ n - (n - j) = j
      BY <3>1
    <3>3. n - j \in T
      BY <2>1, <3>2
    <3>4. QED
      BY <2>5, <2>6, <3>1, <3>3
  <2>8. QED
    BY <2>6, <2>7
<1>7. PICK c : c = CHOOSE i \in hits : \A j \in hits : j <= i
  OBVIOUS
<1>8. c \in hits
  BY <1>6, <1>7
<1>9. c \in DOMAIN h /\ h[c].path = path
  BY <1>2, <1>3, <1>8
<1>10. match_route(path) = h[c]
  BY <1>4, <1>5, <1>7
<1>11. QED
  BY <1>1, <1>9, <1>10

\* What a handler was mounted with is in the chain of a request for it, once
\* Root listens.
LEMMA GuardsInChain ==
    ASSUME ATypes, Mounted, Listening, listener # "", NEW path, match_route(path) # None
    PROVE  match_route(path).guards \cup Used(Root) \subseteq MwsOf(chain(path))
<1>1. PICK i \in DOMAIN handlers[Root] : handlers[Root][i] = match_route(path) /\ handlers[Root][i].path = path
  BY MatchedHandler
<1>2. \A g \in match_route(path).guards : Found(g, path)
  BY <1>1 DEF Mounted
<1>3. CASE has_middlewares[Root]
  <2>1. PICK q : q = get_middlewares_for_path(path)
    OBVIOUS
  <2>2. chain(path) = q
    BY <1>3, <2>1 DEF chain
  <2>3. /\ Used(Root) \subseteq MwsOf(q)
        /\ \A k \in DOMAIN sorted_prefixes : applies(sorted_prefixes[k], path) =>
              \A m \in DOMAIN route_middlewares[Root][sorted_prefixes[k]] :
                  route_middlewares[Root][sorted_prefixes[k]][m] \in MwsOf(q)
    BY <2>1, ChainFound
  <2>4. ASSUME NEW g \in match_route(path).guards PROVE g \in MwsOf(q)
    <3>1. PICK p \in MountPoints :
             applies(p, path) /\ \E m \in DOMAIN route_middlewares[Root][p] : route_middlewares[Root][p][m] = g
      BY <1>2 DEF Found
    <3>2. PICK m \in DOMAIN route_middlewares[Root][p] : route_middlewares[Root][p][m] = g
      BY <3>1
    <3>3. PICK k \in DOMAIN sorted_prefixes : sorted_prefixes[k] = p
      BY FoundIsKey DEF Listening
    <3>4. QED
      BY <2>3, <3>1, <3>2, <3>3
  <2>5. QED
    BY <2>2, <2>3, <2>4
<1>4. CASE middlewares[Root] = <<>> /\ Keys = {}
  <2>1. Used(Root) = {}
    BY <1>4, NoneUsed
  <2>2. ASSUME NEW g \in match_route(path).guards PROVE FALSE
    <3>1. PICK p \in MountPoints : \E m \in DOMAIN route_middlewares[Root][p] : route_middlewares[Root][p][m] = g
      BY <1>2 DEF Found
    <3>2. p \in Keys
      BY <3>1, FoundIsKey
    <3>3. QED
      BY <1>4, <3>2
  <2>3. QED
    BY <2>1, <2>2
<1>5. QED
  BY <1>3, <1>4 DEF Listening

\* What a mount adds, and what it keeps.
LEMMA MountFinds ==
    ASSUME ATypes, NEW prefix \in MountPoints, NEW b \in Apps, route(Root, prefix, b)
    PROVE  /\ \A g, path : Found(g, path) => Found(g, path)'
           /\ \A path : \A g \in Used(b) : applies(prefix, path) => Found(g, path)'
<1>1. Root \in Apps
  BY AppAssumption
<1>2. PICK u \in Seq(Mws) : u = route_middlewares[Root][prefix]
  BY <1>1 DEF ATypes
<1>3. PICK v \in Seq(Mws) : v = middlewares[b]
  BY DEF ATypes
<1>4. CASE v = <<>>
  <2>1. route_middlewares' = route_middlewares
    BY <1>3, <1>4 DEF route
  <2>2. Used(b) = {}
    BY <1>3, <1>4, NoneUsed
  <2>3. ASSUME NEW g, NEW path, Found(g, path) PROVE Found(g, path)'
    BY <2>1, <2>3 DEF Found
  <2>4. QED
    BY <2>2, <2>3
<1>5. CASE v # <<>>
  <2>1. PICK w : w = u \o v
    OBVIOUS
  <2>2. PICK rm \in [MountPoints -> Seq(Mws)] : rm = route_middlewares[Root]
    BY <1>1 DEF ATypes
  <2>3. route_middlewares' = [route_middlewares EXCEPT ![Root][prefix] = w]
    BY <1>2, <1>3, <1>5, <2>1 DEF route, inherited
  <2>4. route_middlewares'[Root][prefix] = w
    BY <1>1, <2>2, <2>3 DEF ATypes
  <2>5. \A p \in MountPoints : p # prefix => route_middlewares'[Root][p] = route_middlewares[Root][p]
    BY <1>1, <2>2, <2>3 DEF ATypes
  <2>6. /\ w \in Seq(Mws)
        /\ \A i \in 1 .. Len(u) : i \in 1 .. Len(w) /\ w[i] = u[i]
        /\ \A i \in 1 .. Len(v) : Len(u) + i \in 1 .. Len(w) /\ w[Len(u) + i] = v[i]
    BY <2>1, ConcatElements
  <2>7. DOMAIN u = 1 .. Len(u) /\ DOMAIN v = 1 .. Len(v) /\ DOMAIN w = 1 .. Len(w)
    BY <2>6, LenProperties
  <2>8. ASSUME NEW g, NEW path, Found(g, path) PROVE Found(g, path)'
    <3>1. PICK p \in MountPoints :
             applies(p, path) /\ \E m \in DOMAIN route_middlewares[Root][p] : route_middlewares[Root][p][m] = g
      BY <2>8 DEF Found
    <3>2. PICK m \in DOMAIN route_middlewares[Root][p] : route_middlewares[Root][p][m] = g
      BY <3>1
    <3>3. CASE p = prefix
      <4>1. m \in DOMAIN w /\ w[m] = g
        BY <1>2, <2>6, <2>7, <3>2, <3>3
      <4>2. QED
        BY <2>4, <3>1, <3>3, <4>1 DEF Found
    <3>4. CASE p # prefix
      BY <2>5, <3>1, <3>2, <3>4 DEF Found
    <3>5. QED
      BY <3>3, <3>4
  <2>9. ASSUME NEW g \in Used(b), NEW path, applies(prefix, path) PROVE Found(g, path)'
    <3>1. PICK i \in DOMAIN v : g = v[i]
      BY <1>3 DEF Used
    <3>2. Len(u) + i \in DOMAIN w /\ w[Len(u) + i] = g
      BY <2>6, <2>7, <3>1
    <3>3. QED
      BY <2>4, <2>9, <3>2 DEF Found
  <2>10. QED
    BY <2>8, <2>9
<1>6. QED
  BY <1>4, <1>5

\* A new handler has no middlewares to be mounted with.
LEMMA GetGuards ==
    ASSUME ATypes, Plain, Mounted, NEW a \in Apps, NEW path \in HandlerPaths, get(a, path)
    PROVE  Plain' /\ Mounted'
<1>1. PICK e \in Entry : e.guards = {} /\ handlers' = [handlers EXCEPT ![a] = Append(handlers[a], e)]
  BY GetTypes
<1>2. PICK h \in Seq(Entry) : h = handlers[a]
  BY DEF ATypes
<1>3. PICK z : z = Append(h, e)
  OBVIOUS
<1>4. /\ z \in Seq(Entry) /\ Len(z) = Len(h) + 1 /\ z[Len(h) + 1] = e
      /\ \A i \in 1 .. Len(h) : z[i] = h[i]
  BY <1>3, Appended
<1>5. \A i \in DOMAIN z : (i \in DOMAIN h /\ z[i] = h[i]) \/ z[i].guards = {}
  <2>1. DOMAIN z = 1 .. Len(h) + 1 /\ DOMAIN h = 1 .. Len(h) /\ Len(h) \in Nat
    BY <1>4, LenProperties
  <2>2. QED
    BY <1>1, <1>4, <2>1
<1>6. handlers'[a] = z /\ \A c \in Apps : c # a => handlers'[c] = handlers[c]
  BY <1>1, <1>2, <1>3 DEF ATypes
<1>7. route_middlewares' = route_middlewares
  BY DEF get
<1>8. Plain'
  <2>1. SUFFICES ASSUME NEW c \in Apps \ {Root}, NEW i \in DOMAIN handlers'[c] PROVE handlers'[c][i].guards = {}
    BY DEF Plain
  <2>2. CASE c = a
    BY <1>2, <1>5, <1>6, <2>1, <2>2 DEF Plain
  <2>3. CASE c # a
    BY <1>6, <2>1, <2>3 DEF Plain
  <2>4. QED
    BY <2>2, <2>3
<1>9. Mounted'
  <2>1. SUFFICES ASSUME NEW i \in DOMAIN handlers'[Root], NEW g \in handlers'[Root][i].guards
                 PROVE  Found(g, handlers[Root][i].path)'
    BY DEF Mounted
  <2>2. i \in DOMAIN handlers[Root] /\ handlers'[Root][i] = handlers[Root][i]
    <3>1. CASE Root = a
      BY <1>2, <1>5, <1>6, <2>1, <3>1
    <3>2. CASE Root # a
      BY <1>6, <2>1, <3>2, AppAssumption
    <3>3. QED
      BY <3>1, <3>2
  <2>3. Found(g, handlers[Root][i].path)
    BY <2>1, <2>2 DEF Mounted
  <2>4. QED
    BY <1>7, <2>2, <2>3 DEF Found
<1>10. QED
  BY <1>8, <1>9

\* The middlewares of a mounted application go with its handlers.
LEMMA RouteGuards ==
    ASSUME ATypes, Plain, Mounted, NEW b \in Apps, NEW prefix \in MountPoints, route(Root, prefix, b)
    PROVE  Plain' /\ Mounted'
<1>1. Root \in Apps /\ b \in Apps \ {Root}
  BY AppAssumption DEF route
<1>2. PICK h \in Seq(Entry) : h = handlers[Root]
  BY <1>1 DEF ATypes
<1>3. PICK q : q = merged(prefix, b)
  OBVIOUS
<1>4. /\ q \in Seq(Entry) /\ Len(q) = Len(handlers[b])
      /\ \A i \in 1 .. Len(q) : applies(prefix, q[i].path) /\ q[i].guards = handlers[b][i].guards \cup Used(b)
  BY <1>3, MergedFacts
<1>5. ASSUME NEW i \in 1 .. Len(q) PROVE q[i].guards = Used(b)
  <2>1. handlers[b] \in Seq(Entry)
    BY DEF ATypes
  <2>2. i \in DOMAIN handlers[b]
    BY <1>4, <2>1, LenProperties
  <2>3. handlers[b][i].guards = {}
    BY <1>1, <2>2 DEF Plain
  <2>4. QED
    BY <1>4, <2>3
<1>6. PICK z : z = h \o q
  OBVIOUS
<1>7. /\ z \in Seq(Entry)
      /\ \A k \in 1 .. Len(z) : \/ k \in 1 .. Len(h) /\ z[k] = h[k]
                                \/ k - Len(h) \in 1 .. Len(q) /\ z[k] = q[k - Len(h)]
  BY <1>4, <1>6, ConcatElements
<1>8. handlers'[Root] = z /\ \A c \in Apps : c # Root => handlers'[c] = handlers[c]
  BY <1>1, <1>2, <1>3, <1>6 DEF ATypes, route
<1>9. Plain'
  BY <1>8 DEF Plain
<1>10. Mounted'
  <2>1. SUFFICES ASSUME NEW k \in DOMAIN z, NEW g \in z[k].guards PROVE Found(g, z[k].path)'
    BY <1>8 DEF Mounted, Found
  <2>2. k \in 1 .. Len(z) /\ DOMAIN h = 1 .. Len(h)
    BY <1>7, LenProperties
  <2>3. CASE k \in 1 .. Len(h) /\ z[k] = h[k]
    <3>1. Found(g, z[k].path)
      BY <1>2, <2>1, <2>2, <2>3 DEF Mounted
    <3>2. QED
      BY <3>1, MountFinds
  <2>4. CASE k - Len(h) \in 1 .. Len(q) /\ z[k] = q[k - Len(h)]
    <3>1. g \in Used(b) /\ applies(prefix, z[k].path)
      BY <1>4, <1>5, <2>1, <2>4
    <3>2. QED
      BY <3>1, MountFinds
  <2>5. QED
    BY <1>7, <2>2, <2>3, <2>4
<1>11. QED
  BY <1>9, <1>10

\* Once Root listens, all prefixes in use are listed.
LEMMA ListenLists ==
    ASSUME ATypes, NEW how \in {"listen", "listen_usockets"}, listen(how)
    PROVE  /\ \A p \in Keys' : \E i \in DOMAIN sorted_prefixes' : sorted_prefixes'[i] = p
           /\ has_middlewares'[Root] \/ (middlewares'[Root] = <<>> /\ Keys' = {})
<1>1. UNCHANGED <<middlewares, route_middlewares>>
  BY DEF listen
<1>2. Keys' = Keys
  BY <1>1 DEF Keys
<1>3. sorted_prefixes' \in prefix_orders
  BY DEF listen, precompute_middleware_prefixes
<1>4. \A p \in Keys : \E i \in DOMAIN sorted_prefixes' : sorted_prefixes'[i] = p
  BY <1>3, OrdersFacts
<1>5. PICK v \in BOOLEAN : v = (middlewares[Root] # <<>> \/ Keys # {})
  OBVIOUS
<1>6. has_middlewares' = [has_middlewares EXCEPT ![Root] = v]
  BY <1>5 DEF listen, precompute_middleware_prefixes
<1>7. has_middlewares'[Root] = v
  BY <1>6, AppAssumption DEF ATypes
<1>8. QED
  BY <1>1, <1>2, <1>4, <1>5, <1>7

\* Nothing is registered at first.
LEMMA InitGInv == Init => GInv
<1> SUFFICES ASSUME Init PROVE GInv
  OBVIOUS
<1>1. OInv
  BY InitOInv
<1>2. DOMAIN <<>> = {}
  <2>1. <<>> \in Seq(Mws) /\ Len(<<>>) = 0
    BY EmptySeq
  <2>2. QED
    BY <2>1, LenProperties
<1>3. \A a \in Apps : handlers[a] = <<>>
  BY DEF Init
<1>4. Plain /\ Mounted
  BY <1>2, <1>3, AppAssumption DEF Plain, Mounted
<1>5. listener = "" /\ request.phase = "idle"
  BY DEF Init, Idle
<1>6. Listening /\ Guarded
  BY <1>5 DEF Listening, Guarded
<1>7. QED
  BY <1>1, <1>4, <1>6 DEF GInv

\* Every step keeps the invariant.
LEMMA NextGInv ==
    ASSUME ~Nested, Listeners \subseteq {"listen", "listen_usockets"}
    PROVE  GInv /\ [Next]_vars => GInv'
<1> SUFFICES ASSUME GInv, [Next]_vars PROVE GInv'
  OBVIOUS
<1>1. ATypes /\ Running /\ Plain /\ Mounted /\ Listening /\ Guarded
  BY DEF GInv, OInv
<1>2. OInv'
  BY NextOInv DEF GInv
<1>3. ASSUME listener = "", listener' = "", request' = request, Plain', Mounted' PROVE GInv'
  <2>1. request'.phase = "idle"
    BY <1>1, <1>3 DEF Listening
  <2>2. Listening' /\ Guarded'
    BY <1>3, <2>1 DEF Listening, Guarded
  <2>3. QED
    BY <1>2, <1>3, <2>2 DEF GInv
<1>4. ASSUME UNCHANGED <<handlers, route_middlewares>> PROVE Plain' /\ Mounted'
  BY <1>1, <1>4 DEF Plain, Mounted, Found
<1>5. ASSUME UNCHANGED <<appVars, listener>>, listener # "", Guarded' PROVE GInv'
  <2>1. UNCHANGED <<handlers, route_middlewares, sorted_prefixes, has_middlewares, middlewares, listener>>
    BY <1>5 DEF appVars
  <2>2. Keys' = Keys
    BY <2>1 DEF Keys
  <2>3. Listening'
    BY <1>1, <1>5, <2>1, <2>2 DEF Listening
  <2>4. QED
    BY <1>2, <1>4, <1>5, <2>1, <2>3 DEF GInv
<1>6. ASSUME NEW a \in Apps, NEW path \in HandlerPaths, get(a, path) PROVE GInv'
  <2>1. Plain' /\ Mounted'
    BY <1>1, <1>6, GetGuards
  <2>2. QED
    BY <1>3, <1>6, <2>1 DEF get
<1>7. ASSUME NEW a \in Apps, use(a) PROVE GInv'
  BY <1>3, <1>4, <1>7 DEF use
<1>8. ASSUME NEW a \in Apps, NEW b \in Apps, NEW prefix \in MountPoints, route(a, prefix, b) PROVE GInv'
  <2>1. a = Root
    BY <1>8 DEF route
  <2>2. Plain' /\ Mounted'
    BY <1>1, <1>8, <2>1, RouteGuards
  <2>3. QED
    BY <1>3, <1>8, <2>2 DEF route
<1>9. ASSUME NEW how \in Listeners, listen(how) PROVE GInv'
  <2>1. how \in {"listen", "listen_usockets"}
    OBVIOUS
  <2>2. listener = "" /\ listener' = how /\ request' = request /\ UNCHANGED <<handlers, route_middlewares>>
    BY <1>9 DEF listen
  <2>3. request'.phase = "idle"
    BY <1>1, <2>2 DEF Listening
  <2>4. Listening'
    BY <1>1, <1>9, <2>1, <2>2, <2>3, ListenLists DEF Listening
  <2>5. Guarded'
    BY <2>3 DEF Guarded
  <2>6. QED
    BY <1>2, <1>4, <2>2, <2>4, <2>5 DEF GInv
<1>10. ASSUME NEW path \in RequestPaths, receive(path) PROVE GInv'
  <2>1. PICK h : h = match_route(path)
    OBVIOUS
  <2>2. PICK q : q = chain(path)
    OBVIOUS
  <2>3. request' = [phase |-> "chain", path |-> path, upgrade |-> FALSE, handler |-> h, chain |-> q, ran |-> <<>>]
    BY <1>10, <2>1, <2>2 DEF receive
  <2>4. UNCHANGED <<appVars, listener>> /\ listener # "" /\ middlewares' = middlewares
    BY <1>10 DEF receive, appVars
  <2>5. Used(Root)' = Used(Root)
    BY <2>4 DEF Used
  <2>6. h # None => h.guards \cup Used(Root) \subseteq MwsOf(q)
    BY <1>1, <2>1, <2>2, <2>4, GuardsInChain
  <2>7. request'.phase = "chain" /\ request'.handler = h /\ request'.chain = q /\ ~request'.upgrade
    BY <2>3
  <2>8. Guarded'
    BY <2>5, <2>6, <2>7 DEF Guarded
  <2>9. QED
    BY <1>5, <2>4, <2>8
<1>11. ASSUME NEW path \in RequestPaths, receive_upgrade(path) PROVE GInv'
  <2>1. PICK h : h = match_route(path)
    OBVIOUS
  <2>2. PICK phase :
           request' = [phase |-> phase, path |-> path, upgrade |-> TRUE, handler |-> h, chain |-> <<>>, ran |-> <<>>]
    BY <1>11, <2>1 DEF receive_upgrade
  <2>3. request'.upgrade
    BY <2>2
  <2>4. Guarded'
    BY <2>3 DEF Guarded
  <2>5. QED
    BY <1>5, <1>11, <2>4 DEF receive_upgrade
<1>12. ASSUME request.phase # "idle", UNCHANGED <<appVars, listener>>, Guarded' PROVE GInv'
  <2>1. listener # ""
    BY <1>1, <1>12 DEF Listening
  <2>2. QED
    BY <1>5, <1>12, <2>1
<1>13. ASSUME UNCHANGED appVars PROVE Used(Root)' = Used(Root)
  BY <1>13 DEF Used, appVars
<1>14. ASSUME NEW goes_on \in BOOLEAN, exec_middleware(goes_on) PROVE GInv'
  <2>1. request.phase = "chain" /\ UNCHANGED <<appVars, listener>>
    BY <1>14 DEF exec_middleware
  <2>2. PICK ran : ran = Append(request.ran, current)
    OBVIOUS
  <2>3. PICK phase : phase = IF goes_on THEN request.phase ELSE "stopped"
    OBVIOUS
  <2>4. phase \in {"chain", "stopped"}
    BY <2>1, <2>3
  <2>5. request' = [request EXCEPT !.ran = ran, !.phase = phase]
    BY <1>14, <2>2, <2>3 DEF exec_middleware
  <2>6. /\ request'.phase = phase /\ request'.handler = request.handler
        /\ request'.chain = request.chain /\ request'.upgrade = request.upgrade
    BY <1>1, <2>5 DEF Running
  <2>7. Guarded'
    BY <1>1, <1>13, <2>1, <2>4, <2>6 DEF Guarded
  <2>8. QED
    BY <1>12, <2>1, <2>7
<1>15. CASE exec_handler
  <2>1. request.phase = "chain" /\ request.ran = request.chain /\ UNCHANGED <<appVars, listener>>
    BY <1>15 DEF exec_handler
  <2>2. PICK phase : phase = IF request.handler = None THEN "missed" ELSE "handled"
    OBVIOUS
  <2>3. request' = [request EXCEPT !.phase = phase]
    BY <1>15, <2>2 DEF exec_handler
  <2>4. /\ request'.phase = phase /\ request'.handler = request.handler
        /\ request'.chain = request.chain /\ request'.ran = request.ran
        /\ request'.upgrade = request.upgrade
    BY <1>1, <2>3 DEF Running
  <2>5. Guarded'
    BY <1>1, <1>13, <2>1, <2>2, <2>4 DEF Guarded
  <2>6. QED
    BY <1>12, <2>1, <2>5
<1>16. CASE respond
  <2>1. request.phase # "idle" /\ UNCHANGED <<appVars, listener>> /\ request'.phase = "idle"
    BY <1>16 DEF respond, Idle
  <2>2. Guarded'
    BY <2>1 DEF Guarded
  <2>3. QED
    BY <1>12, <2>1, <2>2
<1>17. CASE UNCHANGED vars
  <2>1. UNCHANGED <<appVars, listener>> /\ request' = request
    BY <1>17 DEF vars
  <2>2. Guarded'
    BY <1>1, <1>13, <2>1 DEF Guarded
  <2>3. CASE listener = ""
    <3>1. Plain' /\ Mounted'
      BY <1>4, <2>1 DEF appVars
    <3>2. QED
      BY <1>3, <2>1, <2>3, <3>1
  <2>4. CASE listener # ""
    BY <1>5, <2>1, <2>2, <2>4
  <2>5. QED
    BY <2>3, <2>4
<1>18. QED
  BY <1>6, <1>7, <1>8, <1>9, <1>10, <1>11, <1>14, <1>15, <1>16, <1>17 DEF Next

\* The handler of a request that does not ask for an upgrade runs only after the
\* global middlewares and those its application had when it was mounted have all
\* run, for servers that compute the prefixes and applications mounted on Root.
THEOREM GuardsCalled ==
    ASSUME ~Nested, Listeners \subseteq {"listen", "listen_usockets"}
    PROVE  Spec => []GuardsRun
<1>1. GInv => GuardsRun
  <2>1. SUFFICES ASSUME GInv, request.phase = "handled", ~request.upgrade
                 PROVE  request.handler.guards \cup Used(Root) \subseteq Ran
    BY DEF GuardsRun
  <2>2. Ran = MwsOf(request.chain)
    BY <2>1 DEF GInv, Guarded, Ran, MwsOf
  <2>3. request.handler # None
    BY <2>1 DEF GInv, Guarded
  <2>4. QED
    BY <2>1, <2>2, <2>3 DEF GInv, Guarded
<1>2. QED
  BY <1>1, InitGInv, NextGInv, PTL DEF Spec

-----------------------------------------------------------------------------
(* A WebSocket connection *)

\* The frames a connection sends.
Opcodes == {"data", "ping", "pong", "close"}

Contexts ==
    [state : States, history : Seq([from : States, to : States]), out : Seq(Opcodes),
     close_called : BOOLEAN, forced : BOOLEAN, messages : Seq(Sizes), close_events : Nat]

Closes(w) == {i \in DOMAIN w.out : w.out[i] = "close"}

\* The history is a path to the current state.
Path(w) ==
    /\ w.state = IF w.history = <<>> THEN "connecting" ELSE w.history[Len(w.history)].to
    /\ \A i \in 1 .. Len(w.history) - 1 : w.history[i].to = w.history[i + 1].from
    /\ \A i \in DOMAIN w.history :
          is_valid_state_transition(w.history[i].from, w.history[i].to) \/ w.history[i].to = "closed"

\* Nothing but close frames follows a close frame.
Ending(w) == \A i \in Closes(w) : \A k \in i .. Len(w.out) : w.out[k] = "close"

Sound(w) ==
    /\ w \in Contexts
    /\ Path(w)
    /\ Ending(w)
    /\ w.close_events > 0 => w.state = "closed"

Half(w) ==
    /\ Sound(w)
    /\ w.state \in {"closing", "closed"}
    /\ Closes(w) = {} \/ w.forced

Good(w, gone) ==
    /\ Sound(w)
    /\ Closes(w) # {} => w.state \in {"closing", "closed"}
    /\ ~gone /\ w.state \in {"closing", "closed"} => Closes(w) # {}
    /\ ~w.forced => \A i, k \in Closes(w) : i = k

Live(w) == Good(w, broken) /\ w.state # "connecting"

\* The inductive invariant.
IInv ==
    /\ Good(ws, broken)
    /\ broken \in BOOLEAN
    /\ inbox \in Seq(Frames)
    /\ ws.state = "connecting" => inbox = <<>>
-----------------------------------------------------------------------------
(* The two updates every operation is made of.                             *)

\* A recorded change of state extends the path.
LEMMA MoveSound ==
    ASSUME NEW w, Sound(w), NEW new \in States,
           is_valid_state_transition(w.state, new) \/ new = "closed",
           w.close_events > 0 => new = "closed"
    PROVE  /\ Sound(Move(w, new))
           /\ Move(w, new).state = new
           /\ Move(w, new).out = w.out
           /\ Move(w, new).forced = w.forced
           /\ Closes(Move(w, new)) = Closes(w)
<1> DEFINE v == Move(w, new)
           step == [from |-> w.state, to |-> new]
<1>1. w \in Contexts /\ Path(w) /\ Ending(w)
  BY DEF Sound
<1>2. /\ w.state \in States
      /\ w.history \in Seq([from : States, to : States])
  BY <1>1 DEF Contexts
<1> DEFINE longer == Append(w.history, step)
<1>a. longer \in Seq([from : States, to : States])
  BY <1>2
<1>b. v = [w EXCEPT !.state = new, !.history = longer]
  BY DEF Move
<1> HIDE DEF longer, v
<1>3. /\ v \in Contexts
      /\ v.state = new
      /\ v.history = longer
      /\ v.out = w.out
      /\ v.forced = w.forced
      /\ v.close_events = w.close_events
  BY <1>1, <1>a, <1>b DEF Contexts
<1>4. Closes(v) = Closes(w)
  BY <1>3 DEF Closes
<1>5. Ending(v)
  BY <1>1, <1>3, <1>4 DEF Ending
<1>6. /\ Len(v.history) = Len(w.history) + 1
      /\ Len(w.history) \in Nat
      /\ v.history # <<>>
      /\ DOMAIN v.history = 1 .. Len(w.history) + 1
      /\ DOMAIN w.history = 1 .. Len(w.history)
      /\ v.history[Len(w.history) + 1] = step
      /\ \A i \in 1 .. Len(w.history) : v.history[i] = w.history[i]
  BY <1>2, <1>3 DEF longer
<1>7. Path(v)
  <2>1. v.state = v.history[Len(v.history)].to
    BY <1>3, <1>6
  <2>2. ASSUME NEW i \in 1 .. Len(v.history) - 1
        PROVE  v.history[i].to = v.history[i + 1].from
    <3>1. CASE i < Len(w.history)
      <4>1. i \in 1 .. Len(w.history) - 1 /\ i + 1 \in 1 .. Len(w.history) /\ i \in 1 .. Len(w.history)
        BY <1>6, <2>2, <3>1
      <4>2. w.history[i].to = w.history[i + 1].from
        BY <1>1, <4>1 DEF Path
      <4>3. QED
        BY <1>6, <4>1, <4>2
    <3>2. CASE i = Len(w.history)
      <4>1. w.history # <<>> /\ w.history[i].to = w.state
        BY <1>1, <1>2, <1>6, <2>2, <3>2 DEF Path
      <4>2. QED
        BY <1>6, <3>2, <4>1
    <3>3. QED
      BY <1>6, <2>2, <3>1, <3>2
  <2>3. ASSUME NEW i \in DOMAIN v.history
        PROVE  \/ is_valid_state_transition(v.history[i].from, v.history[i].to)
               \/ v.history[i].to = "closed"
    <3>1. CASE i \in 1 .. Len(w.history)
      BY <1>1, <1>6, <3>1 DEF Path
    <3>2. CASE i = Len(w.history) + 1
      BY <1>6, <3>2
    <3>3. QED
      BY <1>6, <3>1, <3>2
  <2>4. QED
    BY <1>6, <2>1, <2>2, <2>3 DEF Path
<1>8. QED
  BY <1>3, <1>4, <1>5, <1>7 DEF Sound, v

\* A frame that is sent, or lost with the socket.
LEMMA EmitSound ==
    ASSUME NEW w, Sound(w), NEW f \in Opcodes, f = "close" \/ Closes(w) = {}
    PROVE  /\ Sound(Emit(w, f))
           /\ Emit(w, f).state = w.state
           /\ Emit(w, f).forced = w.forced
           /\ broken => Closes(Emit(w, f)) = Closes(w)
           /\ f # "close" => Closes(Emit(w, f)) = Closes(w)
           /\ f = "close" /\ ~broken => Closes(Emit(w, f)) # {}
           /\ Closes(w) = {} => \A i, k \in Closes(Emit(w, f)) : i = k
<1>1. CASE broken
  BY <1>1 DEF Emit
<1>2. CASE ~broken
  <2> DEFINE v == Emit(w, f)
             n == Len(w.out)
  <2>1. w \in Contexts /\ w.out \in Seq(Opcodes) /\ Path(w) /\ Ending(w)
    BY DEF Sound, Contexts
  <2> DEFINE longer == Append(w.out, f)
  <2>a. longer \in Seq(Opcodes)
    BY <2>1
  <2>b. v = [w EXCEPT !.out = longer]
    BY <1>2 DEF Emit
  <2> HIDE DEF longer, v
  <2>2. /\ v \in Contexts
        /\ v.out = longer
        /\ v.state = w.state
        /\ v.forced = w.forced
        /\ v.history = w.history
        /\ v.close_events = w.close_events
    BY <2>1, <2>a, <2>b DEF Contexts
  <2>3. /\ n \in Nat
        /\ Len(v.out) = n + 1
        /\ DOMAIN v.out = 1 .. n + 1
        /\ DOMAIN w.out = 1 .. n
        /\ v.out[n + 1] = f
        /\ \A i \in 1 .. n : v.out[i] = w.out[i]
    BY <2>1, <2>2 DEF longer
  <2> HIDE DEF n
  <2>4. Closes(v) = IF f = "close" THEN Closes(w) \cup {n + 1} ELSE Closes(w)
    BY <2>3 DEF Closes
  <2>5. Path(v)
    BY <2>1, <2>2 DEF Path
  <2>6. Ending(v)
    <3> SUFFICES ASSUME NEW i \in Closes(v), NEW k \in i .. n + 1
                 PROVE  v.out[k] = "close"
      BY <2>3 DEF Ending
    <3>1. f = "close"
      BY <2>4
    <3>2. CASE k = n + 1
      BY <2>3, <3>1, <3>2
    <3>3. CASE k # n + 1
      <4>1. i \in Closes(v) /\ i \in 1 .. n + 1 /\ k \in 1 .. n /\ i \in 1 .. n
        BY <2>3, <3>3 DEF Closes
      <4>2. i \in Closes(w)
        BY <2>3, <2>4, <3>1, <4>1
      <4>3. w.out[k] = "close"
        BY <2>1, <4>1, <4>2 DEF Ending, n
      <4>4. QED
        BY <2>3, <4>1, <4>3
    <3>4. QED
      BY <3>2, <3>3
  <2>7. Sound(v)
    BY <2>2, <2>5, <2>6 DEF Sound
  <2>8. QED
    BY <1>2, <2>2, <2>4, <2>7 DEF v
<1>3. QED
  BY <1>1, <1>2

\* Calling close_fn changes none of what the invariant looks at.
LEMMA CloseFnGood ==
    ASSUME NEW w, Good(w, broken)
    PROVE  Good(CloseFn(w), broken) /\ CloseFn(w).state = w.state
<1>1. w \in Contexts
  BY DEF Good, Sound
<1>2. /\ CloseFn(w) \in Contexts
      /\ CloseFn(w).state = w.state
      /\ CloseFn(w).out = w.out
      /\ CloseFn(w).forced = w.forced
      /\ CloseFn(w).history = w.history
      /\ CloseFn(w).close_events = w.close_events
  BY <1>1 DEF CloseFn, Contexts
<1>3. Closes(CloseFn(w)) = Closes(w)
  BY <1>2 DEF Closes
<1>4. Path(CloseFn(w)) /\ Ending(CloseFn(w))
  BY <1>2, <1>3 DEF Good, Sound, Path, Ending
<1>5. QED
  BY <1>2, <1>3, <1>4 DEF Good, Sound
-----------------------------------------------------------------------------
(* The operations.                                                         *)

\* A frame that is no close frame is sent over an open connection only.
LEMMA EmitOpen ==
    ASSUME NEW w, Good(w, broken), w.state = "open", NEW f \in Opcodes, f # "close"
    PROVE  Live(Emit(w, f))
<1>1. Sound(w) /\ Closes(w) = {}
  BY DEF Good
<1>2. QED
  BY <1>1, EmitSound DEF Good, Live

\* send, send_ping and send_pong act on an open connection only.
LEMMA SendLive ==
    ASSUME NEW w, Live(w)
    PROVE  Live(send(w)) /\ Live(send_ping(w)) /\ Live(send_pong(w))
  BY EmitOpen DEF Live, send, send_ping, send_pong, Opcodes

\* The frame that completes a half-done close.
LEMMA EmitClose ==
    ASSUME NEW w, Half(w)
    PROVE  Live(Emit(w, "close")) /\ Emit(w, "close").state = w.state
<1>1. /\ Sound(Emit(w, "close"))
      /\ Emit(w, "close").state = w.state
      /\ Emit(w, "close").forced = w.forced
      /\ ~broken => Closes(Emit(w, "close")) # {}
      /\ Closes(w) = {} => \A i, k \in Closes(Emit(w, "close")) : i = k
  BY EmitSound DEF Half, Opcodes
<1>2. QED
  BY <1>1 DEF Half, Good, Live

\* What force_close leaves, before close_fn.
Forced(w) == Emit([Move(w, "closed") EXCEPT !.forced = TRUE], "close")

\* The frame of a forced close may be a second one.
LEMMA ForcedSound ==
    ASSUME NEW w, Sound(w)
    PROVE  /\ Good(Forced(w), broken)
           /\ Half(Forced(w))
           /\ Forced(w).state = "closed"
<1> DEFINE m == Move(w, "closed")
           v == [m EXCEPT !.forced = TRUE]
<1>1. Sound(m) /\ m.state = "closed"
  BY MoveSound DEF States
<1> HIDE DEF m
<1>2. m \in Contexts
  BY <1>1 DEF Sound
<1>3. /\ v \in Contexts
      /\ v.state = "closed"
      /\ v.forced = TRUE
      /\ v.out = m.out
      /\ v.history = m.history
      /\ v.close_events = m.close_events
  BY <1>1, <1>2 DEF Contexts
<1> HIDE DEF v
<1>4. Closes(v) = Closes(m)
  BY <1>3 DEF Closes
<1>5. Path(v) /\ Ending(v)
  BY <1>1, <1>3, <1>4 DEF Sound, Path, Ending
<1>6. Half(v)
  BY <1>3, <1>5 DEF Half, Sound
<1>7. Live(Emit(v, "close")) /\ Emit(v, "close").state = "closed" /\ Emit(v, "close").forced = TRUE
  BY <1>3, <1>6, EmitClose, EmitSound DEF Half, Opcodes
<1>8. Forced(w) = Emit(v, "close")
  BY DEF Forced, v, m
<1>9. QED
  BY <1>7, <1>8 DEF Live, Good, Half

\* force_close leads to a sound end from every sound context.
LEMMA ForceCloseLive ==
    ASSUME NEW w, Sound(w)
    PROVE  Live(force_close(w)) /\ Half(force_close(w)) /\ force_close(w).state = "closed"
<1>1. force_close(w) = CloseFn(Forced(w))
  BY DEF force_close, Forced
<1>2. /\ Good(CloseFn(Forced(w)), broken)
      /\ CloseFn(Forced(w)).state = "closed"
  BY ForcedSound, CloseFnGood
<1>3. Forced(w) \in Contexts /\ Half(Forced(w))
  BY ForcedSound DEF Half, Sound
<1>4. CloseFn(Forced(w)).forced = Forced(w).forced /\ CloseFn(Forced(w)).out = Forced(w).out
  BY <1>3 DEF CloseFn, Contexts
<1>5. Closes(CloseFn(Forced(w))) = Closes(Forced(w))
  BY <1>4 DEF Closes
<1>6. QED
  BY <1>1, <1>2, <1>3, <1>4, <1>5 DEF Live, Half, Good

\* A close that began: with the handler of state changes run, the close frame
\* is still to be sent, unless the handler forced the close.
LEMMA ToClosingHalf ==
    ASSUME NEW w, Good(w, broken), w.state = "open"
    PROVE  Half(ToClosing(w))
<1> DEFINE m == Move(w, "closing")
<1>1. Sound(w) /\ Closes(w) = {} /\ is_valid_state_transition(w.state, "closing")
  BY DEF Good, is_valid_state_transition
<1>2. ~(w.close_events > 0)
  BY <1>1 DEF Sound
<1>3. Sound(m) /\ m.state = "closing" /\ Closes(m) = {}
  BY <1>1, <1>2, MoveSound DEF States
<1>4. Half(m)
  BY <1>3 DEF Half
<1>5. Half(force_close(m))
  BY <1>3, ForceCloseLive
<1>6. send(m) = m
  BY <1>3 DEF send
<1> HIDE DEF m
<1>7. ToClosing(w) \in {m, send(m), force_close(m)}
  BY <1>1 DEF ToClosing, m
<1>8. QED
  BY <1>4, <1>5, <1>6, <1>7

\* A change to closed keeps the handshake where it is done, or where the
\* socket is gone.
LEMMA ToClosedGood ==
    ASSUME NEW w, NEW gone \in BOOLEAN, Good(w, broken),
           w.state \in {"closing", "closed"} \/ gone, broken => gone
    PROVE  Good(ToClosed(w), gone) /\ ToClosed(w).state = "closed"
<1>1. Sound(w) /\ w.state \in States
  BY DEF Good, Sound, Contexts
<1>2. CASE is_valid_state_transition(w.state, "closed")
  <2>1. ToClosed(w) = Move(w, "closed")
    BY <1>2 DEF ToClosed
  <2>2. /\ Sound(Move(w, "closed"))
        /\ Move(w, "closed").state = "closed"
        /\ Move(w, "closed").forced = w.forced
        /\ Closes(Move(w, "closed")) = Closes(w)
    BY <1>1, MoveSound DEF States
  <2>3. QED
    BY <2>1, <2>2 DEF Good
<1>3. CASE ~is_valid_state_transition(w.state, "closed")
  <2>1. ToClosed(w) = w /\ w.state = "closed"
    BY <1>1, <1>3 DEF ToClosed, is_valid_state_transition, States
  <2>2. QED
    BY <2>1 DEF Good
<1>4. QED
  BY <1>2, <1>3

\* close, with the handler of state changes inside it.
LEMMA CloseLive ==
    ASSUME NEW w, Live(w)
    PROVE  Live(close(w))
<1>1. CASE w.state \in {"closed", "closing"}
  BY <1>1 DEF close
<1>2. CASE w.state \notin {"closed", "closing"}
  <2>1. w.state = "open" /\ Good(w, broken)
    BY <1>2 DEF Live, Good, Sound, Contexts, States
  <2>2. Live(Emit(ToClosing(w), "close"))
    BY <2>1, ToClosingHalf, EmitClose
  <2>3. Live(CloseFn(Emit(ToClosing(w), "close")))
    BY <2>2, CloseFnGood DEF Live
  <2>4. QED
    BY <1>2, <2>3 DEF close
<1>3. QED
  BY <1>1, <1>2

\* initiate_close, with the handler of state changes inside it.
LEMMA InitiateLive ==
    ASSUME NEW w, Live(w), NEW code
    PROVE  Live(initiate_close(w, code))
  BY ToClosingHalf, EmitClose DEF initiate_close, Live

\* complete_close ends a handshake that began.
LEMMA CompleteLive ==
    ASSUME NEW w, Live(w), broken \in BOOLEAN
    PROVE  Live(complete_close(w))
<1>1. CASE w.state = "closing"
  BY <1>1, ToClosedGood DEF complete_close, Live
<1>2. QED
  BY <1>1 DEF complete_close

\* Whatever a callback does.
LEMMA UsesLive ==
    ASSUME NEW w, Live(w), NEW v \in Uses(w)
    PROVE  Live(v)
<1>1. Live(force_close(w))
  BY ForceCloseLive DEF Live, Good
<1>2. QED
  BY <1>1, SendLive, CloseLive, InitiateLive DEF Uses

\* The opened connection, after the handler of state changes.
LEMMA ToOpenLive ==
    ASSUME NEW w, Good(w, broken), w.state = "connecting"
    PROVE  Live(ToOpen(w))
<1> DEFINE m == Move(w, "open")
<1>1. Sound(w) /\ Closes(w) = {} /\ is_valid_state_transition(w.state, "open")
  BY DEF Good, is_valid_state_transition
<1>2. ~(w.close_events > 0)
  BY <1>1 DEF Sound
<1>3. Sound(m) /\ m.state = "open" /\ Closes(m) = {}
  BY <1>1, <1>2, MoveSound DEF States
<1>4. Live(m)
  BY <1>3 DEF Live, Good
<1> HIDE DEF m
<1>5. Live(send(m)) /\ Live(close(m)) /\ Live(force_close(m))
  BY <1>3, <1>4, SendLive, CloseLive, ForceCloseLive
<1>6. ToOpen(w) \in {m, send(m), close(m), force_close(m)}
  BY <1>1 DEF ToOpen, m
<1>7. QED
  BY <1>4, <1>5, <1>6
-----------------------------------------------------------------------------
(* Incoming frames.                                                        *)

\* Contexts that differ in what was delivered only.
LEMMA SameLive ==
    ASSUME NEW w, Live(w), NEW v \in Contexts,
           v.state = w.state, v.out = w.out, v.forced = w.forced, v.history = w.history,
           v.close_events > 0 => v.state = "closed"
    PROVE  Live(v)
<1>1. Closes(v) = Closes(w)
  BY DEF Closes
<1>2. Path(v) /\ Ending(v)
  BY <1>1 DEF Live, Good, Sound, Path, Ending
<1>3. QED
  BY <1>1, <1>2 DEF Live, Good, Sound

\* The peer's close frame is answered once, and ends the connection.
LEMMA HandleCloseLive ==
    ASSUME NEW w, Live(w), broken \in BOOLEAN
    PROVE  Live(handle_close_frame(w)) /\ handle_close_frame(w).state = "closed"
<1> DEFINE m == IF w.state = "open" THEN Emit(ToClosing(w), "close") ELSE w
<1>1. Good(m, broken) /\ m.state \in {"closing", "closed"}
  <2>1. CASE w.state = "open"
    <3>1. Half(ToClosing(w))
      BY <2>1, ToClosingHalf DEF Live
    <3>2. QED
      BY <2>1, <3>1, EmitClose DEF Live, Half
  <2>2. CASE w.state # "open"
    BY <2>2 DEF Live, Good, Sound, Contexts, States
  <2>3. QED
    BY <2>1, <2>2
<1> HIDE DEF m
<1>2. Good(ToClosed(m), broken) /\ ToClosed(m).state = "closed"
  BY <1>1, ToClosedGood
<1>3. handle_close_frame(w) = ToClosed(m)
  BY DEF handle_close_frame, m
<1>4. QED
  BY <1>2, <1>3 DEF Live

\* Every frame, with whatever its callback does.
LEMMA ProcessLive ==
    ASSUME NEW w, Live(w), broken \in BOOLEAN, NEW frame \in Frames,
           NEW v \in process_ws_message(frame, w)
    PROVE  Live(v)
<1>0. w \in Contexts
  BY DEF Live, Good, Sound
<1>1. CASE frame.op = "data"
  <2> DEFINE longer == Append(w.messages, frame.size)
             told == [w EXCEPT !.messages = longer]
  <2>1. frame.size \in Sizes /\ w.messages \in Seq(Sizes)
    BY <1>0, <1>1 DEF Frames, Contexts
  <2>2. longer \in Seq(Sizes)
    BY <2>1
  <2>3. v \in Uses(told)
    BY <1>1 DEF process_ws_message
  <2> HIDE DEF longer
  <2>4. /\ told \in Contexts
        /\ told.state = w.state /\ told.out = w.out /\ told.forced = w.forced
        /\ told.history = w.history /\ told.close_events = w.close_events
    BY <1>0, <2>2 DEF Contexts
  <2> HIDE DEF told
  <2>5. Live(told)
    BY <2>4, SameLive DEF Live, Good, Sound
  <2>6. QED
    BY <2>3, <2>5, UsesLive
<1>2. CASE frame.op = "close"
  <2> DEFINE c == handle_close_frame(w)
             told == [c EXCEPT !.close_events = c.close_events + 1]
  <2>1. Live(c) /\ c.state = "closed" /\ c \in Contexts
    BY HandleCloseLive DEF Live, Good, Sound
  <2>2. v \in Uses(told)
    BY <1>2 DEF process_ws_message
  <2> HIDE DEF c
  <2>3. /\ told \in Contexts
        /\ told.state = c.state /\ told.out = c.out /\ told.forced = c.forced
        /\ told.history = c.history
    BY <2>1 DEF Contexts
  <2> HIDE DEF told
  <2>4. Live(told)
    BY <2>1, <2>3, SameLive
  <2>5. QED
    BY <2>2, <2>4, UsesLive
<1>3. CASE frame.op \notin {"data", "close"}
  <2>1. v \in Uses(w) \cup {handle_ping(w), w}
    BY <1>3 DEF process_ws_message
  <2>2. QED
    BY <2>1, UsesLive, SendLive DEF handle_ping
<1>4. QED
  BY <1>1, <1>2, <1>3

\* Every frame, with the limit on its size.
LEMMA ReceivedLive ==
    ASSUME NEW w, Live(w), broken \in BOOLEAN, NEW frame \in Frames,
           NEW v \in process_ws_message_with_validation(frame, w)
    PROVE  Live(v)
<1>1. CASE TooBig(frame)
  <2>1. PICK u \in Uses(w) : v = force_close(u)
    BY <1>1 DEF process_ws_message_with_validation
  <2>2. Sound(u)
    BY UsesLive DEF Live, Good
  <2>3. QED
    BY <2>1, <2>2, ForceCloseLive
<1>2. CASE ~TooBig(frame)
  BY <1>2, ProcessLive DEF process_ws_message_with_validation
<1>3. QED
  BY <1>1, <1>2
-----------------------------------------------------------------------------
(* The specification.                                                      *)

\* The inbox at the beginning and after a disconnection.
LEMMA EmptyInbox == <<>> \in Seq(Frames)
  OBVIOUS

\* A new context satisfies the invariant.
LEMMA InitIInv == create_ws_context => IInv
<1> SUFFICES ASSUME create_ws_context PROVE IInv
  OBVIOUS
<1>1. /\ ws \in Contexts
      /\ ws.state = "connecting" /\ ws.history = <<>> /\ ws.out = <<>> /\ ws.close_events = 0
  BY DEF create_ws_context, NewContext, Contexts, States
<1>2. Closes(ws) = {}
  BY <1>1 DEF Closes
<1>3. Path(ws) /\ Ending(ws)
  BY <1>1, <1>2 DEF Path, Ending
<1>4. Good(ws, broken)
  BY <1>1, <1>2, <1>3 DEF Good, Sound
<1>5. QED
  BY <1>4, EmptyInbox DEF create_ws_context, IInv

\* Every step preserves the invariant.
LEMMA NextIInv == IInv /\ [WsNext]_wsVars => IInv'
<1> SUFFICES ASSUME IInv, [WsNext]_wsVars PROVE IInv'
  OBVIOUS
<1>0. /\ Good(ws, broken) /\ broken \in BOOLEAN /\ inbox \in Seq(Frames)
      /\ ws.state = "connecting" => inbox = <<>>
  BY DEF IInv
<1>1. CASE Opened
  <2>1. Live(ToOpen(ws)) /\ ws' = ToOpen(ws) /\ broken' = broken /\ inbox' = inbox
    BY <1>0, <1>1, ToOpenLive DEF Opened
  <2>2. QED
    BY <1>0, <2>1 DEF Live, IInv
<1>2. CASE Refused
  <2>1. Good(ToClosed(ws), TRUE) /\ ToClosed(ws).state = "closed"
    BY <1>0, ToClosedGood
  <2>2. ws' = ToClosed(ws) /\ broken' = TRUE /\ inbox' = inbox
    BY <1>2 DEF Refused
  <2>3. QED
    BY <1>0, <2>1, <2>2 DEF IInv
<1>3. CASE Application
  <2>1. Live(ws) /\ broken' = broken /\ inbox' = inbox /\ ws' \in Uses(ws) \cup {complete_close(ws)}
    BY <1>0, <1>3 DEF Application, Live
  <2>2. Live(ws')
    BY <1>0, <2>1, UsesLive, CompleteLive
  <2>3. QED
    BY <1>0, <2>1, <2>2 DEF Live, IInv
<1>4. CASE Receive
  <2>1. /\ inbox # <<>> /\ inbox' = Tail(inbox) /\ broken' = broken
        /\ ws' \in process_ws_message_with_validation(Head(inbox), ws)
    BY <1>4 DEF Receive
  <2>2. Head(inbox) \in Frames /\ Tail(inbox) \in Seq(Frames) /\ Live(ws)
    BY <1>0, <2>1 DEF Live
  <2>3. Live(ws')
    BY <1>0, <2>1, <2>2, ReceivedLive
  <2>4. QED
    BY <1>0, <2>1, <2>2, <2>3 DEF Live, IInv
<1>5. ASSUME NEW f \in Frames, PeerSends(f)
      PROVE  IInv'
  <2>1. ws' = ws /\ broken' = broken /\ inbox' = Append(inbox, f) /\ ws.state # "connecting"
    BY <1>5 DEF PeerSends
  <2>2. QED
    BY <1>0, <2>1 DEF IInv
<1>6. CASE PeerCloses
  <2>1. ws' = ws /\ broken' = broken /\ inbox' = Append(inbox, [op |-> "close"])
    BY <1>6 DEF PeerCloses
  <2>2. Closes(ws) # {}
    BY <1>6 DEF PeerCloses, Closes
  <2>3. ws.state # "connecting"
    BY <1>0, <2>2 DEF Good
  <2>4. [op |-> "close"] \in Frames
    BY DEF Frames
  <2>5. QED
    BY <1>0, <2>1, <2>3, <2>4 DEF IInv
<1>7. CASE Disconnect
  <2>1. Good(ToClosed(ws), TRUE) /\ ToClosed(ws).state = "closed"
    BY <1>0, ToClosedGood
  <2>2. ws' = ToClosed(ws) /\ broken' = TRUE /\ inbox' = <<>>
    BY <1>7 DEF Disconnect
  <2>3. QED
    BY <2>1, <2>2, EmptyInbox DEF IInv
<1>8. CASE UNCHANGED wsVars
  <2>1. ws' = ws /\ broken' = broken /\ inbox' = inbox
    BY <1>8 DEF wsVars
  <2>2. QED
    BY <1>0, <2>1 DEF IInv
<1>9. QED
  BY <1>1, <1>2, <1>3, <1>4, <1>5, <1>6, <1>7, <1>8 DEF WsNext

\* The invariant holds in every reachable state.
LEMMA InvariantHolds == WsSpec => []IInv
<1>1. QED
  BY InitIInv, NextIInv, PTL DEF WsSpec

\* The close handshake is neither repeated nor skipped, whatever arrives and
\* whatever the handler of state changes and the callbacks call inside an
\* operation (transition_state, close, handle_close_frame, force_close).
THEOREM HandshakeHolds == WsSpec => []CloseHandshake
<1>1. IInv => CloseHandshake
  <2> SUFFICES ASSUME IInv PROVE CloseHandshake
    OBVIOUS
  <2>1. CloseFrames = Closes(ws)
    BY DEF CloseFrames, Closes
  <2>2. /\ Ending(ws)
        /\ ws.close_events > 0 => ws.state = "closed"
        /\ ~broken /\ ws.state \in {"closing", "closed"} => Closes(ws) # {}
        /\ ~ws.forced => \A i, k \in Closes(ws) : i = k
    BY DEF IInv, Good, Sound
  <2>3. QED
    BY <2>1, <2>2 DEF CloseHandshake, Ending
<1>2. QED
  BY <1>1, InvariantHolds, PTL

\* The recorded history of state changes is one legal path that ends in the
\* current state, also when changes are made inside changes (transition_state,
\* force_transition_state).
THEOREM HistoryHolds == WsSpec => []HistoryConsistent
<1>1. IInv => HistoryConsistent
  BY DEF IInv, Good, Sound, Path, HistoryConsistent
<1>2. QED
  BY <1>1, InvariantHolds, PTL
-----------------------------------------------------------------------------
(* Message sizes.                                                          *)

\* No operation touches the messages that were delivered.
Same(v, w) == DOMAIN v = DOMAIN w /\ v.messages = w.messages

\* The updates operations are made of.
LEMMA UpdatesSame ==
    ASSUME NEW w, "messages" \in DOMAIN w
    PROVE  /\ \A f : Same(Emit(w, f), w)
           /\ \A new : Same(Move(w, new), w)
           /\ Same(CloseFn(w), w)
           /\ Same([w EXCEPT !.forced = TRUE], w)
           /\ Same([w EXCEPT !.close_events = @ + 1], w)
  BY DEF Emit, Move, CloseFn, Same

\* The operations.
LEMMA OperationsSame ==
    ASSUME NEW w, "messages" \in DOMAIN w
    PROVE  /\ Same(w, w)
           /\ Same(send(w), w) /\ Same(send_ping(w), w) /\ Same(send_pong(w), w)
           /\ Same(force_close(w), w)
           /\ Same(ToClosing(w), w)
           /\ Same(ToClosed(w), w)
<1>1. Same(w, w)
  BY DEF Same
<1>2. ASSUME NEW x, "messages" \in DOMAIN x PROVE Same(send(x), x)
  BY <1>2, UpdatesSame DEF send, Same
<1>3. Same(send_ping(w), w) /\ Same(send_pong(w), w)
  BY <1>1, UpdatesSame DEF send_ping, send_pong
<1>4. ASSUME NEW x, "messages" \in DOMAIN x PROVE Same(force_close(x), x)
  <2>1. PICK a : a = Move(x, "closed") /\ Same(a, x)
    BY <1>4, UpdatesSame
  <2>2. PICK b : b = [a EXCEPT !.forced = TRUE] /\ Same(b, a)
    BY <1>4, <2>1, UpdatesSame DEF Same
  <2>3. PICK c : c = Emit(b, "close") /\ Same(c, b)
    <3>1. "messages" \in DOMAIN b
      BY <1>4, <2>1, <2>2 DEF Same
    <3>2. QED
      BY <3>1, UpdatesSame
  <2>4. force_close(x) = CloseFn(c) /\ Same(CloseFn(c), c)
    <3>1. "messages" \in DOMAIN c
      BY <1>4, <2>1, <2>2, <2>3 DEF Same
    <3>2. QED
      BY <2>1, <2>2, <2>3, <3>1, UpdatesSame DEF force_close
  <2>5. QED
    BY <2>1, <2>2, <2>3, <2>4 DEF Same
<1>5. Same(ToClosing(w), w)
  <2>1. PICK m : m = Move(w, "closing") /\ Same(m, w) /\ "messages" \in DOMAIN m
    BY UpdatesSame DEF Same
  <2>2. Same(send(m), w) /\ Same(force_close(m), w)
    BY <1>2, <1>4, <2>1 DEF Same
  <2>3. ToClosing(w) \in {w, m, send(m), force_close(m)}
    BY <2>1 DEF ToClosing
  <2>4. QED
    BY <1>1, <2>1, <2>2, <2>3
<1>6. Same(ToClosed(w), w)
  BY <1>1, UpdatesSame DEF ToClosed
<1>7. QED
  BY <1>1, <1>2, <1>3, <1>4, <1>5, <1>6

\* The closing operations, and what a callback may do.
LEMMA ClosingSame ==
    ASSUME NEW w, "messages" \in DOMAIN w
    PROVE  /\ Same(close(w), w) /\ Same(complete_close(w), w) /\ Same(ToOpen(w), w)
           /\ Same(handle_close_frame(w), w)
           /\ \A v \in Uses(w) : Same(v, w)
<1>1. ASSUME NEW x, "messages" \in DOMAIN x PROVE Same(Emit(ToClosing(x), "close"), x)
  <2>1. PICK m : m = ToClosing(x) /\ Same(m, x) /\ "messages" \in DOMAIN m
    BY <1>1, OperationsSame DEF Same
  <2>2. Same(Emit(m, "close"), m)
    BY <2>1, UpdatesSame
  <2>3. QED
    BY <2>1, <2>2 DEF Same
<1>2. ASSUME NEW x, "messages" \in DOMAIN x PROVE Same(close(x), x)
  <2>1. PICK m : m = Emit(ToClosing(x), "close") /\ Same(m, x) /\ "messages" \in DOMAIN m
    BY <1>1, <1>2 DEF Same
  <2>2. Same(CloseFn(m), x)
    BY <2>1, UpdatesSame DEF Same
  <2>3. close(x) = x \/ close(x) = CloseFn(m)
    BY <2>1 DEF close
  <2>4. QED
    BY <2>2, <2>3 DEF Same
<1>3. Same(complete_close(w), w)
  BY OperationsSame DEF complete_close
<1>4. Same(ToOpen(w), w)
  <2>1. PICK m : m = Move(w, "open") /\ Same(m, w) /\ "messages" \in DOMAIN m
    BY UpdatesSame DEF Same
  <2>2. Same(send(m), w) /\ Same(close(m), w) /\ Same(force_close(m), w)
    BY <1>2, <2>1, OperationsSame DEF Same
  <2>3. ToOpen(w) \in {w, m, send(m), close(m), force_close(m)}
    BY <2>1 DEF ToOpen
  <2>4. QED
    BY <2>1, <2>2, <2>3, OperationsSame
<1>5. Same(handle_close_frame(w), w)
  <2>1. PICK m : m = (IF w.state = "open" THEN Emit(ToClosing(w), "close") ELSE w)
    OBVIOUS
  <2>2. Same(m, w) /\ "messages" \in DOMAIN m
    BY <1>1, <2>1 DEF Same
  <2>3. Same(ToClosed(m), m)
    BY <2>2, OperationsSame
  <2>4. handle_close_frame(w) = ToClosed(m)
    BY <2>1, Zenon DEF handle_close_frame
  <2>5. QED
    BY <2>2, <2>3, <2>4 DEF Same
<1>6. ASSUME NEW v \in Uses(w) PROVE Same(v, w)
  <2>1. \A c : Same(initiate_close(w, c), w)
    BY <1>1, OperationsSame DEF initiate_close
  <2>2. QED
    BY <1>2, <1>6, <2>1, OperationsSame DEF Uses
<1>7. QED
  BY <1>2, <1>3, <1>4, <1>5, <1>6

\* Of the messages of a context those above the limit are too long for an int.
Bounded(w) ==
    MaxSize > 0 => \A i \in DOMAIN w.messages : w.messages[i] <= MaxSize \/ w.messages[i] >= IntRange

\* A size that fits an int is read as it is.
LEMMA AsIntFits == ASSUME NEW size \in Nat, size < IntRange PROVE AsInt(size) = size
<1>1. PICK m \in Nat : m = 2 * IntRange /\ m > 0 /\ IntRange \in Nat
  BY WebSocketAssumption
<1>2. PICK a \in Nat : a = size + IntRange
  BY <1>1
<1>3. a < m
  BY <1>1, <1>2
<1>4. a % m = a
  BY <1>1, <1>3
<1>5. QED
  BY <1>1, <1>2, <1>4 DEF AsInt

\* A message that is delivered is within the limit or too long for an int.
LEMMA DeliveredBounded ==
    ASSUME NEW w, w \in Contexts, Bounded(w), NEW frame \in Frames, ~TooBig(frame),
           NEW v \in process_ws_message(frame, w)
    PROVE  Bounded(v)
<1>0. "messages" \in DOMAIN w /\ w.messages \in Seq(Sizes)
  BY DEF Contexts
<1>1. CASE frame.op = "data"
  <2>1. PICK size \in Sizes : size = frame.size
    BY <1>1 DEF Frames
  <2>2. PICK d : d = [w EXCEPT !.messages = Append(@, size)]
    OBVIOUS
  <2>3. DOMAIN d = DOMAIN w /\ d.messages = Append(w.messages, size)
    BY <1>0, <2>2
  <2>4. size \in Nat /\ MaxSize \in Nat /\ IntRange \in Nat
    BY WebSocketAssumption
  <2>5. MaxSize > 0 => size <= MaxSize \/ size >= IntRange
    <3>1. CASE size < IntRange
      <4>1. AsInt(size) = size
        BY <2>4, <3>1, AsIntFits
      <4>2. MaxSize > 0 => ~(AsInt(size) > MaxSize)
        BY <1>1, <2>1 DEF TooBig
      <4>3. QED
        BY <2>4, <4>1, <4>2
    <3>2. QED
      BY <2>4, <3>1
  <2>6. Bounded(d)
    <3> SUFFICES ASSUME MaxSize > 0, NEW i \in DOMAIN d.messages
                 PROVE  d.messages[i] <= MaxSize \/ d.messages[i] >= IntRange
      BY DEF Bounded
    <3>1. i \in DOMAIN w.messages \/ d.messages[i] = size
      BY <1>0, <2>3
    <3>2. CASE i \in DOMAIN w.messages
      <4>1. d.messages[i] = w.messages[i]
        BY <1>0, <2>3, <3>2
      <4>2. QED
        BY <3>2, <4>1 DEF Bounded
    <3>3. QED
      BY <2>5, <3>1, <3>2
  <2>7. v \in Uses(d)
    BY <1>1, <2>1, <2>2 DEF process_ws_message
  <2>8. Same(v, d)
    BY <1>0, <2>3, <2>7, ClosingSame
  <2>9. QED
    BY <2>6, <2>8 DEF Bounded, Same
<1>2. CASE frame.op # "data"
  <2>1. Same(v, w)
    <3>1. PICK c : c = [handle_close_frame(w) EXCEPT !.close_events = @ + 1] /\ Same(c, w)
      <4>1. PICK b : b = handle_close_frame(w) /\ Same(b, w) /\ "messages" \in DOMAIN b
        BY <1>0, ClosingSame DEF Same
      <4>2. PICK c : c = [b EXCEPT !.close_events = @ + 1]
        OBVIOUS
      <4>3. Same(c, b)
        BY <4>1, <4>2, UpdatesSame
      <4>4. QED
        BY <4>1, <4>2, <4>3 DEF Same
    <3>2. \/ v \in Uses(c) \/ v = handle_ping(w) \/ v \in Uses(w) \/ v = w
      BY <1>2, <3>1 DEF process_ws_message
    <3>3. "messages" \in DOMAIN c
      BY <1>0, <3>1 DEF Same
    <3>4. CASE v \in Uses(c)
      BY <3>1, <3>3, <3>4, ClosingSame DEF Same
    <3>5. CASE v = handle_ping(w) \/ v \in Uses(w) \/ v = w
      BY <1>0, <3>5, ClosingSame, OperationsSame DEF handle_ping
    <3>6. QED
      BY <3>2, <3>4, <3>5
  <2>2. QED
    BY <2>1 DEF Bounded, Same
<1>3. QED
  BY <1>1, <1>2

\* Every step keeps the messages bounded.
LEMMA BoundedNext == IInv /\ Bounded(ws) /\ [WsNext]_wsVars => Bounded(ws)'
<1> SUFFICES ASSUME IInv, Bounded(ws), [WsNext]_wsVars PROVE Bounded(ws')
  BY DEF Bounded
<1>0. ws \in Contexts /\ "messages" \in DOMAIN ws /\ inbox \in Seq(Frames)
  BY DEF IInv, Good, Sound, Contexts
<1>1. CASE Same(ws', ws)
  BY <1>1 DEF Bounded, Same
<1>2. CASE Opened \/ Refused \/ Disconnect
  <2>1. Same(ws', ws)
    BY <1>0, <1>2, ClosingSame, OperationsSame DEF Opened, Refused, Disconnect
  <2>2. QED
    BY <1>1, <2>1
<1>3. CASE Application
  <2>1. Same(ws', ws)
    BY <1>0, <1>3, ClosingSame DEF Application
  <2>2. QED
    BY <1>1, <2>1
<1>4. CASE Receive
  <2>1. PICK frame \in Frames : frame = Head(inbox)
    BY <1>0, <1>4 DEF Receive
  <2>2. ws' \in process_ws_message_with_validation(frame, ws)
    BY <1>4, <2>1 DEF Receive
  <2>3. CASE TooBig(frame)
    <3>1. PICK v \in Uses(ws) : ws' = force_close(v)
      BY <2>2, <2>3 DEF process_ws_message_with_validation
    <3>2. Same(v, ws) /\ "messages" \in DOMAIN v
      BY <1>0, ClosingSame DEF Same
    <3>3. Same(force_close(v), v)
      BY <3>2, OperationsSame
    <3>4. Same(ws', ws)
      BY <3>1, <3>2, <3>3 DEF Same
    <3>5. QED
      BY <1>1, <3>4
  <2>4. CASE ~TooBig(frame)
    <3>1. ws' \in process_ws_message(frame, ws)
      BY <2>2, <2>4 DEF process_ws_message_with_validation
    <3>2. QED
      BY <1>0, <2>4, <3>1, DeliveredBounded
  <2>5. QED
    BY <2>3, <2>4
<1>5. CASE UNCHANGED ws
  BY <1>5
<1>6. QED
  BY <1>2, <1>3, <1>4, <1>5 DEF WsNext, PeerSends, PeerCloses, wsVars

\* process_ws_message_with_validation (websocket.v): with a limit set, no message
\* above it whose size an int can hold reaches the application, whatever frames,
\* calls and losses precede it.
THEOREM BoundHolds == WsSpec => []MessagesBounded
<1>1. create_ws_context => IInv /\ Bounded(ws)
  BY InitIInv DEF create_ws_context, NewContext, Bounded
<1>2. IInv /\ Bounded(ws) /\ [WsNext]_wsVars => (IInv /\ Bounded(ws))'
  BY NextIInv, BoundedNext
<1>3. Bounded(ws) => MessagesBounded
  BY DEF Bounded, MessagesBounded
<1>4. QED
  BY <1>1, <1>2, <1>3, PTL DEF WsSpec

=============================================================================
