--------------------------- MODULE Routers_proofs ---------------------------
(***************************************************************************)
(* The routers and their caches, for any patterns, paths, capacities and   *)
(* numbers of routes.                                                      *)
(***************************************************************************)
EXTENDS Routers, FiniteSetTheorems, SequenceTheorems, WellFoundedInduction, TLAPS

Found_or_None == Handlers \cup {None}

RTypes ==
    /\ registered \in Nat
    /\ fast_static \in [Methods \X Patterns -> Found_or_None]
    /\ hyb_static \in [Methods \X Patterns -> Found_or_None]
    /\ fast_cache \in [Requests -> Found_or_None]
    /\ fast_dynamic \in Seq(Route) /\ hyb_dynamic \in Seq(Route)
    /\ lru_cache \in Seq(Requests \X Handlers) /\ hyb_cache \in Seq(Requests \X Handlers)

\* Registrations have numbers of their own.
Distinct(routes, n) ==
    /\ \A i \in DOMAIN routes : routes[i].handler <= n
    /\ \A i, j \in DOMAIN routes : routes[i].handler = routes[j].handler => i = j

Order ==
    /\ Distinct(fast_dynamic, registered) /\ Distinct(hyb_dynamic, registered)
    /\ sort_enabled => Sorted(fast_dynamic)

\* Every cached match is one of a route that matches, and the one the scan of
\* the routes gives unless it is stale.
GoodFast(c, k, h) == h \in FastMatching(k) /\ (h = fast_scan(k) \/ <<c, k>> \in stale)
GoodHybrid(k, h)  == h \in HybridMatching(k) /\ (h = hybrid_scan(k) \/ <<"hybrid", k>> \in stale)
Cache ==
    /\ \A k \in Requests : fast_cache[k] # None => GoodFast("fast", k, fast_cache[k])
    /\ \A i \in DOMAIN lru_cache : GoodFast("lru", lru_cache[i][1], lru_cache[i][2])
    /\ \A i \in DOMAIN hyb_cache : GoodHybrid(hyb_cache[i][1], hyb_cache[i][2])

\* A new application has no routes.
LEMMA RInit == Init => RTypes /\ Order /\ Cache
<1> SUFFICES ASSUME Init PROVE RTypes /\ Order /\ Cache
  OBVIOUS
<1>1. /\ fast_dynamic = <<>> /\ hyb_dynamic = <<>> /\ lru_cache = <<>> /\ hyb_cache = <<>>
      /\ registered = 0
  BY DEF Init
<1>2. RTypes
  <2>1. <<>> \in Seq(Route) /\ <<>> \in Seq(Requests \X Handlers) /\ 0 \in Nat /\ None \in Found_or_None
    BY DEF Found_or_None
  <2>2. /\ fast_static \in [Methods \X Patterns -> Found_or_None]
        /\ hyb_static \in [Methods \X Patterns -> Found_or_None]
        /\ fast_cache \in [Requests -> Found_or_None]
    BY <2>1 DEF Init
  <2>3. QED
    BY <1>1, <2>1, <2>2 DEF RTypes
<1>3. Order
  BY <1>1 DEF Order, Distinct, Sorted
<1>4. Cache
  BY <1>1 DEF Init, Cache
<1>5. QED
  BY <1>2, <1>3, <1>4

\* The cost of a route is a number.
LEMMA CostType == ASSUME NEW r \in Route PROVE Cost(r) \in Nat
<1>1. PICK pat \in Patterns : pat = r.pattern
  BY DEF Route
<1>2. pat \in Seq(STRING) /\ Len(pat) \in Nat /\ DOMAIN pat = 1 .. Len(pat)
  BY PatternAssumption
<1>3. IsFiniteSet(1 .. Len(pat))
  BY <1>2, FS_Interval
<1>4. ASSUME NEW seg PROVE Count(pat, seg) \in Nat
  <2>1. {i \in DOMAIN pat : pat[i] = seg} \subseteq 1 .. Len(pat)
    BY <1>2
  <2>2. QED
    BY <1>3, <2>1, FS_Subset, FS_CardinalityType DEF Count
<1>5. Count(pat, Param) \in Nat /\ Count(pat, Wildcard) \in Nat
  BY <1>4
<1>6. QED
  BY <1>1, <1>2, <1>5 DEF Cost, calculate_route_complexity

\* Sorting keeps the routes and leaves them sorted.
LEMMA SortKeeps ==
    ASSUME NEW routes \in Seq(Route), NEW n, Distinct(routes, n), NEW q \in sort_dynamic_routes(routes)
    PROVE  q \in Seq(Route) /\ Distinct(q, n) /\ Sorted(q) /\ Entries(routes) \subseteq Entries(q)
<1>1. PICK p \in [DOMAIN routes -> DOMAIN routes] :
        /\ \A i, j \in DOMAIN routes : p[i] = p[j] => i = j
        /\ Sorted([i \in DOMAIN routes |-> routes[p[i]]])
        /\ q = [i \in DOMAIN routes |-> routes[p[i]]]
  BY Zenon DEF sort_dynamic_routes
<1>2. DOMAIN routes = 1 .. Len(routes) /\ Len(routes) \in Nat
  OBVIOUS
<1>3. \A i \in DOMAIN routes : routes[p[i]] \in Route
  BY <1>1
<1>4. q \in [1 .. Len(routes) -> Route]
  BY <1>1, <1>2, <1>3
<1>5. q \in Seq(Route)
  BY <1>2, <1>4
<1>6. DOMAIN q = DOMAIN routes /\ \A i \in DOMAIN routes : q[i] = routes[p[i]] /\ p[i] \in DOMAIN routes
  BY <1>1
<1>7. Distinct(q, n)
  <2>1. \A i \in DOMAIN q : q[i].handler <= n
    BY <1>6 DEF Distinct
  <2>2. ASSUME NEW i \in DOMAIN q, NEW j \in DOMAIN q, q[i].handler = q[j].handler PROVE i = j
    <3>1. p[i] = p[j]
      BY <1>6, <2>2 DEF Distinct
    <3>2. QED
      BY <1>1, <1>6, <3>1
  <2>3. QED
    BY <2>1, <2>2 DEF Distinct
<1>8. Entries(routes) \subseteq Entries(q)
  <2>1. p \in Injection(DOMAIN routes, DOMAIN routes)
    BY <1>1 DEF Injection, IsInjective
  <2>2. IsFiniteSet(DOMAIN routes)
    BY <1>2, FS_Interval
  <2>3. p \in Surjection(DOMAIN routes, DOMAIN routes)
    BY <2>1, <2>2, FS_Injection, Zenon
  <2>4. \A t \in DOMAIN routes : \E i \in DOMAIN routes : p[i] = t
    BY <2>3 DEF Surjection
  <2>5. QED
    BY <1>6, <2>4 DEF Entries
<1>9. QED
  BY <1>1, <1>5, <1>7, <1>8

\* A registration goes behind the others.
LEMMA AppendKeeps ==
    ASSUME NEW routes \in Seq(Route), NEW n \in Nat, Distinct(routes, n),
           NEW r \in Route, r.handler = n + 1
    PROVE  /\ Append(routes, r) \in Seq(Route) /\ Distinct(Append(routes, r), n + 1)
           /\ Entries(routes) \subseteq Entries(Append(routes, r))
<1>1. PICK q : q = Append(routes, r)
  OBVIOUS
<1>2. /\ q \in Seq(Route) /\ DOMAIN q = 1 .. Len(routes) + 1 /\ Len(routes) \in Nat
      /\ q[Len(routes) + 1] = r /\ \A i \in 1 .. Len(routes) : q[i] = routes[i]
  BY <1>1
<1>3. \A i \in DOMAIN q : i = Len(routes) + 1 \/ i \in DOMAIN routes
  BY <1>2
<1>4. \A i \in DOMAIN routes : q[i] = routes[i] /\ routes[i].handler \in Nat /\ routes[i].handler <= n
  <2>1. SUFFICES ASSUME NEW i \in DOMAIN routes
                 PROVE  q[i] = routes[i] /\ routes[i].handler \in Nat /\ routes[i].handler <= n
    OBVIOUS
  <2>2. routes[i] \in Route /\ q[i] = routes[i]
    BY <1>2
  <2>3. routes[i].handler \in 1 .. MaxRoutes /\ MaxRoutes \in Nat
    BY <2>2, CapacityAssumption DEF Route, Handlers
  <2>4. QED
    BY <2>2, <2>3 DEF Distinct
<1>5. \A i \in DOMAIN q : q[i].handler <= n + 1
  BY <1>2, <1>3, <1>4
<1>6. ASSUME NEW i \in DOMAIN q, NEW j \in DOMAIN q, q[i].handler = q[j].handler PROVE i = j
  <2>1. CASE i = Len(routes) + 1 /\ j = Len(routes) + 1
    BY <2>1
  <2>2. CASE i \in DOMAIN routes /\ j \in DOMAIN routes
    BY <1>4, <1>6, <2>2 DEF Distinct
  <2>3. CASE i = Len(routes) + 1 /\ j \in DOMAIN routes
    BY <1>2, <1>4, <1>6, <2>3
  <2>4. CASE i \in DOMAIN routes /\ j = Len(routes) + 1
    BY <1>2, <1>4, <1>6, <2>4
  <2>5. QED
    BY <1>3, <2>1, <2>2, <2>3, <2>4
<1>7. Entries(routes) \subseteq Entries(q)
  BY <1>2 DEF Entries
<1>8. QED
  BY <1>1, <1>2, <1>5, <1>6, <1>7 DEF Distinct

\* A set of numbers has a least one.
LEMMA LeastNumber ==
    ASSUME NEW T, T \subseteq Nat, T # {}
    PROVE  \E f \in T : \A j \in T : f <= j
<1>1. PICK less : less = OpToRel(<, Nat)
  BY Zenon
<1>2. IsWellFoundedOn(less, Nat)
  BY <1>1, NatLessThanWellFounded, Zenon
<1>3. PICK f \in T : \A y \in T : <<y, f>> \notin less
  BY <1>2, WFMin, Zenon
<1>4. \A y \in T : ~(y < f)
  BY <1>1, <1>3 DEF OpToRel
<1>5. QED
  BY <1>4

\* The first hit of a scan.
LEMMA FirstHit ==
    ASSUME NEW routes \in Seq(Route), NEW hits, hits \subseteq DOMAIN routes, hits # {}
    PROVE  \E f \in hits : /\ \A j \in hits : f <= j
                           /\ First(routes, hits) = routes[f].handler
                           /\ First(routes, hits) \in Handlers
<1>1. hits \subseteq Nat
  OBVIOUS
<1>2. PICK f \in hits : \A j \in hits : f <= j
  BY <1>1, LeastNumber
<1>3. PICK c : c = CHOOSE i \in hits : \A j \in hits : i <= j
  OBVIOUS
<1>4. c \in hits /\ \A j \in hits : c <= j
  BY <1>2, <1>3, Zenon
<1>5. First(routes, hits) = routes[c].handler
  BY <1>3, Zenon DEF First
<1>6. routes[c].handler \in Handlers
  <2>1. routes[c] \in Route
    BY <1>4
  <2>2. QED
    BY <2>1 DEF Route
<1>7. QED
  BY <1>4, <1>5, <1>6, Zenon

\* The position a scan of the fast router finds.
LEMMA FastScan ==
    ASSUME RTypes, NEW k
    PROVE  \/ /\ fast_scan(k) = None
              /\ \A j \in DOMAIN fast_dynamic :
                    ~(fast_dynamic[j].method = k[1] /\ fast_matches(fast_dynamic[j].pattern, k[2]))
           \/ \E f \in DOMAIN fast_dynamic :
                /\ fast_dynamic[f].method = k[1] /\ fast_matches(fast_dynamic[f].pattern, k[2])
                /\ fast_scan(k) = fast_dynamic[f].handler /\ fast_scan(k) \in Handlers
                /\ \A j \in DOMAIN fast_dynamic :
                      fast_dynamic[j].method = k[1] /\ fast_matches(fast_dynamic[j].pattern, k[2]) => f <= j
<1>1. PICK hits : hits = {i \in DOMAIN fast_dynamic :
                            fast_dynamic[i].method = k[1] /\ fast_matches(fast_dynamic[i].pattern, k[2])}
  OBVIOUS
<1>2. fast_scan(k) = First(fast_dynamic, hits)
  BY <1>1, Zenon DEF fast_scan
<1>3. CASE hits = {}
  <2>1. fast_scan(k) = None
    BY <1>2, <1>3, Zenon DEF First
  <2>2. QED
    BY <1>1, <1>3, <2>1
<1>4. CASE hits # {}
  <2>1. fast_dynamic \in Seq(Route) /\ hits \subseteq DOMAIN fast_dynamic
    BY <1>1 DEF RTypes
  <2>2. PICK f \in hits : /\ \A j \in hits : f <= j
                          /\ First(fast_dynamic, hits) = fast_dynamic[f].handler
                          /\ First(fast_dynamic, hits) \in Handlers
    BY <1>4, <2>1, FirstHit, Zenon
  <2>3. /\ f \in DOMAIN fast_dynamic
        /\ fast_dynamic[f].method = k[1] /\ fast_matches(fast_dynamic[f].pattern, k[2])
    BY <1>1
  <2>4. \A j \in DOMAIN fast_dynamic :
          fast_dynamic[j].method = k[1] /\ fast_matches(fast_dynamic[j].pattern, k[2]) => f <= j
    BY <1>1, <2>2
  <2>5. QED
    BY <1>2, <2>2, <2>3, <2>4, Zenon
<1>5. QED
  BY <1>3, <1>4

\* What a scan of the hybrid router finds is a handler of a route that matches.
LEMMA HybridScan ==
    ASSUME RTypes, NEW k
    PROVE  /\ hybrid_scan(k) \in Found_or_None
           /\ hybrid_scan(k) # None => hybrid_scan(k) \in HybridMatching(k)
<1>1. PICK hits : hits = {i \in DOMAIN hyb_dynamic : hybrid_matches(hyb_dynamic[i].pattern, k[2])}
  OBVIOUS
<1>2. hybrid_scan(k) = First(hyb_dynamic, hits)
  BY <1>1, Zenon DEF hybrid_scan
<1>3. CASE hits = {}
  BY <1>2, <1>3, Zenon DEF First, Found_or_None
<1>4. CASE hits # {}
  <2>1. hyb_dynamic \in Seq(Route) /\ hits \subseteq DOMAIN hyb_dynamic
    BY <1>1 DEF RTypes
  <2>2. PICK f \in hits : /\ First(hyb_dynamic, hits) = hyb_dynamic[f].handler
                          /\ First(hyb_dynamic, hits) \in Handlers
    BY <1>4, <2>1, FirstHit, Zenon
  <2>3. hyb_dynamic[f].handler \in HybridMatching(k)
    BY <1>1 DEF HybridMatching, Entries
  <2>4. QED
    BY <1>2, <2>2, <2>3 DEF Found_or_None
<1>5. QED
  BY <1>3, <1>4

\* What a scan of the fast router finds is a handler of a route that matches.
LEMMA FastScanMatches ==
    ASSUME RTypes, NEW k, fast_scan(k) # None
    PROVE  fast_scan(k) \in FastMatching(k)
<1>1. PICK f \in DOMAIN fast_dynamic :
        /\ fast_dynamic[f].method = k[1] /\ fast_matches(fast_dynamic[f].pattern, k[2])
        /\ fast_scan(k) = fast_dynamic[f].handler
  BY FastScan, Zenon
<1>2. fast_dynamic[f] \in Entries(fast_dynamic)
  BY DEF Entries
<1>3. QED
  BY <1>1, <1>2 DEF FastMatching

\* What an LRU cache holds for a key is one of its entries.
LEMMA CachedEntry ==
    ASSUME NEW cache \in Seq(Requests \X Handlers), NEW k
    PROVE  \/ Cached(cache, k) = None
           \/ \E i \in DOMAIN cache : cache[i][1] = k /\ Cached(cache, k) = cache[i][2]
<1>1. PICK hits : hits = {e \in Entries(cache) : e[1] = k}
  OBVIOUS
<1>2. CASE hits = {}
  BY <1>1, <1>2, Zenon DEF Cached
<1>3. CASE hits # {}
  <2>1. PICK c : c = CHOOSE e \in hits : TRUE
    OBVIOUS
  <2>2. c \in hits
    BY <1>3, <2>1, Zenon
  <2>3. Cached(cache, k) = c[2]
    BY <1>1, <1>3, <2>1, Zenon DEF Cached
  <2>4. PICK i \in DOMAIN cache : c = cache[i]
    BY <1>1, <2>2 DEF Entries
  <2>5. QED
    BY <1>1, <2>2, <2>3, <2>4
<1>4. QED
  BY <1>2, <1>3

\* The entries of a sequence after another.
LEMMA Joined ==
    ASSUME NEW S, NEW x \in Seq(S), NEW y \in Seq(S), NEW q, q = x \o y
    PROVE  /\ q \in Seq(S)
           /\ \A j \in DOMAIN q : \/ j \in DOMAIN x /\ q[j] = x[j]
                                  \/ j - Len(x) \in DOMAIN y /\ q[j] = y[j - Len(x)]
<1>2. /\ q \in Seq(S) /\ Len(q) = Len(x) + Len(y)
      /\ \A j \in 1 .. Len(x) + Len(y) : q[j] = IF j <= Len(x) THEN x[j] ELSE y[j - Len(x)]
  BY ConcatProperties, Zenon
<1>3. /\ Len(x) \in Nat /\ Len(y) \in Nat /\ DOMAIN q = 1 .. Len(x) + Len(y)
      /\ DOMAIN x = 1 .. Len(x) /\ DOMAIN y = 1 .. Len(y)
  BY <1>2
<1>4. \A j \in DOMAIN q : j \in 1 .. Len(x) \/ (j - Len(x) \in 1 .. Len(y) /\ ~(j <= Len(x)))
  BY <1>3
<1>5. ASSUME NEW j \in DOMAIN q
      PROVE  \/ j \in DOMAIN x /\ q[j] = x[j]
             \/ j - Len(x) \in DOMAIN y /\ q[j] = y[j - Len(x)]
  <2>1. j \in 1 .. Len(x) + Len(y)
    BY <1>3, <1>5
  <2>2. q[j] = IF j <= Len(x) THEN x[j] ELSE y[j - Len(x)]
    BY <1>2, <2>1, Zenon
  <2>3. CASE j \in 1 .. Len(x)
    BY <1>3, <2>2, <2>3
  <2>4. CASE j - Len(x) \in 1 .. Len(y) /\ ~(j <= Len(x))
    BY <1>3, <2>2, <2>4, Zenon
  <2>5. QED
    BY <1>4, <2>3, <2>4
<1>6. QED
  BY <1>2, <1>5, Zenon

\* Taking an entry out of a cache leaves others of its entries.
LEMMA RemovedEntry ==
    ASSUME NEW cache \in Seq(Requests \X Handlers), NEW i \in DOMAIN cache
    PROVE  /\ RemoveAt(cache, i) \in Seq(Requests \X Handlers)
           /\ \A j \in DOMAIN RemoveAt(cache, i) : \E m \in DOMAIN cache : RemoveAt(cache, i)[j] = cache[m]
<1>0. PICK S : S = Requests \X Handlers
  OBVIOUS
<1>1. PICK n \in Nat : n = Len(cache) /\ DOMAIN cache = 1 .. n
  OBVIOUS
<1>2. i \in 1 .. n /\ cache \in Seq(S)
  BY <1>0, <1>1
<1>3. PICK x, y : x = SubSeq(cache, 1, i - 1) /\ y = SubSeq(cache, i + 1, n)
  OBVIOUS
<1>4. x \in Seq(S) /\ \A j \in DOMAIN x : j \in DOMAIN cache /\ x[j] = cache[j]
  BY <1>1, <1>2, <1>3
<1>5. y \in Seq(S) /\ \A j \in DOMAIN y : i + j \in DOMAIN cache /\ y[j] = cache[i + j]
  <2>1. y \in Seq(S)
    BY <1>1, <1>2, <1>3
  <2>2. Len(y) = n - i /\ \A j \in 1 .. n - i : y[j] = cache[i + j]
    BY <1>1, <1>2, <1>3
  <2>3. n - i \in Nat /\ \A j \in 1 .. n - i : i + j \in 1 .. n
    BY <1>1, <1>2
  <2>4. DOMAIN y = 1 .. n - i
    BY <2>1, <2>2
  <2>5. QED
    BY <1>1, <2>1, <2>2, <2>3, <2>4
<1>6. RemoveAt(cache, i) = x \o y
  BY <1>1, <1>3 DEF RemoveAt
<1>7. PICK q : q = x \o y
  OBVIOUS
<1>8. /\ q \in Seq(S)
      /\ \A j \in DOMAIN q : \/ j \in DOMAIN x /\ q[j] = x[j]
                             \/ j - Len(x) \in DOMAIN y /\ q[j] = y[j - Len(x)]
  <2>1. x \in Seq(S) /\ y \in Seq(S)
    BY <1>4, <1>5
  <2>2. QED
    BY <1>7, <2>1, Joined
<1>9. \A j \in DOMAIN q : \E m \in DOMAIN cache : q[j] = cache[m]
  BY <1>4, <1>5, <1>8, Zenon
<1>10. QED
  BY <1>0, <1>6, <1>7, <1>8, <1>9, Zenon

\* A use of a key puts it in front of others of the cache's entries.
LEMMA UsedEntry ==
    ASSUME NEW cache \in Seq(Requests \X Handlers), NEW k \in Requests, NEW h \in Handlers
    PROVE  /\ Used(cache, k, h) \in Seq(Requests \X Handlers)
           /\ \A j \in DOMAIN Used(cache, k, h) :
                 \/ Used(cache, k, h)[j] = <<k, h>>
                 \/ \E m \in DOMAIN cache : Used(cache, k, h)[j] = cache[m]
<1>1. PICK at : at = {i \in DOMAIN cache : cache[i][1] = k}
  OBVIOUS
<1>2. PICK rest : rest = IF at = {} THEN cache ELSE RemoveAt(cache, CHOOSE i \in at : TRUE)
  OBVIOUS
<1>3. rest \in Seq(Requests \X Handlers) /\ \A j \in DOMAIN rest : \E m \in DOMAIN cache : rest[j] = cache[m]
  <2>1. CASE at = {}
    BY <1>2, <2>1
  <2>2. CASE at # {}
    <3>1. PICK i : i = CHOOSE j \in at : TRUE
      OBVIOUS
    <3>2. i \in DOMAIN cache
      BY <1>1, <2>2, <3>1
    <3>3. rest = RemoveAt(cache, i)
      BY <1>2, <2>2, <3>1, Zenon
    <3>4. QED
      BY <3>2, <3>3, RemovedEntry, Zenon
  <2>3. QED
    BY <2>1, <2>2
<1>4. PICK kept : kept = IF Len(rest) >= LruCapacity THEN SubSeq(rest, 1, LruCapacity - 1) ELSE rest
  OBVIOUS
<1>5. kept \in Seq(Requests \X Handlers) /\ \A j \in DOMAIN kept : j \in DOMAIN rest /\ kept[j] = rest[j]
  BY <1>3, <1>4, CapacityAssumption
<1>6. Used(cache, k, h) = <<<<k, h>>>> \o kept
  BY <1>1, <1>2, <1>4, Zenon DEF Used
<1>7. PICK q : q = <<<<k, h>>>> \o kept
  OBVIOUS
<1>8. q \in Seq(Requests \X Handlers)
  BY <1>5, <1>7
<1>9. \A j \in DOMAIN q : q[j] = <<k, h>> \/ (j - 1 \in DOMAIN kept /\ q[j] = kept[j - 1])
  BY <1>5, <1>7
<1>10. \A j \in DOMAIN q : q[j] = <<k, h>> \/ \E m \in DOMAIN cache : q[j] = cache[m]
  BY <1>3, <1>5, <1>9, Zenon
<1>11. QED
  BY <1>6, <1>7, <1>8, <1>10, Zenon

\* What a table of static routes gives is a handler or nothing.
LEMMA StaticEntry ==
    ASSUME NEW map \in [Methods \X Patterns -> Found_or_None], NEW k \in Requests
    PROVE  /\ StaticOf(map, k) \in Found_or_None
           /\ StaticOf(map, k) # None => k \in Methods \X Patterns /\ StaticOf(map, k) = map[k]
<1>1. PICK m \in Methods, p \in Paths : k = <<m, p>>
  BY DEF Requests
<1>2. CASE p \in Patterns
  <2>1. k \in Methods \X Patterns /\ map[k] \in Found_or_None
    BY <1>1, <1>2
  <2>2. StaticOf(map, k) = map[k]
    BY <1>1, <1>2 DEF StaticOf
  <2>3. QED
    BY <2>1, <2>2
<1>3. CASE p \notin Patterns
  <2>1. StaticOf(map, k) = None
    BY <1>1, <1>3 DEF StaticOf
  <2>2. QED
    BY <2>1 DEF Found_or_None
<1>4. QED
  BY <1>2, <1>3

\* What an LRU cache holds for a key is a handler or nothing.
LEMMA CachedType ==
    ASSUME NEW cache \in Seq(Requests \X Handlers), NEW k
    PROVE  Cached(cache, k) \in Found_or_None
<1>1. \A i \in DOMAIN cache : cache[i][2] \in Handlers
  <2>1. SUFFICES ASSUME NEW i \in DOMAIN cache PROVE cache[i][2] \in Handlers
    OBVIOUS
  <2>2. cache[i] \in Requests \X Handlers
    OBVIOUS
  <2>3. QED
    BY <2>2
<1>2. QED
  BY <1>1, CachedEntry DEF Found_or_None

\* What the fast router finds is a handler or nothing.
LEMMA FastLookupType == ASSUME RTypes, NEW k \in Requests PROVE fast_lookup(k) \in Found_or_None
<1>1. StaticOf(fast_static, k) \in Found_or_None
  BY StaticEntry DEF RTypes
<1>2. Cached(lru_cache, k) \in Found_or_None
  BY CachedType DEF RTypes
<1>3. fast_scan(k) \in Found_or_None
  BY FastScan DEF Found_or_None
<1>4. fast_cache[k] \in Found_or_None
  BY DEF RTypes
<1>5. QED
  BY <1>1, <1>2, <1>3, <1>4, Zenon DEF fast_lookup

\* What the hybrid router finds is a handler or nothing.
LEMMA HybridLookupType == ASSUME RTypes, NEW k \in Requests PROVE hybrid_lookup(k) \in Found_or_None
<1>1. StaticOf(hyb_static, k) \in Found_or_None
  BY StaticEntry DEF RTypes
<1>2. Cached(hyb_cache, k) \in Found_or_None
  BY CachedType DEF RTypes
<1>3. hybrid_scan(k) \in Found_or_None
  BY HybridScan
<1>4. QED
  BY <1>1, <1>2, <1>3, Zenon DEF hybrid_lookup

\* What a change of the routes does: every route stays, and the caches do.
Grows ==
    /\ Entries(fast_dynamic) \subseteq Entries(fast_dynamic')
    /\ Entries(hyb_dynamic) \subseteq Entries(hyb_dynamic')
    /\ UNCHANGED <<fast_cache, lru_cache, hyb_cache>>

\* A registration.
LEMMA Registers ==
    ASSUME RTypes, Order, NEW m \in Methods, NEW pat \in Patterns, add_route(m, pat)
    PROVE  RTypes' /\ Order' /\ Grows
<1>1. PICK r : r = [method |-> m, pattern |-> pat, handler |-> registered + 1]
  OBVIOUS
<1>2. /\ registered \in Nat /\ registered < MaxRoutes /\ registered' = registered + 1
      /\ fast_add_route(r) \/ hybrid_add_route(r)
      /\ UNCHANGED settings
  BY <1>1 DEF add_route, RTypes
<1>3. r \in Route /\ r.handler = registered + 1 /\ r.method = m /\ r.pattern = pat
  BY <1>1, <1>2, CapacityAssumption DEF Route, Handlers
<1>4. r.handler \in Found_or_None
  BY <1>2, <1>3 DEF Found_or_None, Route
<1>5. \A routes \in Seq(Route) : Distinct(routes, registered) => Distinct(routes, registered + 1)
  <2>1. SUFFICES ASSUME NEW routes \in Seq(Route), Distinct(routes, registered)
                 PROVE  Distinct(routes, registered + 1)
    OBVIOUS
  <2>2. ASSUME NEW i \in DOMAIN routes PROVE routes[i].handler <= registered + 1
    <3>1. routes[i] \in Route
      OBVIOUS
    <3>2. routes[i].handler \in 1 .. MaxRoutes /\ MaxRoutes \in Nat
      BY <3>1, CapacityAssumption DEF Route, Handlers
    <3>3. routes[i].handler <= registered
      BY <2>1 DEF Distinct
    <3>4. QED
      BY <1>2, <3>2, <3>3
  <2>3. QED
    BY <2>1, <2>2 DEF Distinct
<1>6. ASSUME NEW routes \in Seq(Route), Distinct(routes, registered)
      PROVE  /\ Append(routes, r) \in Seq(Route)
             /\ Distinct(Append(routes, r), registered + 1)
             /\ Entries(routes) \subseteq Entries(Append(routes, r))
             /\ \A q \in sort_dynamic_routes(Append(routes, r)) :
                   /\ q \in Seq(Route) /\ Distinct(q, registered + 1) /\ Sorted(q)
                   /\ Entries(routes) \subseteq Entries(q)
  <2>1. /\ Append(routes, r) \in Seq(Route) /\ Distinct(Append(routes, r), registered + 1)
        /\ Entries(routes) \subseteq Entries(Append(routes, r))
    BY <1>2, <1>3, <1>6, AppendKeeps
  <2>2. QED
    BY <2>1, SortKeeps, Zenon
<1>7. CASE fast_add_route(r)
  <2>1. UNCHANGED <<fast_cache, lru_cache, hyb_static, hyb_dynamic, hyb_cache, sort_enabled>>
    BY <1>2, <1>7 DEF fast_add_route, hybVars, settings
  <2>2. fast_static' \in [Methods \X Patterns -> Found_or_None]
    BY <1>3, <1>4, <1>7 DEF fast_add_route, RTypes
  <2>3. /\ fast_dynamic' \in Seq(Route) /\ Distinct(fast_dynamic', registered + 1)
        /\ sort_enabled => Sorted(fast_dynamic')
        /\ Entries(fast_dynamic) \subseteq Entries(fast_dynamic')
    <3>1. CASE fast_dynamic' = fast_dynamic
      BY <1>5, <3>1 DEF RTypes, Order
    <3>2. CASE sort_enabled /\ fast_dynamic' \in sort_dynamic_routes(Append(fast_dynamic, r))
      BY <1>6, <3>2 DEF RTypes, Order
    <3>3. CASE ~sort_enabled /\ fast_dynamic' = Append(fast_dynamic, r)
      BY <1>6, <3>3 DEF RTypes, Order
    <3>4. QED
      BY <1>7, <3>1, <3>2, <3>3 DEF fast_add_route
  <2>4. RTypes'
    BY <1>2, <2>1, <2>2, <2>3 DEF RTypes, Requests
  <2>5. Distinct(hyb_dynamic, registered + 1)
    BY <1>5 DEF RTypes, Order
  <2>6. Order'
    BY <1>2, <2>1, <2>3, <2>5 DEF Order
  <2>7. QED
    BY <2>1, <2>3, <2>4, <2>6 DEF Grows
<1>8. CASE hybrid_add_route(r)
  <2>1. UNCHANGED <<fast_static, fast_dynamic, fast_cache, lru_cache, hyb_cache, sort_enabled>>
    BY <1>2, <1>8 DEF hybrid_add_route, fastVars, settings
  <2>2. hyb_static' \in [Methods \X Patterns -> Found_or_None]
    BY <1>3, <1>4, <1>8 DEF hybrid_add_route, RTypes
  <2>3. /\ hyb_dynamic' \in Seq(Route) /\ Distinct(hyb_dynamic', registered + 1)
        /\ Entries(hyb_dynamic) \subseteq Entries(hyb_dynamic')
    <3>1. CASE hyb_dynamic' = hyb_dynamic
      BY <1>5, <3>1 DEF RTypes, Order
    <3>2. CASE hyb_dynamic' \in sort_dynamic_routes(Append(hyb_dynamic, r))
      BY <1>6, <3>2 DEF RTypes, Order
    <3>3. QED
      BY <1>8, <3>1, <3>2 DEF hybrid_add_route
  <2>4. RTypes'
    BY <1>2, <2>1, <2>2, <2>3 DEF RTypes, Requests
  <2>5. Distinct(fast_dynamic, registered + 1)
    BY <1>5 DEF RTypes, Order
  <2>6. Order'
    BY <1>2, <2>1, <2>3, <2>5 DEF Order
  <2>7. QED
    BY <2>1, <2>3, <2>4, <2>6 DEF Grows
<1>9. QED
  BY <1>2, <1>7, <1>8

\* What a match leaves in the caches: what was there, less what is evicted, and
\* what the scan of the dynamic routes gives for the request.
Remembers(k) ==
    /\ fast_cache' \in [Requests -> Found_or_None]
    /\ lru_cache' \in Seq(Requests \X Handlers) /\ hyb_cache' \in Seq(Requests \X Handlers)
    /\ \A x \in Requests :
          \/ fast_cache'[x] = None \/ fast_cache'[x] = fast_cache[x]
          \/ x = k /\ fast_cache'[x] = fast_scan(k) /\ fast_scan(k) # None
    /\ \A j \in DOMAIN lru_cache' :
          \/ \E m \in DOMAIN lru_cache : lru_cache'[j] = lru_cache[m]
          \/ lru_cache'[j] = <<k, fast_scan(k)>> /\ fast_scan(k) # None
    /\ \A j \in DOMAIN hyb_cache' :
          \/ \E m \in DOMAIN hyb_cache : hyb_cache'[j] = hyb_cache[m]
          \/ hyb_cache'[j] = <<k, hybrid_scan(k)>> /\ hybrid_scan(k) # None

\* A match an LRU cache finds is an entry it holds.
LEMMA HitEntry ==
    ASSUME NEW cache \in Seq(Requests \X Handlers), NEW k, Cached(cache, k) # None
    PROVE  \E m \in DOMAIN cache : cache[m] = <<k, Cached(cache, k)>>
<1>1. PICK m \in DOMAIN cache : cache[m][1] = k /\ Cached(cache, k) = cache[m][2]
  BY CachedEntry
<1>2. cache[m] \in Requests \X Handlers
  OBVIOUS
<1>3. QED
  BY <1>1, <1>2

\* A request.
LEMMA Serves ==
    ASSUME RTypes, NEW m \in Methods, NEW p \in Paths, match_route(m, p)
    PROVE  Remembers(<<m, p>>)
<1>1. PICK k \in Requests : k = <<m, p>>
  BY DEF Requests
<1>2. \/ fast_remember(k) /\ UNCHANGED hyb_cache
      \/ hybrid_remember(k) /\ UNCHANGED <<fast_cache, lru_cache>>
  BY <1>1 DEF match_route
<1>3. /\ fast_cache \in [Requests -> Found_or_None]
      /\ lru_cache \in Seq(Requests \X Handlers) /\ hyb_cache \in Seq(Requests \X Handlers)
      /\ fast_lookup(k) \in Found_or_None /\ hybrid_lookup(k) \in Found_or_None
  BY FastLookupType, HybridLookupType DEF RTypes
<1>4. ASSUME NEW h \in Found_or_None, h # None PROVE h \in Handlers
  BY <1>4 DEF Found_or_None
<1>5. CASE UNCHANGED <<fast_cache, lru_cache, hyb_cache>>
  BY <1>1, <1>3, <1>5, Zenon DEF Remembers
<1>6. CASE /\ UNCHANGED <<lru_cache, hyb_cache>> /\ StaticOf(fast_static, k) = None
           /\ fast_lookup(k) # None /\ use_fast_cache /\ fast_cache[k] = None
           /\ fast_cache' = fast_put(k, fast_lookup(k))
  <2>1. fast_lookup(k) = fast_scan(k)
    BY <1>6, Zenon DEF fast_lookup
  <2>2. fast_cache' \in [Requests -> Found_or_None]
    BY <1>3, <1>6 DEF fast_put, Found_or_None
  <2>3. \A x \in Requests :
          \/ fast_cache'[x] = None \/ fast_cache'[x] = fast_cache[x]
          \/ x = k /\ fast_cache'[x] = fast_lookup(k)
    BY <1>6 DEF fast_put
  <2>4. QED
    BY <1>1, <1>3, <1>6, <2>1, <2>2, <2>3, Zenon DEF Remembers
<1>7. CASE /\ UNCHANGED <<fast_cache, hyb_cache>> /\ StaticOf(fast_static, k) = None
           /\ fast_lookup(k) # None /\ ~use_fast_cache /\ cache_enabled
           /\ lru_cache' = Used(lru_cache, k, fast_lookup(k))
  <2>1. fast_lookup(k) \in Handlers
    BY <1>3, <1>4, <1>7
  <2>2. fast_lookup(k) \in {Cached(lru_cache, k), fast_scan(k)}
    BY <1>7, Zenon DEF fast_lookup
  <2>3. /\ lru_cache' \in Seq(Requests \X Handlers)
        /\ \A j \in DOMAIN lru_cache' :
              \/ \E i \in DOMAIN lru_cache : lru_cache'[j] = lru_cache[i]
              \/ lru_cache'[j] = <<k, fast_scan(k)>> /\ fast_scan(k) # None
    <3>1. /\ lru_cache' \in Seq(Requests \X Handlers)
          /\ \A j \in DOMAIN lru_cache' :
                \/ lru_cache'[j] = <<k, fast_lookup(k)>>
                \/ \E i \in DOMAIN lru_cache : lru_cache'[j] = lru_cache[i]
      BY <1>3, <1>7, <2>1, UsedEntry, Zenon
    <3>2. CASE fast_lookup(k) = fast_scan(k)
      BY <1>7, <3>1, <3>2, Zenon
    <3>3. CASE fast_lookup(k) = Cached(lru_cache, k)
      <4>1. \E i \in DOMAIN lru_cache : lru_cache[i] = <<k, fast_lookup(k)>>
        BY <1>3, <1>7, <3>3, HitEntry, Zenon
      <4>2. QED
        BY <3>1, <4>1, Zenon
    <3>4. QED
      BY <2>2, <3>2, <3>3
  <2>4. QED
    BY <1>1, <1>3, <1>7, <2>3, Zenon DEF Remembers
<1>8. CASE /\ UNCHANGED <<fast_cache, lru_cache>> /\ StaticOf(hyb_static, k) = None
           /\ hybrid_lookup(k) # None
           /\ hyb_cache' = Used(hyb_cache, k, hybrid_lookup(k))
  <2>1. hybrid_lookup(k) \in Handlers
    BY <1>3, <1>4, <1>8
  <2>2. hybrid_lookup(k) \in {Cached(hyb_cache, k), hybrid_scan(k)}
    BY <1>8, Zenon DEF hybrid_lookup
  <2>3. /\ hyb_cache' \in Seq(Requests \X Handlers)
        /\ \A j \in DOMAIN hyb_cache' :
              \/ \E i \in DOMAIN hyb_cache : hyb_cache'[j] = hyb_cache[i]
              \/ hyb_cache'[j] = <<k, hybrid_scan(k)>> /\ hybrid_scan(k) # None
    <3>1. /\ hyb_cache' \in Seq(Requests \X Handlers)
          /\ \A j \in DOMAIN hyb_cache' :
                \/ hyb_cache'[j] = <<k, hybrid_lookup(k)>>
                \/ \E i \in DOMAIN hyb_cache : hyb_cache'[j] = hyb_cache[i]
      BY <1>3, <1>8, <2>1, UsedEntry, Zenon
    <3>2. CASE hybrid_lookup(k) = hybrid_scan(k)
      BY <1>8, <3>1, <3>2, Zenon
    <3>3. CASE hybrid_lookup(k) = Cached(hyb_cache, k)
      <4>1. \E i \in DOMAIN hyb_cache : hyb_cache[i] = <<k, hybrid_lookup(k)>>
        BY <1>3, <1>8, <3>3, HitEntry, Zenon
      <4>2. QED
        BY <3>1, <4>1, Zenon
    <3>4. QED
      BY <2>2, <3>2, <3>3
  <2>4. QED
    BY <1>1, <1>3, <1>8, <2>3, Zenon DEF Remembers
<1>9. CASE fast_remember(k) /\ UNCHANGED hyb_cache
  BY <1>5, <1>6, <1>7, <1>9, Zenon DEF fast_remember
<1>10. CASE hybrid_remember(k) /\ UNCHANGED <<fast_cache, lru_cache>>
  BY <1>5, <1>8, <1>10, Zenon DEF hybrid_remember
<1>11. QED
  BY <1>2, <1>9, <1>10

\* An entry that expires.
LEMMA Expires ==
    ASSUME RTypes, expire
    PROVE  /\ lru_cache' \in Seq(Requests \X Handlers) /\ hyb_cache' \in Seq(Requests \X Handlers)
           /\ \A j \in DOMAIN lru_cache' : \E m \in DOMAIN lru_cache : lru_cache'[j] = lru_cache[m]
           /\ \A j \in DOMAIN hyb_cache' : \E m \in DOMAIN hyb_cache : hyb_cache'[j] = hyb_cache[m]
<1>1. lru_cache \in Seq(Requests \X Handlers) /\ hyb_cache \in Seq(Requests \X Handlers)
  BY DEF RTypes
<1>2. CASE UNCHANGED hyb_cache /\ \E i \in DOMAIN lru_cache : lru_cache' = RemoveAt(lru_cache, i)
  <2>1. PICK i \in DOMAIN lru_cache : lru_cache' = RemoveAt(lru_cache, i)
    BY <1>2
  <2>2. /\ RemoveAt(lru_cache, i) \in Seq(Requests \X Handlers)
        /\ \A j \in DOMAIN RemoveAt(lru_cache, i) :
              \E m \in DOMAIN lru_cache : RemoveAt(lru_cache, i)[j] = lru_cache[m]
    BY <1>1, RemovedEntry, Zenon
  <2>3. hyb_cache' = hyb_cache
    BY <1>2
  <2>4. QED
    BY <1>1, <2>1, <2>2, <2>3, Zenon
<1>3. CASE UNCHANGED lru_cache /\ \E i \in DOMAIN hyb_cache : hyb_cache' = RemoveAt(hyb_cache, i)
  <2>1. PICK i \in DOMAIN hyb_cache : hyb_cache' = RemoveAt(hyb_cache, i)
    BY <1>3
  <2>2. /\ RemoveAt(hyb_cache, i) \in Seq(Requests \X Handlers)
        /\ \A j \in DOMAIN RemoveAt(hyb_cache, i) :
              \E m \in DOMAIN hyb_cache : RemoveAt(hyb_cache, i)[j] = hyb_cache[m]
    BY <1>1, RemovedEntry, Zenon
  <2>3. lru_cache' = lru_cache
    BY <1>3
  <2>4. QED
    BY <1>1, <2>1, <2>2, <2>3, Zenon
<1>4. QED
  BY <1>2, <1>3 DEF expire

\* Sorting switched on or off.
LEMMA Resorts ==
    ASSUME RTypes, Order, NEW b \in BOOLEAN, set_sort_enabled(b)
    PROVE  RTypes' /\ Order' /\ Grows
<1>1. UNCHANGED <<registered, fast_static, fast_cache, lru_cache, hyb_static, hyb_dynamic, hyb_cache>>
  BY DEF set_sort_enabled, hybVars
<1>2. /\ fast_dynamic' \in Seq(Route) /\ Distinct(fast_dynamic', registered)
      /\ b => Sorted(fast_dynamic')
      /\ Entries(fast_dynamic) \subseteq Entries(fast_dynamic')
  <2>1. CASE ~b /\ fast_dynamic' = fast_dynamic
    BY <2>1 DEF RTypes, Order
  <2>2. CASE fast_dynamic' \in sort_dynamic_routes(fast_dynamic)
    BY <2>2, SortKeeps DEF RTypes, Order
  <2>3. QED
    BY <2>1, <2>2 DEF set_sort_enabled, resorted
<1>3. sort_enabled' = b
  BY DEF set_sort_enabled
<1>4. RTypes' /\ Order'
  BY <1>1, <1>2, <1>3 DEF RTypes, Order
<1>5. QED
  BY <1>1, <1>2, <1>4 DEF Grows

\* Every step keeps the types and the order of the routes.
LEMMA ROrderNext == RTypes /\ Order /\ [Next]_vars => RTypes' /\ Order'
<1> SUFFICES ASSUME RTypes, Order, [Next]_vars PROVE RTypes' /\ Order'
  OBVIOUS
<1>1. ASSUME NEW m \in Methods, NEW pat \in Patterns, add_route(m, pat) PROVE RTypes' /\ Order'
  BY <1>1, Registers
<1>2. ASSUME NEW m \in Methods, NEW p \in Paths, match_route(m, p) PROVE RTypes' /\ Order'
  <2>1. UNCHANGED <<registered, fast_static, fast_dynamic, hyb_static, hyb_dynamic, sort_enabled>>
    BY <1>2 DEF match_route, settings
  <2>2. Remembers(<<m, p>>)
    BY <1>2, Serves
  <2>3. QED
    BY <2>1, <2>2 DEF Remembers, RTypes, Order
<1>3. CASE expire
  <2>1. UNCHANGED <<registered, fast_static, fast_dynamic, fast_cache, hyb_static, hyb_dynamic, sort_enabled>>
    BY <1>3 DEF expire, settings
  <2>2. QED
    BY <1>3, <2>1, Expires DEF RTypes, Order
<1>4. CASE clear_cache
  <2>1. UNCHANGED <<registered, fast_static, fast_dynamic, fast_cache, hyb_static, hyb_dynamic, sort_enabled>>
    BY <1>4 DEF clear_cache, settings
  <2>2. (lru_cache' = <<>> /\ hyb_cache' = hyb_cache) \/ (hyb_cache' = <<>> /\ lru_cache' = lru_cache)
    BY <1>4 DEF clear_cache
  <2>3. lru_cache' \in Seq(Requests \X Handlers) /\ hyb_cache' \in Seq(Requests \X Handlers)
    <3>1. <<>> \in Seq(Requests \X Handlers)
      OBVIOUS
    <3>2. QED
      BY <2>2, <3>1, Zenon DEF RTypes
  <2>4. QED
    BY <2>1, <2>3 DEF RTypes, Order
<1>5. ASSUME NEW b \in BOOLEAN, set_cache_enabled(b) PROVE RTypes' /\ Order'
  BY <1>5 DEF set_cache_enabled, hybVars, RTypes, Order
<1>6. ASSUME NEW b \in BOOLEAN, set_use_fast_cache(b) PROVE RTypes' /\ Order'
  BY <1>6 DEF set_use_fast_cache, fastVars, hybVars, RTypes, Order
<1>7. ASSUME NEW b \in BOOLEAN, set_sort_enabled(b) PROVE RTypes' /\ Order'
  BY <1>7, Resorts
<1>8. ASSUME NEW b \in BOOLEAN, set_fast_router_enabled(b) PROVE RTypes' /\ Order'
  BY <1>8 DEF set_fast_router_enabled, fastVars, hybVars, RTypes, Order
<1>9. CASE UNCHANGED vars
  BY <1>9 DEF vars, fastVars, hybVars, settings, RTypes, Order
<1>10. QED
  BY <1>1, <1>2, <1>3, <1>4, <1>5, <1>6, <1>7, <1>8, <1>9 DEF Next

\* A held match that was stale, or whose router's routes change, is stale after
\* the step when it is still held.
LEMMA StaleStep ==
    ASSUME Ages, NEW x
    PROVE  /\ (x \in stale \/ (fast_dynamic' # fast_dynamic /\ x \in FastHeld)) /\ x \in FastHeld' => x \in stale'
           /\ (x \in stale \/ (hyb_dynamic' # hyb_dynamic /\ x \in HybridHeld)) /\ x \in HybridHeld' => x \in stale'
<1>1. (FastHeld \cup HybridHeld)' = FastHeld' \cup HybridHeld'
  OBVIOUS
<1>2. PICK a : a = IF fast_dynamic' = fast_dynamic THEN {} ELSE FastHeld
  OBVIOUS
<1>3. PICK b : b = IF hyb_dynamic' = hyb_dynamic THEN {} ELSE HybridHeld
  OBVIOUS
<1>4. stale' = (FastHeld' \cup HybridHeld') \cap (stale \cup a \cup b)
  BY <1>1, <1>2, <1>3, Zenon DEF Ages
<1>5. (fast_dynamic' # fast_dynamic /\ x \in FastHeld => x \in a)
  BY <1>2
<1>6. (hyb_dynamic' # hyb_dynamic /\ x \in HybridHeld => x \in b)
  BY <1>3
<1>7. QED
  BY <1>4, <1>5, <1>6

\* A match of the fast router that was good is good after a step that keeps the
\* routes and the match.
LEMMA FastKept ==
    ASSUME Ages, Entries(fast_dynamic) \subseteq Entries(fast_dynamic'),
           NEW c, NEW k, NEW h, GoodFast(c, k, h), <<c, k>> \in FastHeld, <<c, k>> \in FastHeld'
    PROVE  GoodFast(c, k, h)'
<1>1. h \in FastMatching(k)'
  BY DEF GoodFast, FastMatching
<1>2. CASE fast_dynamic' = fast_dynamic /\ h = fast_scan(k)
  <2>1. h = fast_scan(k)'
    BY <1>2 DEF fast_scan
  <2>2. QED
    BY <1>1, <2>1 DEF GoodFast
<1>3. CASE fast_dynamic' # fast_dynamic \/ <<c, k>> \in stale
  <2>1. <<c, k>> \in stale'
    BY <1>3, StaleStep
  <2>2. QED
    BY <1>1, <2>1 DEF GoodFast
<1>4. QED
  BY <1>2, <1>3 DEF GoodFast

\* The same of the hybrid router.
LEMMA HybridKept ==
    ASSUME Ages, Entries(hyb_dynamic) \subseteq Entries(hyb_dynamic'),
           NEW k, NEW h, GoodHybrid(k, h), <<"hybrid", k>> \in HybridHeld, <<"hybrid", k>> \in HybridHeld'
    PROVE  GoodHybrid(k, h)'
<1>1. h \in HybridMatching(k)'
  BY DEF GoodHybrid, HybridMatching
<1>2. CASE hyb_dynamic' = hyb_dynamic /\ h = hybrid_scan(k)
  <2>1. h = hybrid_scan(k)'
    BY <1>2 DEF hybrid_scan
  <2>2. QED
    BY <1>1, <2>1 DEF GoodHybrid
<1>3. CASE hyb_dynamic' # hyb_dynamic \/ <<"hybrid", k>> \in stale
  <2>1. <<"hybrid", k>> \in stale'
    BY <1>3, StaleStep
  <2>2. QED
    BY <1>1, <2>1 DEF GoodHybrid
<1>4. QED
  BY <1>2, <1>3 DEF GoodHybrid

\* What the three caches hold is held.
LEMMA HeldIs ==
    /\ \A k \in Requests : fast_cache[k] # None => <<"fast", k>> \in FastHeld
    /\ \A i \in DOMAIN lru_cache : <<"lru", lru_cache[i][1]>> \in FastHeld
    /\ \A i \in DOMAIN hyb_cache : <<"hybrid", hyb_cache[i][1]>> \in HybridHeld
  BY DEF FastHeld, HybridHeld, Entries

\* What a step must do to keep the cached matches good.
LEMMA CacheStep ==
    ASSUME RTypes, Cache, Ages,
           Entries(fast_dynamic) \subseteq Entries(fast_dynamic'),
           Entries(hyb_dynamic) \subseteq Entries(hyb_dynamic'),
           \A k \in Requests :
              \/ fast_cache'[k] \in {None, fast_cache[k]}
              \/ fast_dynamic' = fast_dynamic /\ fast_cache'[k] = fast_scan(k) /\ fast_scan(k) # None,
           \A j \in DOMAIN lru_cache' :
              \/ \E m \in DOMAIN lru_cache : lru_cache'[j] = lru_cache[m]
              \/ \E k \in Requests : /\ fast_dynamic' = fast_dynamic /\ fast_scan(k) # None
                                     /\ lru_cache'[j] = <<k, fast_scan(k)>>,
           \A j \in DOMAIN hyb_cache' :
              \/ \E m \in DOMAIN hyb_cache : hyb_cache'[j] = hyb_cache[m]
              \/ \E k \in Requests : /\ hyb_dynamic' = hyb_dynamic /\ hybrid_scan(k) # None
                                     /\ hyb_cache'[j] = <<k, hybrid_scan(k)>>
    PROVE  Cache'
<1>1. /\ \A k \in Requests : fast_cache'[k] # None => <<"fast", k>> \in FastHeld'
      /\ \A i \in DOMAIN lru_cache' : <<"lru", lru_cache'[i][1]>> \in FastHeld'
      /\ \A i \in DOMAIN hyb_cache' : <<"hybrid", hyb_cache'[i][1]>> \in HybridHeld'
  BY DEF FastHeld, HybridHeld, Entries, Requests
<1>2. ASSUME NEW c, NEW k, fast_dynamic' = fast_dynamic, fast_scan(k) # None
      PROVE  GoodFast(c, k, fast_scan(k))'
  <2>1. fast_scan(k) \in FastMatching(k)
    BY <1>2, FastScanMatches
  <2>2. fast_scan(k)' = fast_scan(k) /\ FastMatching(k)' = FastMatching(k)
    BY <1>2 DEF fast_scan, FastMatching
  <2>3. QED
    BY <2>1, <2>2 DEF GoodFast
<1>3. ASSUME NEW k \in Requests, fast_cache'[k] # None PROVE GoodFast("fast", k, fast_cache[k])'
  <2>1. CASE fast_cache'[k] = fast_cache[k]
    <3>1. GoodFast("fast", k, fast_cache[k]) /\ <<"fast", k>> \in FastHeld
      BY <1>3, <2>1, HeldIs DEF Cache
    <3>2. PICK h : h = fast_cache[k]
      OBVIOUS
    <3>3. GoodFast("fast", k, h)'
      BY <1>1, <1>3, <3>1, <3>2, FastKept
    <3>4. QED
      BY <2>1, <3>2, <3>3 DEF GoodFast
  <2>2. CASE fast_dynamic' = fast_dynamic /\ fast_cache'[k] = fast_scan(k) /\ fast_scan(k) # None
    <3>1. PICK h : h = fast_scan(k)
      OBVIOUS
    <3>2. fast_scan(k)' = fast_scan(k) /\ FastMatching(k)' = FastMatching(k)
      BY <2>2 DEF fast_scan, FastMatching
    <3>3. h \in FastMatching(k)
      BY <2>2, <3>1, FastScanMatches
    <3>4. QED
      BY <2>2, <3>1, <3>2, <3>3 DEF GoodFast
  <2>3. QED
    BY <1>3, <2>1, <2>2
<1>4. ASSUME NEW j \in DOMAIN lru_cache' PROVE (GoodFast("lru", lru_cache[j][1], lru_cache[j][2]))'
  <2>1. PICK x, h : x = lru_cache'[j][1] /\ h = lru_cache'[j][2]
    OBVIOUS
  <2>2. GoodFast("lru", x, h)'
    <3>1. CASE \E m \in DOMAIN lru_cache : lru_cache'[j] = lru_cache[m]
      <4>1. PICK m \in DOMAIN lru_cache : lru_cache'[j] = lru_cache[m]
        BY <3>1
      <4>2. GoodFast("lru", x, h) /\ <<"lru", x>> \in FastHeld /\ <<"lru", x>> \in FastHeld'
        BY <1>1, <2>1, <4>1, HeldIs DEF Cache
      <4>3. QED
        BY <4>2, FastKept
    <3>2. CASE \E k \in Requests : /\ fast_dynamic' = fast_dynamic /\ fast_scan(k) # None
                                   /\ lru_cache'[j] = <<k, fast_scan(k)>>
      <4>1. PICK k \in Requests : /\ fast_dynamic' = fast_dynamic /\ fast_scan(k) # None
                                  /\ lru_cache'[j] = <<k, fast_scan(k)>>
        BY <3>2
      <4>2. x = k /\ h = fast_scan(k)
        BY <2>1, <4>1
      <4>3. fast_scan(k)' = fast_scan(k) /\ FastMatching(k)' = FastMatching(k)
        BY <4>1 DEF fast_scan, FastMatching
      <4>4. h \in FastMatching(x)
        BY <4>1, <4>2, FastScanMatches
      <4>5. QED
        BY <4>2, <4>3, <4>4 DEF GoodFast
    <3>3. QED
      BY <3>1, <3>2
  <2>3. QED
    BY <2>1, <2>2 DEF GoodFast
<1>5. ASSUME NEW j \in DOMAIN hyb_cache' PROVE (GoodHybrid(hyb_cache[j][1], hyb_cache[j][2]))'
  <2>1. PICK x, h : x = hyb_cache'[j][1] /\ h = hyb_cache'[j][2]
    OBVIOUS
  <2>2. GoodHybrid(x, h)'
    <3>1. CASE \E m \in DOMAIN hyb_cache : hyb_cache'[j] = hyb_cache[m]
      <4>1. PICK m \in DOMAIN hyb_cache : hyb_cache'[j] = hyb_cache[m]
        BY <3>1
      <4>2. GoodHybrid(x, h) /\ <<"hybrid", x>> \in HybridHeld /\ <<"hybrid", x>> \in HybridHeld'
        BY <1>1, <2>1, <4>1, HeldIs DEF Cache
      <4>3. QED
        BY <4>2, HybridKept
    <3>2. CASE \E k \in Requests : /\ hyb_dynamic' = hyb_dynamic /\ hybrid_scan(k) # None
                                   /\ hyb_cache'[j] = <<k, hybrid_scan(k)>>
      <4>1. PICK k \in Requests : /\ hyb_dynamic' = hyb_dynamic /\ hybrid_scan(k) # None
                                  /\ hyb_cache'[j] = <<k, hybrid_scan(k)>>
        BY <3>2
      <4>2. x = k /\ h = hybrid_scan(k)
        BY <2>1, <4>1
      <4>3. hybrid_scan(k)' = hybrid_scan(k) /\ HybridMatching(k)' = HybridMatching(k)
        BY <4>1 DEF hybrid_scan, HybridMatching
      <4>4. h \in HybridMatching(x)
        BY <4>1, <4>2, HybridScan
      <4>5. QED
        BY <4>2, <4>3, <4>4 DEF GoodHybrid
    <3>3. QED
      BY <3>1, <3>2
  <2>3. QED
    BY <2>1, <2>2 DEF GoodHybrid
<1>6. QED
  BY <1>3, <1>4, <1>5 DEF Cache

\* Every step keeps the cached matches good.
LEMMA CacheNext == RTypes /\ Order /\ Cache /\ [Next]_vars => Cache'
<1> SUFFICES ASSUME RTypes, Order, Cache, [Next]_vars PROVE Cache'
  OBVIOUS
<1>1. ASSUME Ages, Grows PROVE Cache'
  BY <1>1, CacheStep, Zenon DEF Grows
<1>2. ASSUME NEW m \in Methods, NEW pat \in Patterns, add_route(m, pat) PROVE Cache'
  <2>1. Ages /\ Grows
    BY <1>2, Registers DEF add_route
  <2>2. QED
    BY <1>1, <2>1
<1>3. ASSUME NEW m \in Methods, NEW p \in Paths, match_route(m, p) PROVE Cache'
  <2>1. UNCHANGED <<fast_dynamic, hyb_dynamic>> /\ Ages
    BY <1>3 DEF match_route
  <2>2. PICK k \in Requests : k = <<m, p>> /\ Remembers(k)
    BY <1>3, Serves DEF Requests
  <2>3. \A x \in Requests :
          \/ fast_cache'[x] \in {None, fast_cache[x]}
          \/ fast_dynamic' = fast_dynamic /\ fast_cache'[x] = fast_scan(x) /\ fast_scan(x) # None
    BY <2>1, <2>2 DEF Remembers
  <2>4. \A j \in DOMAIN lru_cache' :
          \/ \E i \in DOMAIN lru_cache : lru_cache'[j] = lru_cache[i]
          \/ \E x \in Requests : /\ fast_dynamic' = fast_dynamic /\ fast_scan(x) # None
                                 /\ lru_cache'[j] = <<x, fast_scan(x)>>
    BY <2>1, <2>2, Zenon DEF Remembers
  <2>5. \A j \in DOMAIN hyb_cache' :
          \/ \E i \in DOMAIN hyb_cache : hyb_cache'[j] = hyb_cache[i]
          \/ \E x \in Requests : /\ hyb_dynamic' = hyb_dynamic /\ hybrid_scan(x) # None
                                 /\ hyb_cache'[j] = <<x, hybrid_scan(x)>>
    BY <2>1, <2>2, Zenon DEF Remembers
  <2>6. QED
    BY <2>1, <2>3, <2>4, <2>5, CacheStep, Zenon
<1>4. ASSUME Ages, UNCHANGED <<fast_dynamic, hyb_dynamic, fast_cache>>,
             lru_cache' = lru_cache \/ lru_cache' = <<>>, hyb_cache' = hyb_cache \/ hyb_cache' = <<>>
      PROVE  Cache'
  <2>1. \A j \in DOMAIN lru_cache' : \E m \in DOMAIN lru_cache : lru_cache'[j] = lru_cache[m]
    BY <1>4
  <2>2. \A j \in DOMAIN hyb_cache' : \E m \in DOMAIN hyb_cache : hyb_cache'[j] = hyb_cache[m]
    BY <1>4
  <2>3. QED
    BY <1>4, <2>1, <2>2, CacheStep
<1>5. CASE expire
  <2>1. UNCHANGED <<fast_dynamic, hyb_dynamic, fast_cache>> /\ Ages
    BY <1>5 DEF expire
  <2>2. QED
    BY <1>5, <2>1, CacheStep, Expires
<1>6. CASE clear_cache
  BY <1>4, <1>6 DEF clear_cache
<1>7. ASSUME NEW b \in BOOLEAN, set_cache_enabled(b) PROVE Cache'
  BY <1>4, <1>7 DEF set_cache_enabled, hybVars
<1>8. ASSUME NEW b \in BOOLEAN, set_use_fast_cache(b) PROVE Cache'
  BY <1>4, <1>8 DEF set_use_fast_cache, fastVars, hybVars
<1>9. ASSUME NEW b \in BOOLEAN, set_sort_enabled(b) PROVE Cache'
  <2>1. Ages /\ Grows
    BY <1>9, Resorts DEF set_sort_enabled
  <2>2. QED
    BY <1>1, <2>1
<1>10. ASSUME NEW b \in BOOLEAN, set_fast_router_enabled(b) PROVE Cache'
  BY <1>4, <1>10 DEF set_fast_router_enabled, fastVars, hybVars
<1>11. CASE UNCHANGED vars
  <2>1. UNCHANGED <<fast_dynamic, hyb_dynamic, fast_cache, lru_cache, hyb_cache, stale>>
    BY <1>11 DEF vars, fastVars, hybVars
  <2>2. \A c, k, h : /\ GoodFast(c, k, h) => GoodFast(c, k, h)'
                     /\ GoodHybrid(k, h) => GoodHybrid(k, h)'
    BY <2>1 DEF GoodFast, GoodHybrid, FastMatching, HybridMatching, fast_scan, hybrid_scan
  <2>3. QED
    BY <2>1, <2>2 DEF Cache, GoodFast, GoodHybrid, FastMatching, HybridMatching, fast_scan, hybrid_scan
<1>12. QED
  BY <1>2, <1>3, <1>5, <1>6, <1>7, <1>8, <1>9, <1>10, <1>11 DEF Next

\* What the routers answer: the routes' own answer or a stale match of a route
\* that matches.
LEMMA Answers ==
    ASSUME RTypes, Cache, NEW k \in Requests
    PROVE  /\ \/ fast_lookup(k) = fast_fresh(k)
              \/ <<Consulted, k>> \in stale /\ cache_enabled /\ fast_lookup(k) \in FastMatching(k)
           /\ \/ hybrid_lookup(k) = hybrid_fresh(k)
              \/ <<"hybrid", k>> \in stale /\ hybrid_lookup(k) \in HybridMatching(k)
<1>1. fast_cache[k] = None \/ GoodFast("fast", k, fast_cache[k])
  BY DEF Cache
<1>2. Cached(lru_cache, k) = None \/ GoodFast("lru", k, Cached(lru_cache, k))
  <2>1. lru_cache \in Seq(Requests \X Handlers)
    BY DEF RTypes
  <2>2. \/ Cached(lru_cache, k) = None
        \/ \E i \in DOMAIN lru_cache : lru_cache[i][1] = k /\ Cached(lru_cache, k) = lru_cache[i][2]
    BY <2>1, CachedEntry
  <2>3. QED
    BY <2>2, Zenon DEF Cache
<1>3. Cached(hyb_cache, k) = None \/ GoodHybrid(k, Cached(hyb_cache, k))
  <2>1. hyb_cache \in Seq(Requests \X Handlers)
    BY DEF RTypes
  <2>2. \/ Cached(hyb_cache, k) = None
        \/ \E i \in DOMAIN hyb_cache : hyb_cache[i][1] = k /\ Cached(hyb_cache, k) = hyb_cache[i][2]
    BY <2>1, CachedEntry
  <2>3. QED
    BY <2>2, Zenon DEF Cache
<1>4. \/ fast_lookup(k) = fast_fresh(k)
      \/ <<Consulted, k>> \in stale /\ cache_enabled /\ fast_lookup(k) \in FastMatching(k)
  <2>1. CASE use_fast_cache
    <3>1. Consulted = "fast"
      BY <2>1 DEF Consulted
    <3>2. QED
      BY <1>1, <2>1, <3>1, Zenon DEF fast_lookup, fast_fresh, GoodFast
  <2>2. CASE ~use_fast_cache
    <3>1. Consulted = "lru"
      BY <2>2 DEF Consulted
    <3>2. QED
      BY <1>2, <2>2, <3>1, Zenon DEF fast_lookup, fast_fresh, GoodFast
  <2>3. QED
    BY <2>1, <2>2
<1>5. \/ hybrid_lookup(k) = hybrid_fresh(k)
      \/ <<"hybrid", k>> \in stale /\ hybrid_lookup(k) \in HybridMatching(k)
  BY <1>3, Zenon DEF hybrid_lookup, hybrid_fresh, GoodHybrid
<1>6. QED
  BY <1>4, <1>5

\* The types and the order of the routes, in every reachable state.
LEMMA RInvariant == Spec => [](RTypes /\ Order)
<1>1. Init => RTypes /\ Order
  BY RInit
<1>2. QED
  BY <1>1, ROrderNext, PTL DEF Spec

\* The same, and the age of what is cached.
LEMMA CacheInvariant == Spec => [](RTypes /\ Order /\ Cache)
<1>1. Init => RTypes /\ Order /\ Cache
  BY RInit
<1>2. RTypes /\ Order /\ Cache /\ [Next]_vars => (RTypes /\ Order /\ Cache)'
  BY ROrderNext, CacheNext
<1>3. QED
  BY <1>1, <1>2, PTL DEF Spec

\* fast_router.v:93 "simple routes first": whatever is registered, in any order
\* and with sorting switched off and on in between, while sorting is on no route
\* that matches a request is simpler than the one whose handler the scan of
\* FastRouter.match_route answers with.
THEOREM SimplestRouteAnswers == Spec => []SimplestFirst
<1>1. RTypes /\ Order => SimplestFirst
  <2> SUFFICES ASSUME RTypes, Order, sort_enabled, NEW k \in Requests,
                      NEW i \in DOMAIN fast_dynamic, NEW j \in DOMAIN fast_dynamic,
                      fast_dynamic[i].handler = fast_scan(k),
                      fast_dynamic[j].method = k[1], fast_matches(fast_dynamic[j].pattern, k[2])
               PROVE  Cost(fast_dynamic[i]) <= Cost(fast_dynamic[j])
    BY Zenon DEF SimplestFirst
  <2>1. fast_dynamic \in Seq(Route) /\ fast_dynamic[i] \in Route
    BY DEF RTypes
  <2>2. PICK f \in DOMAIN fast_dynamic :
          /\ fast_scan(k) = fast_dynamic[f].handler
          /\ \A q \in DOMAIN fast_dynamic :
                fast_dynamic[q].method = k[1] /\ fast_matches(fast_dynamic[q].pattern, k[2]) => f <= q
    BY FastScan, Zenon
  <2>3. i = f /\ f <= j
    BY <2>2 DEF Order, Distinct
  <2>4. CASE i = j
    BY <2>1, <2>4, CostType
  <2>5. CASE i # j
    <3>1. i < j
      BY <2>1, <2>3, <2>5
    <3>2. Sorted(fast_dynamic)
      BY DEF Order
    <3>3. QED
      BY <3>1, <3>2, Zenon DEF Sorted
  <2>6. QED
    BY <2>4, <2>5
<1>2. QED
  BY <1>1, RInvariant, PTL

\* The caches of the two routers (fast_router.v:144-230, router.v:237-281) show
\* nothing but their age: after any registrations, matches, evictions, expiries,
\* clears and switches of the settings, a router finds the handler its registered
\* routes alone give, or a match that was cached before its dynamic routes last
\* changed, which is one of a route that matches.
THEOREM CachesInvisible == Spec => []CacheTransparent
<1>1. RTypes /\ Cache => CacheTransparent
  BY Answers DEF CacheTransparent
<1>2. QED
  BY <1>1, CacheInvariant, PTL

\* README.md:1615 "app.get(path, handler) - Register GET route": what FastRouter
\* answers, from its tables or its caches, stale matches included, is a handler
\* registered for the request's method.
THEOREM MethodsKept == Spec => []MethodRespected
<1>1. RTypes /\ Cache => MethodRespected
  <2> SUFFICES ASSUME RTypes, Cache, NEW k \in Requests, fast_lookup(k) # None
               PROVE  k[1] \in MethodOf(fast_lookup(k))
    BY DEF MethodRespected
  <2>1. CASE StaticOf(fast_static, k) # None
    <3>1. k \in Methods \X Patterns /\ fast_static[k] = StaticOf(fast_static, k)
      BY <2>1, StaticEntry DEF RTypes
    <3>2. fast_lookup(k) = fast_static[k]
      BY <2>1, <3>1, Zenon DEF fast_lookup
    <3>3. QED
      BY <3>1, <3>2 DEF MethodOf
  <2>2. CASE StaticOf(fast_static, k) = None
    <3>1. fast_lookup(k) \in FastMatching(k)
      <4>1. CASE fast_lookup(k) = fast_fresh(k)
        <5>1. fast_fresh(k) = fast_scan(k)
          BY <2>2 DEF fast_fresh
        <5>2. QED
          BY <4>1, <5>1, FastScanMatches
      <4>2. QED
        BY <4>1, Answers
    <3>2. PICK r \in Entries(fast_dynamic) : r.method = k[1] /\ r.handler = fast_lookup(k)
      BY <3>1 DEF FastMatching
    <3>3. QED
      BY <3>2 DEF MethodOf
  <2>3. QED
    BY <2>1, <2>2
<1>2. QED
  BY <1>1, CacheInvariant, PTL

=============================================================================
