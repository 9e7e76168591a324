------------------------------ MODULE Routers ------------------------------
(***************************************************************************)
(* The two routers an application matches requests with: FastRouter        *)
(* (fast_router.v) with its two caches, and the hybrid router (router.v)   *)
(* it falls back to.  Nothing in them asks whether the server runs: routes *)
(* are registered, settings switched and requests matched (by the event    *)
(* loop or by warmup_cache) in any order.  A match is one step.            *)
(*                                                                         *)
(* The compiled expressions cached by pattern, the lists of handlers that  *)
(* sub-applications and OpenAPI read, and the trie that every registration *)
(* also fills but no request consults, decide no match and are left out.   *)
(***************************************************************************)
EXTENDS RoutePatterns

CONSTANTS
    Methods, Patterns, Paths,
    FastModes,      \* values of use_fast_router that occur
    Uncompilable,   \* patterns the fast router refuses to compile
    FastCapacity,   \* capacity of fast_cache
    LruCapacity,    \* capacity of both LRU caches
    MaxRoutes,      \* bound on registrations
    None            \* no handler

ASSUME ModesAssumption == FastModes \subseteq BOOLEAN /\ FastModes # {}
ASSUME PatternAssumption ==
    /\ Patterns \subseteq Seq(STRING)
    /\ Uncompilable \subseteq {p \in Patterns : ~is_static_path(p)}
ASSUME CapacityAssumption == FastCapacity \in Nat /\ LruCapacity \in Nat \ {0} /\ MaxRoutes \in Nat

VARIABLES
    registered,    \* number of registrations; each one's number is its handler
    fast_static,   \* static_route_results: <<method, path>> -> handler or None
    fast_dynamic,  \* precompiled_routes
    fast_cache,    \* FastRouteCache: <<method, path>> -> handler or None
    lru_cache,     \* <<<<method, path>>, handler>>, most recently used first
    cache_enabled, sort_enabled, use_fast_cache,
    hyb_static, hyb_dynamic, hyb_cache,   \* the same of the hybrid router
    use_fast_router,
    stale          \* history: cached matches older than the last change of the dynamic routes

fastVars == <<fast_static, fast_dynamic, fast_cache, lru_cache>>
settings == <<cache_enabled, sort_enabled, use_fast_cache, use_fast_router>>
hybVars  == <<hyb_static, hyb_dynamic, hyb_cache>>
vars == <<registered, fastVars, settings, hybVars, stale>>

Handlers == 1..MaxRoutes
Requests == Methods \X Paths
Route    == [method : Methods, pattern : Patterns, handler : Handlers]

Entries(cache) == {cache[i] : i \in DOMAIN cache}

\* The cached matches of either router, named by cache and key.
FastHeld   == {<<"fast", k>> : k \in {x \in Requests : fast_cache[x] # None}}
              \cup {<<"lru", e[1]>> : e \in Entries(lru_cache)}
HybridHeld == {<<"hybrid", e[1]>> : e \in Entries(hyb_cache)}

\* A change of a router's dynamic routes ages what its caches hold.
Ages == stale' = (FastHeld \cup HybridHeld)' \cap
    (stale \cup (IF fast_dynamic' = fast_dynamic THEN {} ELSE FastHeld)
           \cup (IF hyb_dynamic' = hyb_dynamic THEN {} ELSE HybridHeld))

TypeOK ==
    /\ registered \in 0..MaxRoutes
    /\ fast_static \in [Methods \X Patterns -> Handlers \cup {None}]
    /\ hyb_static \in [Methods \X Patterns -> Handlers \cup {None}]
    /\ fast_cache \in [Requests -> Handlers \cup {None}]
    /\ fast_dynamic \in Seq(Route) /\ hyb_dynamic \in Seq(Route)
    /\ Entries(lru_cache) \cup Entries(hyb_cache) \subseteq Requests \X Handlers
    /\ Len(lru_cache) <= LruCapacity /\ Len(hyb_cache) <= LruCapacity
    /\ Cardinality({k \in Requests : fast_cache[k] # None}) <= IF FastCapacity = 0 THEN 1 ELSE FastCapacity
    /\ settings \in BOOLEAN \X BOOLEAN \X BOOLEAN \X FastModes
    /\ stale \subseteq FastHeld \cup HybridHeld

Init ==
    /\ registered = 0
    /\ fast_static = [k \in Methods \X Patterns |-> None]
    /\ fast_dynamic = <<>>
    /\ fast_cache = [k \in Requests |-> None]
    /\ lru_cache = <<>>
    /\ cache_enabled = TRUE /\ sort_enabled = TRUE /\ use_fast_cache = TRUE
    /\ hyb_static = [k \in Methods \X Patterns |-> None]
    /\ hyb_dynamic = <<>>
    /\ hyb_cache = <<>>
    /\ use_fast_router \in FastModes
    /\ stale = {}

----------------------------------------------------------------------------
(* Registration *)

Cost(r) == calculate_route_complexity(r.pattern)
Sorted(routes) == \A i, j \in DOMAIN routes : i < j => Cost(routes[i]) <= Cost(routes[j])

\* What qsort may leave: a sorted permutation, in any order among equals.
sort_dynamic_routes(routes) ==
    {[i \in DOMAIN routes |-> routes[p[i]]] : p \in
        {p \in [DOMAIN routes -> DOMAIN routes] :
            /\ \A i, j \in DOMAIN routes : p[i] = p[j] => i = j
            /\ Sorted([i \in DOMAIN routes |-> routes[p[i]]])}}

fast_add_route(r) ==
    /\ IF is_static_path(r.pattern)
       THEN /\ fast_static' = [fast_static EXCEPT ![<<r.method, r.pattern>>] = r.handler]
            /\ UNCHANGED fast_dynamic
       ELSE /\ fast_dynamic' \in IF sort_enabled
                                 THEN sort_dynamic_routes(Append(fast_dynamic, r))
                                 ELSE {Append(fast_dynamic, r)}
            /\ UNCHANGED fast_static
    /\ UNCHANGED <<fast_cache, lru_cache, hybVars>>

hybrid_add_route(r) ==
    /\ IF is_static_path(r.pattern)
       THEN /\ hyb_static' = [hyb_static EXCEPT ![<<r.method, r.pattern>>] = r.handler]
            /\ UNCHANGED hyb_dynamic
       ELSE /\ hyb_dynamic' \in sort_dynamic_routes(Append(hyb_dynamic, r))
            /\ UNCHANGED hyb_static
    /\ UNCHANGED <<hyb_cache, fastVars>>

\* app.get, app.post, ...: a pattern that does not compile goes to the hybrid router.
add_route(m, pat) ==
    LET r == [method |-> m, pattern |-> pat, handler |-> registered + 1] IN
    /\ registered < MaxRoutes
    /\ registered' = registered + 1
    /\ IF use_fast_router /\ pat \notin Uncompilable THEN fast_add_route(r) ELSE hybrid_add_route(r)
    /\ UNCHANGED settings
    /\ Ages

----------------------------------------------------------------------------
(* Matching *)

\* The handler of the first of the routes at the given positions.
First(routes, hits) ==
    IF hits = {} THEN None
    ELSE routes[CHOOSE i \in hits : \A j \in hits : i <= j].handler

\* Mutant: the method of a route is not compared.
fast_scan_anymethod(k) ==
    First(fast_dynamic, {i \in DOMAIN fast_dynamic : fast_matches(fast_dynamic[i].pattern, k[2])})
fast_scan(k) ==
    First(fast_dynamic, {i \in DOMAIN fast_dynamic :
        fast_dynamic[i].method = k[1] /\ fast_matches(fast_dynamic[i].pattern, k[2])})

\* The hybrid router's dynamic routes have no method.
hybrid_scan(k) ==
    First(hyb_dynamic, {i \in DOMAIN hyb_dynamic : hybrid_matches(hyb_dynamic[i].pattern, k[2])})

StaticOf(map, k) == IF k[2] \in Patterns THEN map[k] ELSE None

\* An LRU cache: what it holds for a key, and the cache after a get or put.
Cached(cache, k) ==
    LET hits == {e \in Entries(cache) : e[1] = k}
    IN  IF hits = {} THEN None ELSE (CHOOSE e \in hits : TRUE)[2]
Used(cache, k, h) ==
    LET at   == {i \in DOMAIN cache : cache[i][1] = k}
        rest == IF at = {} THEN cache ELSE RemoveAt(cache, CHOOSE i \in at : TRUE)
    IN  <<<<k, h>>>> \o IF Len(rest) >= LruCapacity THEN SubSeq(rest, 1, LruCapacity - 1) ELSE rest

\* Mutant: the key of the cache leaves out the method.
fast_put_path(k, h) == [x \in Requests |-> IF x[2] = k[2] THEN h ELSE fast_cache[x]]

\* A full fast_cache is emptied before the put.
fast_put(k, h) ==
    LET full == Cardinality({x \in Requests : fast_cache[x] # None}) >= FastCapacity
    IN  [x \in Requests |-> IF x = k THEN h ELSE IF full THEN None ELSE fast_cache[x]]

\* FastRouter.match_route: the handler it finds for k.
fast_lookup(k) ==
    LET hit == IF use_fast_cache THEN fast_cache[k] ELSE Cached(lru_cache, k)
    IN  IF StaticOf(fast_static, k) # None THEN StaticOf(fast_static, k)
        ELSE IF cache_enabled /\ hit # None THEN hit
        ELSE fast_scan(k)

\* Its effect on the caches.
fast_remember(k) ==
    LET h == fast_lookup(k) IN
    IF StaticOf(fast_static, k) = None /\ h # None /\ cache_enabled
    THEN IF use_fast_cache
         THEN /\ fast_cache' = IF fast_cache[k] # None THEN fast_cache ELSE fast_put(k, h)
              /\ UNCHANGED lru_cache
         ELSE lru_cache' = Used(lru_cache, k, h) /\ UNCHANGED fast_cache
    ELSE UNCHANGED <<fast_cache, lru_cache>>

hybrid_lookup(k) ==
    IF StaticOf(hyb_static, k) # None THEN StaticOf(hyb_static, k)
    ELSE IF Cached(hyb_cache, k) # None THEN Cached(hyb_cache, k)
    ELSE hybrid_scan(k)

hybrid_remember(k) ==
    LET h == hybrid_lookup(k)
    IN  hyb_cache' = IF StaticOf(hyb_static, k) # None \/ h = None THEN hyb_cache
                     ELSE Used(hyb_cache, k, h)

\* A request: the hybrid router is asked when the fast one is off or finds
\* nothing.
match_route(m, p) ==
    LET k == <<m, p>> IN
    /\ IF use_fast_router /\ fast_lookup(k) # None
       THEN fast_remember(k) /\ UNCHANGED hyb_cache
       ELSE hybrid_remember(k) /\ UNCHANGED <<fast_cache, lru_cache>>
    /\ UNCHANGED <<registered, fast_static, fast_dynamic, hyb_static, hyb_dynamic, settings>>
    /\ Ages

\* An entry of an LRU cache outlives its time and is dropped.
expire ==
    /\ \/ /\ \E i \in DOMAIN lru_cache : lru_cache' = RemoveAt(lru_cache, i)
          /\ UNCHANGED hyb_cache
       \/ /\ \E i \in DOMAIN hyb_cache : hyb_cache' = RemoveAt(hyb_cache, i)
          /\ UNCHANGED lru_cache
    /\ UNCHANGED <<registered, fast_static, fast_dynamic, fast_cache, hyb_static, hyb_dynamic, settings>>
    /\ Ages

----------------------------------------------------------------------------
(* Settings *)

\* app.clear_cache: of the fast router only the LRU cache is cleared.
clear_cache ==
    /\ IF use_fast_router THEN lru_cache' = <<>> /\ UNCHANGED hyb_cache
       ELSE hyb_cache' = <<>> /\ UNCHANGED lru_cache
    /\ UNCHANGED <<registered, fast_static, fast_dynamic, fast_cache, hyb_static, hyb_dynamic, settings>>
    /\ Ages

set_cache_enabled(b) ==
    /\ cache_enabled' = b
    /\ lru_cache' = IF b THEN lru_cache ELSE <<>>
    /\ UNCHANGED <<registered, fast_static, fast_dynamic, fast_cache, hybVars, sort_enabled,
                   use_fast_cache, use_fast_router>>
    /\ Ages

\* An assignment to the public field use_fast_cache.
set_use_fast_cache(b) ==
    /\ use_fast_cache' = b
    /\ UNCHANGED <<registered, fastVars, hybVars, cache_enabled, sort_enabled, use_fast_router>>
    /\ Ages

\* Mutant: the routes are not sorted when sorting is switched on.
resorted_not(b) == {fast_dynamic}
resorted(b) == IF b THEN sort_dynamic_routes(fast_dynamic) ELSE {fast_dynamic}

set_sort_enabled(b) ==
    /\ sort_enabled' = b
    /\ fast_dynamic' \in resorted(b)
    /\ UNCHANGED <<registered, fast_static, fast_cache, lru_cache, hybVars, cache_enabled,
                   use_fast_cache, use_fast_router>>
    /\ Ages

set_fast_router_enabled(b) ==
    /\ b \in FastModes
    /\ use_fast_router' = b
    /\ UNCHANGED <<registered, fastVars, hybVars, cache_enabled, sort_enabled, use_fast_cache>>
    /\ Ages

Next ==
    \/ \E m \in Methods, pat \in Patterns : add_route(m, pat)
    \/ \E m \in Methods, p \in Paths : match_route(m, p)
    \/ expire
    \/ clear_cache
    \/ \E b \in BOOLEAN : \/ set_cache_enabled(b) \/ set_use_fast_cache(b)
                          \/ set_sort_enabled(b) \/ set_fast_router_enabled(b)

Spec == Init /\ [][Next]_vars

----------------------------------------------------------------------------
(* What the routers promise *)

\* The handlers the registered routes alone give.
fast_fresh(k)   == IF StaticOf(fast_static, k) # None THEN StaticOf(fast_static, k) ELSE fast_scan(k)
hybrid_fresh(k) == IF StaticOf(hyb_static, k) # None THEN StaticOf(hyb_static, k) ELSE hybrid_scan(k)

\* The handlers of a router's dynamic routes that match k.
FastMatching(k) == {r.handler : r \in {x \in Entries(fast_dynamic) :
                                          x.method = k[1] /\ fast_matches(x.pattern, k[2])}}
HybridMatching(k) == {r.handler : r \in {x \in Entries(hyb_dynamic) : hybrid_matches(x.pattern, k[2])}}

\* The cache FastRouter looks into.
Consulted == IF use_fast_cache THEN "fast" ELSE "lru"

(***************************************************************************)
(* The caches show nothing but their age.  Whatever was registered,        *)
(* matched, evicted, cleared, switched off and on before, either router    *)
(* finds the handler its registered routes alone give, unless the cache it *)
(* consults holds a match that is older than the last change of its        *)
(* dynamic routes (clear_cache, fast_router.v:288, leaves fast_cache       *)
(* alone); and such a match is still one of a route that matches.          *)
(***************************************************************************)
CacheTransparent == \A k \in Requests :
    /\ \/ fast_lookup(k) = fast_fresh(k)
       \/ <<Consulted, k>> \in stale /\ cache_enabled /\ fast_lookup(k) \in FastMatching(k)
    /\ \/ hybrid_lookup(k) = hybrid_fresh(k)
       \/ <<"hybrid", k>> \in stale /\ hybrid_lookup(k) \in HybridMatching(k)

(***************************************************************************)
(* fast_router.v:93 "simple routes first": with sorting switched on, the   *)
(* route that answers a request is among the simplest that match it, also  *)
(* for routes that were registered while sorting was off.                  *)
(***************************************************************************)
SimplestFirst ==
    sort_enabled => \A k \in Requests : \A i, j \in DOMAIN fast_dynamic :
        /\ fast_dynamic[i].handler = fast_scan(k)
        /\ fast_dynamic[j].method = k[1] /\ fast_matches(fast_dynamic[j].pattern, k[2])
        => Cost(fast_dynamic[i]) <= Cost(fast_dynamic[j])

\* The method a handler was registered for.
MethodOf(h) ==
    {r.method : r \in {x \in Entries(fast_dynamic) : x.handler = h}}
    \cup {k[1] : k \in {x \in Methods \X Patterns : fast_static[x] = h}}

(***************************************************************************)
(* README.md:1615 "app.get(path, handler) - Register GET route": a request *)
(* that FastRouter answers, from its tables or its caches, is answered by  *)
(* a handler registered for its method.  The hybrid router's dynamic       *)
(* routes do not keep the promise.                                         *)
(***************************************************************************)
MethodRespected ==
    \A k \in Requests : fast_lookup(k) # None => k[1] \in MethodOf(fast_lookup(k))
============================================================================
