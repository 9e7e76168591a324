-------------------------------- MODULE App --------------------------------
(***************************************************************************)
(* An application of app.v: handlers and middlewares are registered, sub-  *)
(* applications are mounted under prefixes, one of four ways to listen is  *)
(* taken (app.v, picoev_server.v, usockets_server.v), and requests pass    *)
(* through the chain of middlewares to a handler.                          *)
(*                                                                         *)
(* A path is a sequence of characters, "/" among them, since prefixes are  *)
(* compared character by character.  Which of several patterns answers a   *)
(* path is the subject of Routers; here paths have no parameters, the last *)
(* registration for a path answers it, and methods behave alike.           *)
(***************************************************************************)
EXTENDS Naturals, Sequences, SequencesExt, FiniteSets

CONSTANTS
    Apps, Root,       \* the applications; Root is the one that listens
    MountPoints,      \* prefixes of mounts
    HandlerPaths,     \* paths handlers are registered for
    RequestPaths,     \* paths requests ask for
    Listeners,        \* the ways to listen that occur
    Nested,           \* TRUE: sub-applications mount sub-applications
    MaxMws, MaxHandlers, MaxMounts   \* bounds on registrations

Listen == {"listen", "listen_usockets", "listen_picoev", "listen_http"}

ASSUME AppAssumption ==
    /\ Root \in Apps
    /\ Listeners \subseteq Listen /\ Nested \in BOOLEAN
    /\ MaxMws \in Nat /\ MaxHandlers \in Nat /\ MaxMounts \in Nat
\* A program mounts under finitely many prefixes.
ASSUME PathsAssumption ==
    /\ MountPoints \subseteq Seq(STRING) /\ IsFiniteSet(MountPoints)
    /\ HandlerPaths \subseteq Seq(STRING)

VARIABLES
    handlers,           \* app -> context_router.handlers and the static routes
    middlewares,        \* app -> context_middlewares
    route_middlewares,  \* app -> prefix -> middlewares; empty: no such key
    has_middlewares,    \* app -> flag
    sorted_prefixes,    \* sorted_middleware_prefixes of Root
    listener,           \* "" or the way Root listens
    mounts,             \* number of mounts so far
    request             \* the request being processed

appVars == <<handlers, middlewares, route_middlewares, has_middlewares, sorted_prefixes, mounts>>
vars == <<appVars, listener, request>>

Mws   == 1..MaxMws
Slash == <<"/">>

\* guards: history, the middlewares of the applications a handler was mounted with.
Handler == [path : Seq(STRING), guards : SUBSET Mws, id : 1..MaxHandlers]
None    == [path |-> <<>>, guards |-> {}, id |-> 0]

\* A middleware in a chain, with the prefix it was found under.
Link == [at : MountPoints \cup {<<>>}, mw : Mws]

Idle == [phase |-> "idle", path |-> <<>>, upgrade |-> FALSE, handler |-> None, chain |-> <<>>, ran |-> <<>>]

TypeOK ==
    /\ \A a \in Apps :
          /\ \A i \in DOMAIN handlers[a] : handlers[a][i] \in Handler
          /\ middlewares[a] \in Seq(Mws)
          /\ has_middlewares[a] \in BOOLEAN
    /\ route_middlewares \in [Apps -> [MountPoints -> Seq(Mws)]]
    /\ sorted_prefixes \in Seq(MountPoints)
    /\ listener \in Listeners \cup {""}
    /\ mounts \in 0..MaxMounts
    /\ request.phase \in {"idle", "chain", "handled", "upgraded", "missed", "stopped"}
    /\ request.path \in RequestPaths \cup {<<>>} /\ request.upgrade \in BOOLEAN
    /\ request.chain \in Seq(Link) /\ IsPrefix(request.ran, request.chain)

Init ==
    /\ handlers = [a \in Apps |-> <<>>]
    /\ middlewares = [a \in Apps |-> <<>>]
    /\ route_middlewares = [a \in Apps |-> [p \in MountPoints |-> <<>>]]
    /\ has_middlewares = [a \in Apps |-> FALSE]
    /\ sorted_prefixes = <<>>
    /\ listener = ""
    /\ mounts = 0
    /\ request = Idle

----------------------------------------------------------------------------
(* Registration *)

\* What was registered first hand: mounts only copy it.
Used(a)  == {middlewares[a][i] : i \in DOMAIN middlewares[a]}
AllUsed  == UNION {Used(a) : a \in Apps}
AllIds   == UNION {{handlers[a][i].id : i \in DOMAIN handlers[a]} : a \in Apps}

\* get, post, ...
get(a, path) ==
    /\ listener = ""
    /\ Cardinality(AllIds) < MaxHandlers
    /\ handlers' = [handlers EXCEPT ![a] =
          Append(@, [path |-> path, guards |-> {}, id |-> Cardinality(AllIds) + 1])]
    /\ UNCHANGED <<middlewares, route_middlewares, has_middlewares, sorted_prefixes, mounts,
                   listener, request>>

use(a) ==
    /\ listener = ""
    /\ Cardinality(AllUsed) < MaxMws
    /\ middlewares' = [middlewares EXCEPT ![a] = Append(@, Cardinality(AllUsed) + 1)]
    /\ has_middlewares' = [has_middlewares EXCEPT ![a] = TRUE]
    /\ UNCHANGED <<handlers, route_middlewares, sorted_prefixes, mounts, listener, request>>

\* The path of a sub-application's handler after the mount.
mounted_path(prefix, path) ==
    IF path \in {Slash, <<>>} THEN prefix
    ELSE IF path[1] = "/" THEN prefix \o path
    ELSE prefix \o Slash \o path

\* The handlers of b as merge_routes_for_method adds them.
merged(prefix, b) ==
    [i \in DOMAIN handlers[b] |->
        [path   |-> mounted_path(prefix, handlers[b][i].path),
         guards |-> handlers[b][i].guards \cup Used(b),
         id     |-> handlers[b][i].id]]

\* Mutant: the middlewares mounted before under the same prefix are overwritten.
inherited_last(a, prefix, b) == middlewares[b]
\* Middlewares under the prefix after a mount.
inherited(a, prefix, b) == route_middlewares[a][prefix] \o middlewares[b]

\* app.route: only the sub-application's own middlewares are taken over, not
\* those of applications mounted on it.
route(a, prefix, b) ==
    /\ listener = ""
    /\ a # b /\ b # Root
    /\ Nested \/ a = Root
    /\ mounts < MaxMounts
    /\ mounts' = mounts + 1
    /\ handlers' = [handlers EXCEPT ![a] = @ \o merged(prefix, b)]
    /\ IF middlewares[b] # <<>>
       THEN /\ route_middlewares' = [route_middlewares EXCEPT ![a][prefix] = inherited(a, prefix, b)]
            /\ has_middlewares' = [has_middlewares EXCEPT ![a] = TRUE]
       ELSE UNCHANGED <<route_middlewares, has_middlewares>>
    /\ UNCHANGED <<middlewares, sorted_prefixes, listener, request>>

----------------------------------------------------------------------------
(* Listening *)

Keys == {p \in MountPoints : route_middlewares[Root][p] # <<>>}

\* Mutant: the prefixes are not sorted.
prefix_orders_any ==
    {s \in [1..Cardinality(Keys) -> Keys] : \A i, j \in DOMAIN s : s[i] = s[j] => i = j}
\* The orders that sorting the prefixes by length can leave.
prefix_orders ==
    {s \in [1..Cardinality(Keys) -> Keys] :
        \A i, j \in DOMAIN s : i < j => s[i] # s[j] /\ Len(s[i]) <= Len(s[j])}

precompute_middleware_prefixes ==
    /\ sorted_prefixes' \in prefix_orders
    /\ has_middlewares' = [has_middlewares EXCEPT ![Root] = middlewares[Root] # <<>> \/ Keys # {}]

\* listen_http, and listen_picoev called directly, serve without the prefixes.
listen(how) ==
    /\ listener = ""
    /\ listener' = how
    /\ IF how \in {"listen", "listen_usockets"} THEN precompute_middleware_prefixes
       ELSE UNCHANGED <<sorted_prefixes, has_middlewares>>
    /\ UNCHANGED <<handlers, middlewares, route_middlewares, mounts, request>>

----------------------------------------------------------------------------
(* Requests *)

\* The handler of a path: the last one registered.
match_route(path) ==
    LET hits == {i \in DOMAIN handlers[Root] : handlers[Root][i].path = path}
    IN  IF hits = {} THEN None ELSE handlers[Root][CHOOSE i \in hits : \A j \in hits : j <= i]

Links(at, mws) == [i \in DOMAIN mws |-> [at |-> at, mw |-> mws[i]]]
Globals == Links(<<>>, middlewares[Root])

applies(prefix, path) == IsPrefix(prefix, path) \/ prefix = Slash

get_middlewares_for_path(path) ==
    Globals \o FlattenSeq([i \in DOMAIN sorted_prefixes |->
        IF applies(sorted_prefixes[i], path)
        THEN Links(sorted_prefixes[i], route_middlewares[Root][sorted_prefixes[i]])
        ELSE <<>>])

\* The chain of a plain request.  Without a route, only the http server runs
\* the global middlewares; the other servers answer 404 at once.
chain(path) ==
    IF match_route(path) = None
    THEN IF listener = "listen_http" THEN Globals ELSE <<>>
    ELSE IF has_middlewares[Root] THEN get_middlewares_for_path(path) ELSE <<>>

\* A request comes in and is matched.
receive(path) ==
    /\ listener # "" /\ request.phase = "idle"
    /\ request' = [phase |-> "chain", path |-> path, upgrade |-> FALSE, handler |-> match_route(path),
                   chain |-> chain(path), ran |-> <<>>]
    /\ UNCHANGED <<appVars, listener>>

\* A request of an event-loop server that carries the headers of an upgrade.
\* The version or the key is refused ("stopped"), or the handler is called at
\* once, without a chain: it upgrades, or it is any other handler of the route
\* and its response is sent ("handled").
receive_upgrade(path) ==
    /\ listener \notin {"", "listen_http"} /\ request.phase = "idle"
    /\ match_route(path) # None
    /\ \E phase \in {"stopped", "upgraded", "handled"} :
          request' = [phase |-> phase, path |-> path, upgrade |-> TRUE, handler |-> match_route(path),
                      chain |-> <<>>, ran |-> <<>>]
    /\ UNCHANGED <<appVars, listener>>

\* The middleware at the index of the chain.
current == request.chain[Len(request.ran) + 1]

\* The next middleware of the chain calls next, or answers itself.
exec_middleware(goes_on) ==
    /\ request.phase = "chain" /\ Len(request.ran) < Len(request.chain)
    /\ request' = [request EXCEPT
          !.ran   = Append(@, current),
          !.phase = IF goes_on THEN @ ELSE "stopped"]
    /\ UNCHANGED <<appVars, listener>>

\* The end of the chain: the handler, or the answer 404.
exec_handler ==
    /\ request.phase = "chain" /\ request.ran = request.chain
    /\ request' = [request EXCEPT !.phase = IF request.handler = None THEN "missed" ELSE "handled"]
    /\ UNCHANGED <<appVars, listener>>

respond ==
    /\ request.phase \in {"handled", "upgraded", "missed", "stopped"}
    /\ request' = Idle
    /\ UNCHANGED <<appVars, listener>>

Next ==
    \/ \E a \in Apps, path \in HandlerPaths : get(a, path)
    \/ \E a \in Apps : use(a)
    \/ \E a, b \in Apps, prefix \in MountPoints : route(a, prefix, b)
    \/ \E how \in Listeners : listen(how)
    \/ \E path \in RequestPaths : receive(path)
    \/ \E path \in RequestPaths : receive_upgrade(path)
    \/ \E goes_on \in BOOLEAN : exec_middleware(goes_on)
    \/ exec_handler
    \/ respond

Spec == Init /\ [][Next]_vars

----------------------------------------------------------------------------
(* What the application promises *)

Ran == {request.ran[i].mw : i \in DOMAIN request.ran}

(***************************************************************************)
(* docs/ROUTE_GROUPING_CHANGELOG.md:36, the middlewares of a sub-          *)
(* application carry over: the handler of a request that does not ask for  *)
(* an upgrade runs only after the global middlewares, and those its sub-   *)
(* applications had when they were mounted, have all called next, whatever *)
(* was mounted where and in which order.  With the headers of an upgrade   *)
(* any handler runs without them (picoev_server.v:158,                     *)
(* usockets_server.v:192).                                                 *)
(***************************************************************************)
GuardsRun ==
    request.phase = "handled" /\ ~request.upgrade =>
        request.handler.guards \cup Used(Root) \subseteq Ran

(***************************************************************************)
(* README.md:1600, static files are served by a global middleware, and     *)
(* examples/websocket_demo.v:29, a middleware runs before an upgrade:      *)
(* global middlewares have called next before anything else answers, also  *)
(* before the answer 404 and before an upgrade.                            *)
(***************************************************************************)
GlobalsRun == request.phase \in {"handled", "upgraded", "missed"} => Used(Root) \subseteq Ran

(***************************************************************************)
(* app.v:361, prefixes are sorted before the server starts: the            *)
(* middlewares of a prefix run after the global ones and after those of    *)
(* every prefix that contains it.                                          *)
(***************************************************************************)
OuterFirst ==
    \A i, j \in DOMAIN request.ran :
        i < j => ~(IsPrefix(request.ran[j].at, request.ran[i].at) /\ request.ran[i].at # request.ran[j].at)
============================================================================
