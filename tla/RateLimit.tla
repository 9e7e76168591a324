------------------------------ MODULE RateLimit ------------------------------
(***************************************************************************)
(* The rate limiter (rate_limit.v): MemoryStore, a map of counters behind  *)
(* a mutex, and the rate_limit middlewares that share it.  Worker threads  *)
(* pass their request through the limiters one after the other; each       *)
(* limiter increments the client's counter under the lock, releases it,    *)
(* and decides on the count it was given.  A skipped limiter does nothing  *)
(* and is left out.                                                        *)
(***************************************************************************)
EXTENDS Naturals, Sequences, Functions

CONSTANTS
    Workers,    \* requests in flight
    Keys,       \* clients, as generate_rate_limit_key names them
    Limits,     \* options.limit of each limiter that uses the store, in order
    Window,     \* options.window_ms
    MaxTime,    \* bound on the clock
    MaxResets,  \* bound on the calls of reset for one client
    MaxRequests,\* bound on the requests counted before another one may arrive
    None        \* no entry

ASSUME LimitsAssumption == Limits \in Seq(Nat) /\ Limits # <<>>
ASSUME TimeAssumption == Window \in Nat \ {0} /\ MaxTime \in Nat
                         /\ MaxResets \in Nat /\ MaxRequests \in Nat

VARIABLES
    now,        \* time.now().unix_milli()
    data,       \* key -> None or [count, reset_at]
    req,        \* worker -> its request
    epoch,      \* history: key -> number of calls of reset
    arrived,    \* history: <<key, epoch, time>> -> requests that began then
    admitted    \* history: <<key, epoch, time>> -> of these, the ones let through

vars == <<now, data, req, epoch, arrived, admitted>>

Times  == 0..MaxTime
Epochs == 0..MaxResets
Slots  == Keys \X Epochs \X Times

Entry == [count : Nat \ {0}, reset_at : Nat]
\* No entry is no record.
ASSUME NoneAssumption == None \notin [count : Nat, reset_at : Nat]

Idle  == [pc |-> "idle", key |-> None, i |-> 0, count |-> 0, reset_at |-> 0,
          epoch |-> 0, time |-> 0]

TypeOK ==
    /\ now \in Times
    /\ data \in [Keys -> Entry \cup {None}]
    /\ req \in [Workers -> [pc : {"idle", "count", "decide"}, key : Keys \cup {None},
                            i : 0..Len(Limits), count : Nat, reset_at : Nat,
                            epoch : Epochs, time : Times]]
    /\ epoch \in [Keys -> Epochs]
    /\ arrived \in [Slots -> Nat]
    /\ admitted \in [Slots -> Nat]

Init ==
    /\ now = 0
    /\ data = [k \in Keys |-> None]
    /\ req = [w \in Workers |-> Idle]
    /\ epoch = [k \in Keys |-> 0]
    /\ arrived = [s \in Slots |-> 0]
    /\ admitted = [s \in Slots |-> 0]

----------------------------------------------------------------------------
\* A window is over from its reset_at on.
\* Mutant: windows do not end.
expired_never(e) == FALSE
expired(e) == now >= e.reset_at

\* Mutant: an update is lost.
incremented_lost(k) ==
    IF data[k] # None /\ ~expired(data[k]) THEN data[k]
    ELSE [count |-> 1, reset_at |-> now + Window]

\* The entry increment leaves behind.
incremented(k) ==
    IF data[k] # None /\ ~expired(data[k])
    THEN [data[k] EXCEPT !.count = @ + 1]
    ELSE [count |-> 1, reset_at |-> now + Window]

\* A request of client k reaches the first limiter.
Arrive(w, k) ==
    /\ req[w].pc = "idle"
    /\ FoldFunctionOnSet(+, 0, arrived, Slots) < MaxRequests
    /\ req' = [req EXCEPT ![w] = [Idle EXCEPT !.pc = "count", !.key = k, !.i = 1]]
    /\ UNCHANGED <<now, data, epoch, arrived, admitted>>

\* MemoryStore.increment, under the lock.
increment(w) ==
    LET k == req[w].key  s == <<k, epoch[k], now>> IN
    /\ req[w].pc = "count"
    /\ data' = [data EXCEPT ![k] = incremented(k)]
    /\ req' = [req EXCEPT ![w].pc = "decide", ![w].count = incremented(k).count,
                          ![w].reset_at = incremented(k).reset_at,
                          ![w].epoch = epoch[k], ![w].time = now]
    /\ arrived' = IF req[w].i = 1 THEN [arrived EXCEPT ![s] = @ + 1] ELSE arrived
    /\ UNCHANGED <<now, epoch, admitted>>

exceeded(w) == req[w].count > Limits[req[w].i]

\* The limit was exceeded: the answer is 429.
Reject(w) ==
    /\ req[w].pc = "decide"
    /\ exceeded(w)
    /\ req' = [req EXCEPT ![w] = Idle]
    /\ UNCHANGED <<now, data, epoch, arrived, admitted>>

\* next(c): the next limiter, or the handler.
Pass(w) ==
    LET s == <<req[w].key, req[w].epoch, req[w].time>> IN
    /\ req[w].pc = "decide"
    /\ ~exceeded(w)
    /\ IF req[w].i < Len(Limits)
       THEN /\ req' = [req EXCEPT ![w].pc = "count", ![w].i = @ + 1]
            /\ UNCHANGED admitted
       ELSE /\ req' = [req EXCEPT ![w] = Idle]
            /\ admitted' = [admitted EXCEPT ![s] = @ + 1]
    /\ UNCHANGED <<now, data, epoch, arrived>>

reset(k) ==
    /\ epoch[k] < MaxResets
    /\ data' = [data EXCEPT ![k] = None]
    /\ epoch' = [epoch EXCEPT ![k] = @ + 1]
    /\ UNCHANGED <<now, req, arrived, admitted>>

\* Mutant: every entry is dropped.
swept_all(k) == data[k] # None
swept(k) == data[k] # None /\ expired(data[k])

cleanup_expired ==
    /\ data' = [k \in Keys |-> IF swept(k) THEN None ELSE data[k]]
    /\ UNCHANGED <<now, req, epoch, arrived, admitted>>

Tick ==
    /\ now < MaxTime
    /\ now' = now + 1
    /\ UNCHANGED <<data, req, epoch, arrived, admitted>>

Next ==
    \/ \E w \in Workers : \/ \E k \in Keys : Arrive(w, k)
                          \/ increment(w) \/ Reject(w) \/ Pass(w)
    \/ \E k \in Keys : reset(k)
    \/ cleanup_expired
    \/ Tick

Spec == Init /\ [][Next]_vars

----------------------------------------------------------------------------
(* What the limiter promises *)

\* The sum of a history over the instants before x.
Before(history, k, e, x) ==
    LET upto[y \in 0..MaxTime + 1] == IF y = 0 THEN 0 ELSE upto[y - 1] + history[<<k, e, y - 1>>]
    IN  upto[x]

\* The sum of a history over the Window instants from t on.
InWindow(history, k, e, t) ==
    LET end == IF t + Window <= MaxTime THEN t + Window ELSE MaxTime + 1
    IN  Before(history, k, e, end) - Before(history, k, e, t)

(***************************************************************************)
(* No client gets more than twice the limit through in any stretch of      *)
(* Window milliseconds, although threads release the lock before they      *)
(* decide and expired entries are swept at any time: at most one window    *)
(* ends inside the stretch.                                                *)
(***************************************************************************)
AdmittedBounded ==
    \A k \in Keys, e \in Epochs, t \in Times :
        InWindow(admitted, k, e, t) <= 2 * Limits[Len(Limits)]

(***************************************************************************)
(* Two threads that hold counts of the same window never hold the same     *)
(* count: the increments of one client are serialised by the lock.         *)
(***************************************************************************)
CountsDistinct ==
    \A w, v \in Workers :
        w # v /\ req[w].pc = "decide" /\ req[v].pc = "decide"
        /\ req[w].key = req[v].key /\ req[w].epoch = req[v].epoch
        /\ req[w].reset_at = req[v].reset_at
            => req[w].count # req[v].count

(***************************************************************************)
(* README.md:417 "limit: 100 // Max 100 requests": a client is turned away *)
(* only when more than limit of its requests began within the last Window  *)
(* milliseconds before it was counted.                                     *)
(***************************************************************************)
RejectedOnlyOverLimit ==
    [][\A w \in Workers : req[w].pc = "decide" /\ exceeded(w) /\ req'[w].pc = "idle" =>
          InWindow(arrived, req[w].key, req[w].epoch,
                   IF req[w].time < Window THEN 0 ELSE req[w].time + 1 - Window)
              > Limits[req[w].i]]_vars
==============================================================================
