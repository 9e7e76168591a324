-------------------------- MODULE ContextLRUCache --------------------------
(***************************************************************************)
(* ContextLRUCache (cache.v): a map from keys to nodes of a doubly linked  *)
(* list with head and tail pointers, a size counter, a time to live and a  *)
(* periodic sweep of expired entries.  A call is a short sequence of       *)
(* steps, one per list operation; the cache has a single user.             *)
(***************************************************************************)
EXTENDS Integers, FiniteSets

CONSTANTS
    Keys, Values, Nodes,
    Nil,        \* the nil pointer
    None,       \* no value
    EmptyKey,   \* '', which marks a node that was removed
    Capacity,
    TTLs,       \* values of ttl_seconds, 0: entries never expire
    Intervals,  \* values of cleanup_interval
    MaxAge      \* bound: no clock runs further

ASSUME CapacityAssumption == Capacity \in Nat
ASSUME NilAssumption == Nil \notin Nodes
ASSUME NodesFinite == IsFiniteSet(Nodes)
\* The routers' keys are a method and a path: never empty.
ASSUME KeysAssumption == EmptyKey \notin Keys
ASSUME TimesAssumption == TTLs \subseteq Nat /\ Intervals \subseteq Nat /\ MaxAge \in Nat

VARIABLES
    cache,         \* key -> node or Nil
    key, value, prev, next,  \* the fields of the nodes
    age,           \* node -> now - last_access
    head, tail, size,
    ttl_seconds, cleanup_interval,
    idle_time,     \* now - last_cleanup
    call,          \* the call in progress
    result         \* the last get: its key and what it answered

list == <<cache, key, value, prev, next, age, head, tail, size>>
vars == <<list, ttl_seconds, cleanup_interval, idle_time, call, result>>

Pointers == Nodes \cup {Nil}
KeysOrEmpty == Keys \cup {EmptyKey}

Ops == {"none", "get", "put", "cleanup"}
Call == [op : Ops, pc : {"idle", "sweep", "body", "insert"}, k : KeysOrEmpty,
         v : Values \cup {None}, expired : SUBSET Keys]

NoCall == [op |-> "none", pc |-> "idle", k |-> EmptyKey, v |-> None, expired |-> {}]

TypeOK ==
    /\ cache \in [Keys -> Pointers]
    /\ key \in [Nodes -> KeysOrEmpty]
    /\ value \in [Nodes -> Values \cup {None}]
    /\ prev \in [Nodes -> Pointers]
    /\ next \in [Nodes -> Pointers]
    /\ age \in [Nodes -> 0..MaxAge]
    /\ head \in Pointers /\ tail \in Pointers
    /\ size \in Nat
    /\ ttl_seconds \in TTLs /\ cleanup_interval \in Intervals
    /\ idle_time \in 0..MaxAge
    /\ call \in Call
    /\ result \in (Keys \cup {None}) \X (Values \cup {None})

Init ==
    /\ cache = [k \in Keys |-> Nil]
    /\ key = [n \in Nodes |-> EmptyKey]
    /\ value = [n \in Nodes |-> None]
    /\ prev = [n \in Nodes |-> Nil]
    /\ next = [n \in Nodes |-> Nil]
    /\ age = [n \in Nodes |-> 0]
    /\ head = Nil /\ tail = Nil /\ size = 0
    /\ ttl_seconds \in TTLs /\ cleanup_interval \in Intervals
    /\ idle_time = 0
    /\ call = NoCall
    /\ result = <<None, None>>

----------------------------------------------------------------------------
(* List operations *)

\* A node is unused when the map does not lead to it.
Fresh(n) == n \in Nodes /\ \A k \in Keys : cache[k] # n

is_expired(n) == ttl_seconds > 0 /\ age[n] > ttl_seconds

\* f with f[x] = y, where x may be the nil pointer (no write then).
Set(f, x, y) == IF x = Nil THEN f ELSE [f EXCEPT ![x] = y]

\* Mutant: the size is not counted down.
remove_node_uncounted(n) ==
    /\ cache' = [cache EXCEPT ![key[n]] = Nil]
    /\ next' = [Set(next, prev[n], next[n]) EXCEPT ![n] = Nil]
    /\ prev' = [Set(prev, next[n], prev[n]) EXCEPT ![n] = Nil]
    /\ head' = IF prev[n] = Nil THEN next[n] ELSE head
    /\ tail' = IF next[n] = Nil THEN prev[n] ELSE tail
    /\ key' = [key EXCEPT ![n] = EmptyKey]
    /\ UNCHANGED <<value, age, size>>

\* A removed node is garbage: its value and clock are no longer of interest.
remove_node(n) ==
    IF key[n] = EmptyKey
    THEN UNCHANGED list
    ELSE /\ cache' = [cache EXCEPT ![key[n]] = Nil]
         /\ next' = [Set(next, prev[n], next[n]) EXCEPT ![n] = Nil]
         /\ prev' = [Set(prev, next[n], prev[n]) EXCEPT ![n] = Nil]
         /\ head' = IF prev[n] = Nil THEN next[n] ELSE head
         /\ tail' = IF next[n] = Nil THEN prev[n] ELSE tail
         /\ key' = [key EXCEPT ![n] = EmptyKey]
         /\ value' = [value EXCEPT ![n] = None]
         /\ age' = [age EXCEPT ![n] = 0]
         /\ size' = IF size > 0 THEN size - 1 ELSE size

\* Mutant: the new first node's prev is left unset.
add_to_front_unset(n) ==
    /\ next' = [next EXCEPT ![n] = head]
    /\ prev' = Set([prev EXCEPT ![n] = None], head, n)
    /\ head' = n
    /\ tail' = IF tail = Nil THEN n ELSE tail

add_to_front(n) ==
    /\ next' = [next EXCEPT ![n] = head]
    /\ prev' = Set([prev EXCEPT ![n] = Nil], head, n)
    /\ head' = n
    /\ tail' = IF tail = Nil THEN n ELSE tail

\* Mutant: the predecessor keeps pointing at the moved node.
move_to_front_linked(n) ==
    IF n = head
    THEN UNCHANGED <<prev, next, head, tail>>
    ELSE /\ next' = [next EXCEPT ![n] = head]
         /\ prev' = Set([Set(prev, next[n], prev[n]) EXCEPT ![n] = Nil], head, n)
         /\ head' = n
         /\ tail' = IF n = tail THEN prev[n] ELSE tail

move_to_front(n) ==
    IF n = head
    THEN UNCHANGED <<prev, next, head, tail>>
    ELSE /\ next' = [Set(next, prev[n], next[n]) EXCEPT ![n] = head]
         /\ prev' = Set([Set(prev, next[n], prev[n]) EXCEPT ![n] = Nil], head, n)
         /\ head' = n
         /\ tail' = IF n = tail THEN (IF prev[n] = Nil THEN n ELSE prev[n]) ELSE tail

\* Mutant: a used entry keeps its place.
touch_in_place(n, v) ==
    /\ value' = [value EXCEPT ![n] = v]
    /\ age' = [age EXCEPT ![n] = 0]
    /\ UNCHANGED <<cache, key, prev, next, head, tail, size>>

\* An entry is used: its value set, its clock reset, its node moved to the front.
touch(n, v) ==
    /\ value' = [value EXCEPT ![n] = v]
    /\ age' = [age EXCEPT ![n] = 0]
    /\ move_to_front(n)
    /\ UNCHANGED <<cache, key, size>>

----------------------------------------------------------------------------
(* Calls *)

At(op, pc) == call.op = op /\ call.pc = pc
config == <<ttl_seconds, cleanup_interval>>

ExpiredKeys ==
    IF ttl_seconds = 0 THEN {}
    ELSE {k \in Keys : cache[k] # Nil /\ is_expired(cache[k])}

\* get and put first run cleanup_expired_if_needed; force_cleanup_expired
\* sweeps at once and does not note the time.
Begin(op, k, v) ==
    /\ call.pc = "idle"
    /\ IF op = "cleanup"
       THEN /\ call' = [op |-> op, pc |-> "sweep", k |-> k, v |-> v, expired |-> ExpiredKeys]
            /\ UNCHANGED idle_time
       ELSE IF idle_time > cleanup_interval
       THEN /\ call' = [op |-> op, pc |-> "sweep", k |-> k, v |-> v, expired |-> ExpiredKeys]
            /\ idle_time' = 0
       ELSE /\ call' = [op |-> op, pc |-> "body", k |-> k, v |-> v, expired |-> {}]
            /\ UNCHANGED idle_time
    /\ UNCHANGED <<list, config, result>>

Sweep(k) ==
    /\ call.pc = "sweep"
    /\ k \in call.expired
    /\ IF cache[k] # Nil THEN remove_node(cache[k]) ELSE UNCHANGED list
    /\ call' = [call EXCEPT !.expired = @ \ {k}]
    /\ UNCHANGED <<config, idle_time, result>>

SweepDone ==
    /\ call.pc = "sweep"
    /\ call.expired = {}
    /\ call' = IF call.op = "cleanup" THEN NoCall ELSE [call EXCEPT !.pc = "body"]
    /\ UNCHANGED <<list, config, idle_time, result>>

Get ==
    LET n == cache[call.k] IN
    /\ At("get", "body")
    /\ \/ n = Nil /\ result' = <<call.k, None>> /\ UNCHANGED list
       \/ n # Nil /\ is_expired(n) /\ remove_node(n) /\ result' = <<call.k, None>>
       \/ n # Nil /\ ~is_expired(n) /\ touch(n, value[n]) /\ result' = <<call.k, value[n]>>
    /\ call' = NoCall
    /\ UNCHANGED <<config, idle_time>>

PutExisting ==
    /\ At("put", "body")
    /\ cache[call.k] # Nil
    /\ touch(cache[call.k], call.v)
    /\ call' = NoCall
    /\ UNCHANGED <<config, idle_time, result>>

\* A full cache first gives up its tail.
PutMakeRoom ==
    /\ At("put", "body")
    /\ cache[call.k] = Nil
    /\ IF size >= Capacity /\ tail # Nil THEN remove_node(tail) ELSE UNCHANGED list
    /\ call' = [call EXCEPT !.pc = "insert"]
    /\ UNCHANGED <<config, idle_time, result>>

PutInsert(n) ==
    /\ At("put", "insert")
    /\ Fresh(n)
    /\ key' = [key EXCEPT ![n] = call.k]
    /\ value' = [value EXCEPT ![n] = call.v]
    /\ age' = [age EXCEPT ![n] = 0]
    /\ cache' = [cache EXCEPT ![call.k] = n]
    /\ add_to_front(n)
    /\ size' = size + 1
    /\ call' = NoCall
    /\ UNCHANGED <<config, idle_time, result>>

clear ==
    /\ call.pc = "idle"
    /\ cache' = [k \in Keys |-> Nil]
    /\ key' = [n \in Nodes |-> EmptyKey]
    /\ value' = [n \in Nodes |-> None]
    /\ age' = [n \in Nodes |-> 0]
    /\ prev' = [n \in Nodes |-> Nil]
    /\ next' = [n \in Nodes |-> Nil]
    /\ head' = Nil /\ tail' = Nil /\ size' = 0
    /\ idle_time' = 0
    /\ UNCHANGED <<config, call, result>>

set_ttl(t) ==
    /\ call.pc = "idle"
    /\ ttl_seconds' = t
    /\ UNCHANGED <<list, cleanup_interval, idle_time, call, result>>

set_cleanup_interval(i) ==
    /\ call.pc = "idle"
    /\ cleanup_interval' = i
    /\ UNCHANGED <<list, ttl_seconds, idle_time, call, result>>

\* A second passes between two calls.
Tick ==
    /\ call.pc = "idle"
    /\ age' = [n \in Nodes |-> IF ~Fresh(n) /\ age[n] < MaxAge THEN age[n] + 1 ELSE age[n]]
    /\ idle_time' = IF idle_time < MaxAge THEN idle_time + 1 ELSE idle_time
    /\ UNCHANGED <<cache, key, value, prev, next, head, tail, size, config, call, result>>

Next ==
    \/ \E k \in Keys : Begin("get", k, None) \/ Sweep(k)
    \/ \E k \in Keys, v \in Values : Begin("put", k, v)
    \/ Begin("cleanup", EmptyKey, None)
    \/ SweepDone \/ Get \/ PutExisting \/ PutMakeRoom
    \/ \E n \in Nodes : PutInsert(n)
    \/ clear \/ Tick
    \/ \E t \in TTLs : set_ttl(t)
    \/ \E i \in Intervals : set_cleanup_interval(i)

Spec == Init /\ [][Next]_vars

----------------------------------------------------------------------------
(* What the code promises *)

\* The list, read from head to tail, is the sequence f: prev and next are
\* inverse to each other along it and it ends in nil on both sides.
ListIs(f) ==
    /\ \A i, j \in 1..size : f[i] = f[j] => i = j
    /\ head = IF size = 0 THEN Nil ELSE f[1]
    /\ tail = IF size = 0 THEN Nil ELSE f[size]
    /\ \A i \in 1..size :
          /\ ~Fresh(f[i])
          /\ next[f[i]] = IF i = size THEN Nil ELSE f[i + 1]
          /\ prev[f[i]] = IF i = 1 THEN Nil ELSE f[i - 1]

\* The map leads to the nodes of the sequence f and to no other, each under
\* its own key; all other nodes are detached.
MapIs(f) ==
    /\ \A k \in Keys : cache[k] # Nil => key[cache[k]] = k /\ \E i \in 1..size : f[i] = cache[k]
    /\ \A n \in Nodes : Fresh(n) => key[n] = EmptyKey /\ prev[n] = Nil /\ next[n] = Nil

(***************************************************************************)
(* The list and the map describe the same entries at every step of every   *)
(* call, whatever gets, puts, evictions, expiries and clears came before:  *)
(* the nodes form one doubly linked list of exactly size nodes, without    *)
(* cycle or repetition, the map holds exactly these nodes under their      *)
(* keys, and a removed node keeps no pointer into the list.                *)
(***************************************************************************)
ListWellFormed == \E f \in [1..size -> Nodes] : ListIs(f) /\ MapIs(f)

(***************************************************************************)
(* The cache never outgrows its capacity (cache.v:87: "if over capacity,   *)
(* first remove the least recently used node"), although put makes room    *)
(* and inserts in two steps; a capacity of 0 still holds one entry.        *)
(***************************************************************************)
Bound == IF Capacity = 0 THEN 1 ELSE Capacity
SizeBounded == size <= Bound
============================================================================
