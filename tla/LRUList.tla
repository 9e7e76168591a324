------------------------------ MODULE LRUList ------------------------------
(***************************************************************************)
(* What an LRU cache with a time to live promises, without any list: the   *)
(* keys in order of last use, the entry of each, and four reasons for an   *)
(* entry to move or to go.  ContextLRUCache is shown to implement it.      *)
(***************************************************************************)
EXTENDS Naturals, Sequences, SequencesExt

CONSTANTS Keys, Values, Capacity, MaxAge, TTLs, None

VARIABLES
    order,   \* keys, most recently used first
    value,   \* key -> None or value
    age,     \* key -> seconds since its last use
    ttl,     \* seconds an unused entry may live; 0: for ever
    result   \* the last get: its key and what it answered

vars == <<order, value, age, ttl, result>>

Init ==
    /\ order = <<>>
    /\ value = [k \in Keys |-> None]
    /\ age = [k \in Keys |-> 0]
    /\ ttl \in TTLs
    /\ result = <<None, None>>

Held       == ToSet(order)
Places(k)  == {i \in DOMAIN order : order[i] = k}
Expired(k) == ttl > 0 /\ age[k] > ttl

\* A hit or an update: the entry becomes the most recently used one.
Use(k, v) ==
    /\ \E i \in Places(k) : order' = <<k>> \o RemoveAt(order, i)
    /\ value' = [value EXCEPT ![k] = v]
    /\ age' = [age EXCEPT ![k] = 0]

Get(k)  == ~Expired(k) /\ Use(k, value[k]) /\ result' = <<k, value[k]>> /\ UNCHANGED ttl
Miss(k) == k \notin Held /\ result' = <<k, None>> /\ UNCHANGED <<order, value, age, ttl>>
Update == \E k \in Keys, v \in Values : Use(k, v) /\ UNCHANGED <<ttl, result>>

Insert(k, v) ==
    /\ k \notin Held
    /\ Len(order) < Capacity
    /\ order' = <<k>> \o order
    /\ value' = [value EXCEPT ![k] = v]
    /\ age' = [age EXCEPT ![k] = 0]
    /\ UNCHANGED <<ttl, result>>

Forget(k) ==
    /\ \E i \in Places(k) : order' = RemoveAt(order, i)
    /\ value' = [value EXCEPT ![k] = None]
    /\ age' = [age EXCEPT ![k] = 0]

\* Only a full cache evicts, and only its least recently used entry.
Evict  == Len(order) = Capacity /\ order # <<>> /\ Forget(Last(order)) /\ UNCHANGED <<ttl, result>>
Expire == \E k \in Held : Expired(k) /\ Forget(k) /\ result' \in {result, <<k, None>>} /\ UNCHANGED ttl

Clear ==
    /\ order' = <<>>
    /\ value' = [k \in Keys |-> None]
    /\ age' = [k \in Keys |-> 0]
    /\ UNCHANGED <<ttl, result>>

Tick ==
    /\ age' = [k \in Keys |-> IF k \in Held /\ age[k] < MaxAge THEN age[k] + 1 ELSE age[k]]
    /\ UNCHANGED <<order, value, ttl, result>>

Next ==
    \/ \E k \in Keys : Get(k) \/ Miss(k)
    \/ Update \/ Evict \/ Expire \/ Clear \/ Tick
    \/ \E k \in Keys, v \in Values : Insert(k, v)
    \/ ttl' \in TTLs /\ UNCHANGED <<order, value, age, result>>

Spec == Init /\ [][Next]_vars
============================================================================
