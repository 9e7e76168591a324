------------------------- MODULE MCContextLRUCache -------------------------
(***************************************************************************)
(* Small instances of ContextLRUCache, the walk of its list, and the       *)
(* refinement mapping to LRUList.                                          *)
(***************************************************************************)
EXTENDS ContextLRUCache, Sequences, TLC

\* The nodes met from a first one on, at most one more than there are nodes.
Walk(first, succ) ==
    LET step[i \in 0..Cardinality(Nodes) + 1] ==
            IF i = 0 THEN <<first, <<>>>>
            ELSE LET s == step[i - 1]
                 IN  IF s[1] = Nil THEN s ELSE <<succ[s[1]], Append(s[2], s[1])>>
    IN  step[Cardinality(Nodes) + 1][2]

Order   == LET w == Walk(head, next) IN [i \in DOMAIN w |-> key[w[i]]]
ValueOf == [k \in Keys |-> IF cache[k] = Nil THEN None ELSE value[cache[k]]]
AgeOf   == [k \in Keys |-> IF cache[k] = Nil THEN 0 ELSE age[cache[k]]]

Abstract == INSTANCE LRUList WITH
    order <- Order, value <- ValueOf, age <- AgeOf, ttl <- ttl_seconds, Capacity <- Bound

(***************************************************************************)
(* The linked list implements the abstract LRU cache: every step of every  *)
(* call is a use, an insertion, an eviction of the least recently used     *)
(* entry of a full cache, an expiry, or invisible.                         *)
(***************************************************************************)
ImplementsLRU == Abstract!Spec

Symmetry == Permutations(Nodes) \cup Permutations(Values) \cup Permutations(Keys)
============================================================================
