----------------------- MODULE ContextLRUCache_proofs -----------------------
(***************************************************************************)
(* The linked list of ContextLRUCache is well formed and bounded for every *)
(* set of keys, values and nodes, every capacity and every time to live,   *)
(* and implements the abstract cache LRUList.                              *)
(***************************************************************************)
EXTENDS MCContextLRUCache, FiniteSetTheorems, SequenceTheorems, WellFoundedInduction, TLAPS

\* What a call in progress may rely on: it has a key, put has a value, and a
\* put about to insert found its key absent and room for one more entry.
CallOK ==
    /\ call.pc = "idle" \/ call.op \in {"get", "put", "cleanup"}
    /\ call.op \in {"get", "put"} => call.k \in Keys
    /\ call.op = "put" => call.v \in Values
    /\ call.pc \in {"body", "insert"} => call.op # "cleanup"
    /\ call.pc = "insert" => /\ call.op = "put"
                             /\ cache[call.k] = Nil
                             /\ size < Bound

IInv == TypeOK /\ ListWellFormed /\ SizeBounded /\ CallOK

\* TypeOK without the call, the answer and the configuration.
ListTypeOK ==
    /\ cache \in [Keys -> Pointers]
    /\ key \in [Nodes -> KeysOrEmpty]
    /\ value \in [Nodes -> Values \cup {None}]
    /\ prev \in [Nodes -> Pointers]
    /\ next \in [Nodes -> Pointers]
    /\ age \in [Nodes -> 0..MaxAge]
    /\ head \in Pointers /\ tail \in Pointers
    /\ size \in Nat

----------------------------------------------------------------------------
(* The list operations *)

\* A node of the list: it is reached by the map under its own key.
LEMMA LiveNode ==
  ASSUME ListTypeOK, ListWellFormed, NEW k \in Keys, cache[k] # Nil
  PROVE  cache[k] \in Nodes /\ key[cache[k]] = k /\ ~Fresh(cache[k]) /\ size > 0
  BY DEF ListTypeOK, ListWellFormed, MapIs, Fresh, Pointers

\* remove_node keeps the list well formed and counts the node out.
LEMMA RemoveNode ==
  ASSUME ListTypeOK, NEW f \in [1..size -> Nodes], ListIs(f), MapIs(f),
         NEW i \in 1..size, remove_node(f[i])
  PROVE  /\ ListTypeOK' /\ ListWellFormed'
         /\ size' = size - 1
         /\ \E g \in [1..size - 1 -> Nodes] :
               /\ ListIs(g)' /\ MapIs(g)'
               /\ \A j \in 1..size - 1 : g[j] = IF j < i THEN f[j] ELSE f[j + 1]
         /\ \A k \in Keys : cache[k] = Nil => cache'[k] = Nil
<1> DEFINE n == f[i]
<1>0. size \in Nat /\ i \in Int /\ 1 <= i /\ i <= size
  BY DEF ListTypeOK
<1>1. n \in Nodes /\ ~Fresh(n)
  BY DEF ListIs
<1>2. PICK k \in Keys : cache[k] = n
  BY <1>1 DEF Fresh
<1>3. n # Nil /\ key[n] = k /\ k # EmptyKey
  BY <1>1, <1>2, NilAssumption, KeysAssumption DEF MapIs
<1>4. /\ next[n] = (IF i = size THEN Nil ELSE f[i + 1])
      /\ prev[n] = (IF i = 1 THEN Nil ELSE f[i - 1])
  BY DEF ListIs
<1>5. /\ cache' = [cache EXCEPT ![k] = Nil]
      /\ next' = [Set(next, prev[n], next[n]) EXCEPT ![n] = Nil]
      /\ prev' = [Set(prev, next[n], prev[n]) EXCEPT ![n] = Nil]
      /\ head' = IF prev[n] = Nil THEN next[n] ELSE head
      /\ tail' = IF next[n] = Nil THEN prev[n] ELSE tail
      /\ key' = [key EXCEPT ![n] = EmptyKey]
      /\ value' = [value EXCEPT ![n] = None]
      /\ age' = [age EXCEPT ![n] = 0]
      /\ size' = size - 1
  BY <1>0, <1>3 DEF remove_node
<1>6. ListTypeOK'
  <2>1. next[n] \in Pointers /\ prev[n] \in Pointers /\ Nil \in Pointers
    BY <1>1 DEF ListTypeOK, Pointers
  <2>2. Set(next, prev[n], next[n]) \in [Nodes -> Pointers]
    BY <2>1 DEF ListTypeOK, Pointers, Set
  <2>3. Set(prev, next[n], prev[n]) \in [Nodes -> Pointers]
    BY <2>1 DEF ListTypeOK, Pointers, Set
  <2>4. next' \in [Nodes -> Pointers] /\ prev' \in [Nodes -> Pointers]
    BY <1>1, <1>5, <2>1, <2>2, <2>3
  <2>5. /\ cache' \in [Keys -> Pointers]
        /\ head' \in Pointers /\ tail' \in Pointers
    BY <1>5, <2>1 DEF ListTypeOK
  <2>6. /\ key' \in [Nodes -> KeysOrEmpty]
        /\ value' \in [Nodes -> Values \cup {None}]
    BY <1>5 DEF ListTypeOK, KeysOrEmpty
  <2>7. age' \in [Nodes -> 0..MaxAge] /\ size' \in Nat
    BY <1>0, <1>5, TimesAssumption DEF ListTypeOK
  <2> QED
    BY <2>4, <2>5, <2>6, <2>7 DEF ListTypeOK
<1>7. PICK g \in [1..size - 1 -> Nodes] :
              \A j \in 1..size - 1 : g[j] = IF j < i THEN f[j] ELSE f[j + 1]
  <2> DEFINE h == [j \in 1..size - 1 |-> IF j < i THEN f[j] ELSE f[j + 1]]
  <2>1. h \in [1..size - 1 -> Nodes]
    BY <1>0
  <2> QED
    BY <2>1
<1>8. \A m \in Nodes : Fresh(m)' <=> Fresh(m) \/ m = n
  <2>1. \A j \in Keys : cache[j] = n => j = k
    BY <1>2, <1>3 DEF MapIs
  <2> QED
    BY <1>1, <1>2, <1>3, <1>5, <2>1, NilAssumption DEF Fresh, ListTypeOK
<1>9. \A j \in 1..size : f[j] \in Nodes /\ f[j] # Nil /\ (f[j] = n => j = i)
  BY NilAssumption DEF ListIs
<1>10. \A j \in 1..size :
         j # i => /\ next'[f[j]] = IF j = i - 1 THEN next[n] ELSE next[f[j]]
                  /\ prev'[f[j]] = IF j = i + 1 THEN prev[n] ELSE prev[f[j]]
  <2> SUFFICES ASSUME NEW j \in 1..size, j # i
               PROVE  /\ next'[f[j]] = IF j = i - 1 THEN next[n] ELSE next[f[j]]
                      /\ prev'[f[j]] = IF j = i + 1 THEN prev[n] ELSE prev[f[j]]
    OBVIOUS
  <2>1. f[j] # n /\ f[j] \in Nodes /\ f[j] # Nil
    BY <1>9
  <2>2. f[j] = prev[n] <=> j = i - 1
    BY <1>0, <1>4, <1>9, <2>1 DEF ListIs
  <2>3. f[j] = next[n] <=> j = i + 1
    BY <1>0, <1>4, <1>9, <2>1 DEF ListIs
  <2>4. next'[f[j]] = IF j = i - 1 THEN next[n] ELSE next[f[j]]
    BY <1>5, <2>1, <2>2 DEF Set, ListTypeOK
  <2>5. prev'[f[j]] = IF j = i + 1 THEN prev[n] ELSE prev[f[j]]
    BY <1>5, <2>1, <2>3 DEF Set, ListTypeOK
  <2> QED
    BY <2>4, <2>5
<1>11. ListIs(g)'
  <2>1. \A a, b \in 1..size' : g[a] = g[b] => a = b
    <3> SUFFICES ASSUME NEW a \in 1..size - 1, NEW b \in 1..size - 1, g[a] = g[b]
                 PROVE  a = b
      BY <1>5
    <3> DEFINE up(c) == IF c < i THEN c ELSE c + 1
    <3>1. up(a) \in 1..size /\ up(b) \in 1..size
      BY <1>0
    <3>2. g[a] = f[up(a)] /\ g[b] = f[up(b)]
      BY <1>7
    <3> HIDE DEF up
    <3>3. up(a) = up(b)
      BY <3>1, <3>2 DEF ListIs
    <3> QED
      BY <1>0, <3>3 DEF up
  <2>2. head' = IF size' = 0 THEN Nil ELSE g[1]
    BY <1>0, <1>4, <1>5, <1>7, <1>9 DEF ListIs
  <2>3. tail' = IF size' = 0 THEN Nil ELSE g[size']
    BY <1>0, <1>4, <1>5, <1>7, <1>9 DEF ListIs
  <2>4. ASSUME NEW j \in 1..size'
        PROVE  /\ ~Fresh(g[j])'
               /\ next'[g[j]] = IF j = size' THEN Nil ELSE g[j + 1]
               /\ prev'[g[j]] = IF j = 1 THEN Nil ELSE g[j - 1]
    <3>1. CASE j < i
      <4>1. j \in 1..size /\ j # i /\ j # i + 1 /\ g[j] = f[j] /\ j \in 1..size - 1
        BY <1>0, <1>5, <1>7, <3>1
      <4>2. ~Fresh(g[j])'
        BY <1>8, <1>9, <4>1 DEF ListIs
      <4>3. next'[g[j]] = IF j = size' THEN Nil ELSE g[j + 1]
        <5>1. CASE j = i - 1
          BY <1>0, <1>4, <1>5, <1>7, <1>10, <4>1, <5>1
        <5>2. CASE j < i - 1
          <6>1. next'[g[j]] = f[j + 1]
            BY <1>0, <1>10, <4>1, <5>2 DEF ListIs
          <6>2. g[j + 1] = f[j + 1] /\ j # size'
            BY <1>0, <1>5, <1>7, <4>1, <5>2
          <6> QED
            BY <6>1, <6>2
        <5> QED
          BY <1>0, <3>1, <5>1, <5>2
      <4>4. prev'[g[j]] = IF j = 1 THEN Nil ELSE g[j - 1]
        <5>1. prev'[g[j]] = IF j = 1 THEN Nil ELSE f[j - 1]
          BY <1>10, <4>1 DEF ListIs
        <5>2. j # 1 => g[j - 1] = f[j - 1]
          BY <1>0, <1>7, <3>1, <4>1
        <5> QED
          BY <5>1, <5>2
      <4> QED
        BY <4>2, <4>3, <4>4
    <3>2. CASE j >= i
      <4>1. j + 1 \in 1..size /\ j + 1 # i /\ g[j] = f[j + 1] /\ j \in 1..size - 1
        BY <1>0, <1>5, <1>7, <3>2
      <4>2. ~Fresh(g[j])'
        BY <1>8, <1>9, <4>1 DEF ListIs
      <4>3. next'[g[j]] = IF j = size' THEN Nil ELSE g[j + 1]
        <5>1. next'[g[j]] = next[f[j + 1]]
          BY <1>0, <1>10, <3>2, <4>1
        <5>2. next[f[j + 1]] = IF j + 1 = size THEN Nil ELSE f[j + 2]
          BY <1>0, <4>1 DEF ListIs
        <5>3. j + 1 # size => g[j + 1] = f[j + 2]
          BY <1>0, <1>7, <3>2, <4>1
        <5> QED
          BY <1>0, <1>5, <4>1, <5>1, <5>2, <5>3
      <4>4. prev'[g[j]] = IF j = 1 THEN Nil ELSE g[j - 1]
        <5>1. CASE j = i
          BY <1>0, <1>4, <1>7, <1>10, <4>1, <5>1
        <5>2. CASE j > i
          <6>1. prev'[g[j]] = prev[f[j + 1]]
            BY <1>0, <1>10, <4>1, <5>2
          <6>2. prev[f[j + 1]] = f[j]
            <7>1. prev[f[j + 1]] = IF j + 1 = 1 THEN Nil ELSE f[(j + 1) - 1]
              BY <4>1 DEF ListIs
            <7>2. (j + 1) - 1 = j /\ j + 1 # 1
              BY <1>0, <4>1
            <7> QED
              BY <7>1, <7>2
          <6>3. g[j - 1] = f[j] /\ j # 1
            BY <1>0, <1>7, <4>1, <5>2
          <6> QED
            BY <6>1, <6>2, <6>3
        <5> QED
          BY <1>0, <3>2, <5>1, <5>2
      <4> QED
        BY <4>2, <4>3, <4>4
    <3> QED
      BY <1>0, <1>5, <3>1, <3>2
  <2> QED
    BY <2>1, <2>2, <2>3, <2>4 DEF ListIs
<1>12. MapIs(g)'
  <2>1. ASSUME NEW j \in Keys, cache'[j] # Nil
        PROVE  key'[cache'[j]] = j /\ \E m \in 1..size' : g[m] = cache'[j]
    <3>1. j # k /\ cache'[j] = cache[j] /\ cache[j] # Nil
      BY <1>5, <2>1 DEF ListTypeOK
    <3>2. key[cache[j]] = j /\ cache[j] # n
      BY <1>3, <3>1 DEF MapIs
    <3>3. PICK m \in 1..size : f[m] = cache[j]
      BY <3>1 DEF MapIs
    <3>4. m # i
      BY <3>2, <3>3
    <3>5. \E m2 \in 1..size' : g[m2] = cache'[j]
      <4>1. CASE m < i
        BY <1>0, <1>5, <1>7, <3>1, <3>3, <4>1
      <4>2. CASE m > i
        <5>1. m - 1 \in 1..size' /\ g[m - 1] = f[m]
          BY <1>0, <1>5, <1>7, <4>2
        <5> QED
          BY <3>1, <3>3, <5>1
      <4> QED
        BY <1>0, <3>4, <4>1, <4>2
    <3> QED
      BY <1>5, <3>1, <3>2, <3>5 DEF ListTypeOK
  <2>2. ASSUME NEW m \in Nodes, Fresh(m)'
        PROVE  key'[m] = EmptyKey /\ prev'[m] = Nil /\ next'[m] = Nil
    <3>1. CASE m = n
      BY <1>1, <1>5, <3>1 DEF Set, ListTypeOK
    <3>2. CASE m # n
      <4>1. Fresh(m)
        BY <1>8, <2>2, <3>2
      <4>2. m # next[n] /\ m # prev[n]
        BY <1>0, <1>4, <4>1, NilAssumption DEF ListIs
      <4> QED
        BY <1>5, <3>2, <4>1, <4>2 DEF Set, ListTypeOK, MapIs
    <3> QED
      BY <3>1, <3>2
  <2> QED
    BY <2>1, <2>2 DEF MapIs
<1>13. \A j \in Keys : cache[j] = Nil => cache'[j] = Nil
  BY <1>2, <1>5 DEF ListTypeOK
<1>14. ListWellFormed'
  BY <1>5, <1>11, <1>12 DEF ListWellFormed
<1> QED
  BY <1>5, <1>6, <1>7, <1>11, <1>12, <1>13, <1>14

\* touch keeps the list well formed: the node moves to the front.
LEMMA TouchNode ==
  ASSUME ListTypeOK, NEW f \in [1..size -> Nodes], ListIs(f), MapIs(f),
         NEW i \in 1..size, NEW v \in Values \cup {None}, touch(f[i], v)
  PROVE  /\ ListTypeOK' /\ ListWellFormed' /\ size' = size /\ cache' = cache
         /\ \E g \in [1..size -> Nodes] :
               /\ ListIs(g)' /\ MapIs(g)'
               /\ \A j \in 1..size : g[j] = IF j = 1 THEN f[i] ELSE IF j <= i THEN f[j - 1] ELSE f[j]
<1> DEFINE n == f[i]
<1>0. size \in Nat /\ i \in Int /\ 1 <= i /\ i <= size /\ n \in Nodes
  BY DEF ListTypeOK
<1>1. /\ value' = [value EXCEPT ![n] = v]
      /\ age' = [age EXCEPT ![n] = 0]
      /\ cache' = cache /\ key' = key /\ size' = size
  BY DEF touch
<1>2. /\ value' \in [Nodes -> Values \cup {None}]
      /\ age' \in [Nodes -> 0..MaxAge]
  BY <1>1, TimesAssumption DEF ListTypeOK
<1>3. \A m : Fresh(m)' <=> Fresh(m)
  BY <1>1 DEF Fresh
<1>4. head = f[1] /\ tail = f[size]
  BY <1>0 DEF ListIs
<1>5. CASE i = 1
  <2>1. UNCHANGED <<prev, next, head, tail>>
    BY <1>4, <1>5 DEF touch, move_to_front
  <2>2. ListTypeOK'
    BY <1>1, <1>2, <2>1 DEF ListTypeOK
  <2>3. ListIs(f)' /\ MapIs(f)'
    BY <1>1, <1>3, <2>1 DEF ListIs, MapIs
  <2>4. ListWellFormed'
    BY <1>1, <2>3 DEF ListWellFormed
  <2>5. \A j \in 1..size : f[j] = IF j = 1 THEN f[i] ELSE IF j <= i THEN f[j - 1] ELSE f[j]
    BY <1>5
  <2> QED
    BY <1>1, <2>2, <2>3, <2>4, <2>5
<1>6. CASE i > 1
  <2>1. /\ next[n] = (IF i = size THEN Nil ELSE f[i + 1])
        /\ prev[n] = f[i - 1]
    BY <1>0, <1>6 DEF ListIs
  <2>2. \A j \in 1..size : f[j] \in Nodes /\ f[j] # Nil /\ (f[j] = n => j = i)
    BY NilAssumption DEF ListIs
  <2>3. n # head /\ prev[n] # Nil /\ head # Nil /\ n # Nil
    BY <1>0, <1>4, <1>6, <2>1, <2>2
  <2>4. /\ next' = [Set(next, prev[n], next[n]) EXCEPT ![n] = head]
        /\ prev' = Set([Set(prev, next[n], prev[n]) EXCEPT ![n] = Nil], head, n)
        /\ head' = n
        /\ tail' = IF n = tail THEN prev[n] ELSE tail
    BY <2>3 DEF touch, move_to_front
  <2>5. ListTypeOK'
    <3>1. next[n] \in Pointers /\ prev[n] \in Pointers /\ Nil \in Pointers /\ n \in Pointers
      BY <1>0 DEF ListTypeOK, Pointers
    <3>2. Set(next, prev[n], next[n]) \in [Nodes -> Pointers]
      BY <3>1 DEF ListTypeOK, Pointers, Set
    <3>3. Set(prev, next[n], prev[n]) \in [Nodes -> Pointers]
      BY <3>1 DEF ListTypeOK, Pointers, Set
    <3>4. [Set(prev, next[n], prev[n]) EXCEPT ![n] = Nil] \in [Nodes -> Pointers]
      BY <3>1, <3>3
    <3>5. next' \in [Nodes -> Pointers]
      BY <2>4, <3>2 DEF ListTypeOK
    <3>6. prev' \in [Nodes -> Pointers]
      BY <2>3, <2>4, <3>1, <3>4 DEF Set
    <3>7. head' \in Pointers /\ tail' \in Pointers
      BY <2>4, <3>1 DEF ListTypeOK
    <3> QED
      BY <1>1, <1>2, <3>5, <3>6, <3>7 DEF ListTypeOK
  <2>6. /\ next'[n] = f[1]
        /\ prev'[n] = Nil
    <3>1. next'[n] = head
      BY <1>0, <2>4 DEF Set, ListTypeOK
    <3>2. prev'[n] = Nil
      BY <1>0, <2>3, <2>4 DEF Set, ListTypeOK
    <3> QED
      BY <1>4, <3>1, <3>2
  <2>7. ASSUME NEW j \in 1..size, j # i
        PROVE  /\ next'[f[j]] = IF j = i - 1 THEN next[n] ELSE next[f[j]]
               /\ prev'[f[j]] = IF j = 1 THEN n ELSE IF j = i + 1 THEN prev[n] ELSE prev[f[j]]
    <3>1. f[j] # n /\ f[j] \in Nodes /\ f[j] # Nil
      BY <2>2, <2>7
    <3>2. f[j] = prev[n] <=> j = i - 1
      BY <1>0, <1>6, <2>1 DEF ListIs
    <3>3. f[j] = next[n] <=> j = i + 1
      BY <1>0, <2>1, <3>1 DEF ListIs
    <3>4. f[j] = head <=> j = 1
      BY <1>0, <1>4 DEF ListIs
    <3>5. next'[f[j]] = IF j = i - 1 THEN next[n] ELSE next[f[j]]
      BY <2>4, <3>1, <3>2 DEF Set, ListTypeOK
    <3>6. prev'[f[j]] = IF j = 1 THEN n ELSE IF j = i + 1 THEN prev[n] ELSE prev[f[j]]
      BY <2>3, <2>4, <3>1, <3>3, <3>4 DEF Set, ListTypeOK
    <3> QED
      BY <3>5, <3>6
  <2>8. PICK g \in [1..size -> Nodes] :
          \A j \in 1..size : g[j] = IF j = 1 THEN n ELSE IF j <= i THEN f[j - 1] ELSE f[j]
    <3> DEFINE h == [j \in 1..size |-> IF j = 1 THEN n ELSE IF j <= i THEN f[j - 1] ELSE f[j]]
    <3>1. h \in [1..size -> Nodes]
      BY <1>0
    <3> QED
      BY <3>1
  <2>9. ListIs(g)'
    <3>1. \A a, b \in 1..size : g[a] = g[b] => a = b
      <4> SUFFICES ASSUME NEW a \in 1..size, NEW b \in 1..size, g[a] = g[b]
                   PROVE  a = b
        OBVIOUS
      <4> DEFINE at(c) == IF c = 1 THEN i ELSE IF c <= i THEN c - 1 ELSE c
      <4>1. at(a) \in 1..size /\ at(b) \in 1..size
        BY <1>0
      <4>2. g[a] = f[at(a)] /\ g[b] = f[at(b)]
        BY <2>8
      <4> HIDE DEF at
      <4>3. at(a) = at(b)
        BY <4>1, <4>2 DEF ListIs
      <4> QED
        BY <1>0, <4>3 DEF at
    <3>2. head' = g[1] /\ tail' = g[size] /\ size # 0
      BY <1>0, <1>4, <1>6, <2>1, <2>2, <2>4, <2>8 DEF ListIs
    <3>3. ASSUME NEW j \in 1..size
          PROVE  /\ ~Fresh(g[j])'
                 /\ next'[g[j]] = IF j = size THEN Nil ELSE g[j + 1]
                 /\ prev'[g[j]] = IF j = 1 THEN Nil ELSE g[j - 1]
      <4>1. ~Fresh(g[j])'
        BY <1>0, <1>3, <2>8 DEF ListIs
      <4>2. CASE j = 1
        BY <1>0, <1>6, <2>6, <2>8, <4>1, <4>2
      <4>3. CASE j > 1 /\ j <= i
        <5>1. g[j] = f[j - 1] /\ j - 1 \in 1..size /\ j - 1 # i
          BY <1>0, <2>8, <4>3
        <5>2. next'[g[j]] = IF j = i THEN next[n] ELSE f[j]
          BY <1>0, <2>7, <4>3, <5>1 DEF ListIs
        <5>3. next'[g[j]] = IF j = size THEN Nil ELSE g[j + 1]
          BY <1>0, <2>1, <2>8, <4>3, <5>2
        <5>4. prev'[g[j]] = IF j = 2 THEN n ELSE f[j - 2]
          BY <1>0, <2>7, <4>3, <5>1 DEF ListIs
        <5>5. prev'[g[j]] = g[j - 1]
          BY <1>0, <2>8, <4>3, <5>4
        <5> QED
          BY <4>1, <4>3, <5>3, <5>5
      <4>4. CASE j > i
        <5>1. g[j] = f[j] /\ j # i /\ j # 1 /\ j # i - 1
          BY <1>0, <2>8, <4>4
        <5>2. next'[g[j]] = next[f[j]]
          BY <2>7, <5>1
        <5>3. next'[g[j]] = IF j = size THEN Nil ELSE g[j + 1]
          BY <1>0, <2>8, <4>4, <5>1, <5>2 DEF ListIs
        <5>4. prev'[g[j]] = IF j = i + 1 THEN f[i - 1] ELSE f[j - 1]
          BY <1>0, <2>1, <2>7, <4>4, <5>1 DEF ListIs
        <5>5. prev'[g[j]] = g[j - 1]
          BY <1>0, <1>6, <2>8, <4>4, <5>4
        <5> QED
          BY <4>1, <5>1, <5>3, <5>5
      <4> QED
        BY <1>0, <4>2, <4>3, <4>4
    <3> QED
      BY <1>1, <3>1, <3>2, <3>3 DEF ListIs
  <2>10. MapIs(g)'
    <3>1. ASSUME NEW k \in Keys, cache[k] # Nil PROVE \E m \in 1..size : g[m] = cache[k]
      <4>1. PICK j \in 1..size : f[j] = cache[k]
        BY <3>1 DEF MapIs
      <4>2. CASE j = i
        BY <1>0, <2>8, <4>1, <4>2
      <4>3. CASE j < i
        <5>1. j + 1 \in 1..size /\ g[j + 1] = f[j]
          BY <1>0, <2>8, <4>3
        <5> QED
          BY <4>1, <5>1
      <4>4. CASE j > i
        BY <1>0, <2>8, <4>1, <4>4
      <4> QED
        BY <1>0, <4>2, <4>3, <4>4
    <3>2. ASSUME NEW m \in Nodes, Fresh(m) PROVE prev'[m] = Nil /\ next'[m] = Nil
      <4>1. m # n /\ m # head /\ m # prev[n] /\ m # next[n]
        BY <1>0, <1>4, <1>6, <2>1, <3>2, NilAssumption DEF ListIs
      <4> QED
        BY <2>4, <3>2, <4>1 DEF Set, ListTypeOK, MapIs
    <3> QED
      BY <1>1, <1>3, <3>1, <3>2 DEF MapIs
  <2>11. ListWellFormed'
    BY <1>1, <2>9, <2>10 DEF ListWellFormed
  <2> QED
    BY <1>1, <2>5, <2>8, <2>9, <2>10, <2>11
<1> QED
  BY <1>0, <1>5, <1>6

\* put's insertion of a new node keeps the list well formed and counts it in.
LEMMA InsertNode ==
  ASSUME ListTypeOK, NEW f \in [1..size -> Nodes], ListIs(f), MapIs(f), NEW n \in Nodes, Fresh(n),
         NEW k \in Keys, NEW v \in Values, cache[k] = Nil,
         key' = [key EXCEPT ![n] = k],
         value' = [value EXCEPT ![n] = v],
         age' = [age EXCEPT ![n] = 0],
         cache' = [cache EXCEPT ![k] = n],
         add_to_front(n),
         size' = size + 1
  PROVE  /\ ListTypeOK' /\ ListWellFormed'
         /\ \E g \in [1..size + 1 -> Nodes] :
               /\ ListIs(g)' /\ MapIs(g)'
               /\ \A j \in 1..size + 1 : g[j] = IF j = 1 THEN n ELSE f[j - 1]
<1>0. ListIs(f) /\ MapIs(f)
  OBVIOUS
<1>1. size \in Nat /\ n # Nil /\ \A j \in 1..size : f[j] \in Nodes /\ f[j] # n /\ f[j] # Nil
  BY <1>0, NilAssumption DEF ListTypeOK, ListIs
<1>2. /\ next' = [next EXCEPT ![n] = head]
      /\ prev' = Set([prev EXCEPT ![n] = Nil], head, n)
      /\ head' = n
      /\ tail' = IF tail = Nil THEN n ELSE tail
  BY DEF add_to_front
<1>3. ListTypeOK'
  <2>1. [prev EXCEPT ![n] = Nil] \in [Nodes -> Pointers] /\ n \in Pointers
    BY DEF ListTypeOK, Pointers
  <2>2. prev' \in [Nodes -> Pointers]
    BY <1>2, <2>1 DEF Set, ListTypeOK, Pointers
  <2>3. next' \in [Nodes -> Pointers] /\ head' \in Pointers /\ tail' \in Pointers
    BY <1>2, <2>1 DEF ListTypeOK
  <2>4. cache' \in [Keys -> Pointers] /\ key' \in [Nodes -> KeysOrEmpty]
    BY <2>1 DEF ListTypeOK, KeysOrEmpty
  <2>5. value' \in [Nodes -> Values \cup {None}] /\ age' \in [Nodes -> 0..MaxAge]
    BY TimesAssumption DEF ListTypeOK
  <2> QED
    BY <1>1, <2>2, <2>3, <2>4, <2>5 DEF ListTypeOK
<1>4. \A m \in Nodes : Fresh(m)' <=> Fresh(m) /\ m # n
  BY <1>1, NilAssumption DEF Fresh, ListTypeOK
<1>5. PICK g \in [1..size + 1 -> Nodes] :
        \A j \in 1..size + 1 : g[j] = IF j = 1 THEN n ELSE f[j - 1]
  <2> DEFINE h == [j \in 1..size + 1 |-> IF j = 1 THEN n ELSE f[j - 1]]
  <2>1. h \in [1..size + 1 -> Nodes]
    BY <1>1
  <2> QED
    BY <2>1
<1>6. \A j \in 1..size : /\ next'[f[j]] = next[f[j]]
                         /\ prev'[f[j]] = IF j = 1 THEN n ELSE prev[f[j]]
  <2> SUFFICES ASSUME NEW j \in 1..size
               PROVE  /\ next'[f[j]] = next[f[j]]
                      /\ prev'[f[j]] = IF j = 1 THEN n ELSE prev[f[j]]
    OBVIOUS
  <2>1. f[j] = head <=> j = 1
    BY <1>0, <1>1 DEF ListIs
  <2>2. head # Nil
    BY <1>0, <1>1 DEF ListIs
  <2> QED
    BY <1>1, <1>2, <2>1, <2>2 DEF Set, ListTypeOK
<1>7. next'[n] = head /\ prev'[n] = Nil
  <2>1. n # head
    BY <1>0, <1>1 DEF ListIs
  <2> QED
    BY <1>2, <2>1 DEF Set, ListTypeOK
<1>8. ListIs(g)'
  <2>1. \A a, b \in 1..size' : g[a] = g[b] => a = b
    BY <1>0, <1>1, <1>5 DEF ListIs
  <2>2. head' = g[1] /\ tail' = g[size'] /\ size' # 0
    BY <1>0, <1>1, <1>2, <1>5 DEF ListIs
  <2>3. ASSUME NEW j \in 1..size'
        PROVE  /\ ~Fresh(g[j])'
               /\ next'[g[j]] = IF j = size' THEN Nil ELSE g[j + 1]
               /\ prev'[g[j]] = IF j = 1 THEN Nil ELSE g[j - 1]
    <3>1. CASE j = 1
      BY <1>0, <1>1, <1>4, <1>5, <1>7, <3>1 DEF ListIs
    <3>2. CASE j > 1
      <4>1. g[j] = f[j - 1] /\ j - 1 \in 1..size
        BY <1>1, <1>5, <3>2
      <4>2. ~Fresh(g[j])'
        BY <1>0, <1>1, <1>4, <4>1 DEF ListIs
      <4>3. next'[g[j]] = IF j = size' THEN Nil ELSE g[j + 1]
        <5>1. next'[g[j]] = IF j - 1 = size THEN Nil ELSE f[j]
          <6>1. next[f[j - 1]] = IF j - 1 = size THEN Nil ELSE f[(j - 1) + 1]
            BY <1>0, <4>1 DEF ListIs
          <6>2. (j - 1) + 1 = j
            BY <1>1
          <6> QED
            BY <1>6, <4>1, <6>1, <6>2
        <5>2. j # size' => g[j + 1] = f[j]
          BY <1>1, <1>5, <3>2
        <5> QED
          BY <1>1, <5>1, <5>2
      <4>4. prev'[g[j]] = g[j - 1]
        <5>1. prev'[g[j]] = IF j = 2 THEN n ELSE f[j - 2]
          BY <1>0, <1>1, <1>6, <3>2, <4>1 DEF ListIs
        <5> QED
          BY <1>1, <1>5, <3>2, <5>1
      <4> QED
        BY <3>2, <4>2, <4>3, <4>4
    <3> QED
      BY <1>1, <3>1, <3>2
  <2> QED
    BY <2>1, <2>2, <2>3 DEF ListIs
<1>9. MapIs(g)'
  <2>1. ASSUME NEW j \in Keys, cache'[j] # Nil
        PROVE  key'[cache'[j]] = j /\ \E m \in 1..size' : g[m] = cache'[j]
    <3>1. CASE j = k
      BY <1>1, <1>5, <3>1 DEF ListTypeOK
    <3>2. CASE j # k
      <4>1. cache'[j] = cache[j] /\ cache[j] # Nil
        BY <2>1, <3>2 DEF ListTypeOK
      <4>2. PICK m \in 1..size : f[m] = cache[j]
        BY <1>0, <4>1 DEF MapIs
      <4>3. m + 1 \in 1..size' /\ g[m + 1] = f[m]
        BY <1>1, <1>5
      <4>4. key'[cache[j]] = j
        BY <1>0, <1>1, <4>1, <4>2 DEF MapIs, ListTypeOK
      <4> QED
        BY <4>1, <4>2, <4>3, <4>4
    <3> QED
      BY <3>1, <3>2
  <2>2. ASSUME NEW m \in Nodes, Fresh(m)'
        PROVE  key'[m] = EmptyKey /\ prev'[m] = Nil /\ next'[m] = Nil
    <3>1. Fresh(m) /\ m # n
      BY <1>4, <2>2
    <3>2. m # head
      BY <1>0, <1>1, <3>1, NilAssumption DEF ListIs
    <3> QED
      BY <1>0, <1>2, <3>1, <3>2 DEF MapIs, Set, ListTypeOK
  <2> QED
    BY <2>1, <2>2 DEF MapIs
<1>10. ListWellFormed'
  BY <1>5, <1>8, <1>9 DEF ListWellFormed
<1> QED
  BY <1>3, <1>5, <1>8, <1>9, <1>10

\* The same for a node found through the map, and for the tail.
LEMMA RemoveFound ==
  ASSUME ListTypeOK, ListWellFormed, NEW k \in Keys, cache[k] # Nil, remove_node(cache[k])
  PROVE  ListTypeOK' /\ ListWellFormed' /\ size' \in Nat /\ size' = size - 1
<1>1. PICK f \in [1..size -> Nodes] : ListIs(f) /\ MapIs(f)
  BY DEF ListWellFormed
<1>2. PICK i \in 1..size : f[i] = cache[k]
  BY <1>1 DEF MapIs
<1> QED
  BY <1>1, <1>2, RemoveNode DEF ListTypeOK

\* Removing the tail of a list that is not empty keeps it well formed.
LEMMA RemoveTail ==
  ASSUME ListTypeOK, ListWellFormed, tail # Nil, remove_node(tail)
  PROVE  /\ ListTypeOK' /\ ListWellFormed' /\ size' = size - 1
         /\ \A k \in Keys : cache[k] = Nil => cache'[k] = Nil
<1>1. PICK f \in [1..size -> Nodes] : ListIs(f) /\ MapIs(f)
  BY DEF ListWellFormed
<1>2. size \in 1..size /\ f[size] = tail
  BY <1>1 DEF ListIs, ListTypeOK
<1> QED
  BY <1>1, <1>2, RemoveNode

\* Using a node found through the map keeps the list well formed.
LEMMA TouchFound ==
  ASSUME ListTypeOK, ListWellFormed, NEW k \in Keys, cache[k] # Nil,
         NEW v \in Values \cup {None}, touch(cache[k], v)
  PROVE  ListTypeOK' /\ ListWellFormed' /\ size' = size
<1>1. PICK f \in [1..size -> Nodes] : ListIs(f) /\ MapIs(f)
  BY DEF ListWellFormed
<1>2. PICK i \in 1..size : f[i] = cache[k]
  BY <1>1 DEF MapIs
<1> QED
  BY <1>1, <1>2, TouchNode

\* An untouched list stays well formed; so does a list of which only the
\* clocks moved.
LEMMA SameList ==
  ASSUME ListTypeOK, ListWellFormed, UNCHANGED <<cache, key, prev, next, head, tail, size>>
  PROVE  ListWellFormed' /\ size' = size /\ cache' = cache
<1>1. PICK f \in [1..size -> Nodes] : ListIs(f) /\ MapIs(f)
  BY DEF ListWellFormed
<1>2. ListIs(f)' /\ MapIs(f)'
  BY <1>1 DEF ListIs, MapIs, Fresh
<1> QED
  BY <1>2 DEF ListWellFormed

----------------------------------------------------------------------------
(* The specification *)

\* The record of no call has the type of a call.
LEMMA NoCallOK == NoCall \in Call /\ NoCall.pc = "idle" /\ NoCall.op = "none"
  BY DEF NoCall, Call, Ops, KeysOrEmpty

\* The invariant holds in the initial states.
LEMMA IInvInit == Init => IInv
<1> SUFFICES ASSUME Init PROVE IInv
  OBVIOUS
<1>1. TypeOK
  BY NoCallOK, TimesAssumption DEF Init, TypeOK, Pointers, KeysOrEmpty
<1>2. ListWellFormed
  <2> DEFINE f == [i \in 1..0 |-> Nil]
  <2>1. f \in [1..size -> Nodes] /\ size = 0
    BY DEF Init
  <2>2. ListIs(f) /\ MapIs(f)
    BY <2>1 DEF Init, ListIs, MapIs
  <2> QED
    BY <2>1, <2>2 DEF ListWellFormed
<1>3. SizeBounded
  BY CapacityAssumption DEF Init, SizeBounded, Bound
<1>4. CallOK
  BY NoCallOK DEF Init, CallOK
<1> QED
  BY <1>1, <1>2, <1>3, <1>4 DEF IInv

\* The steps of a call and between calls keep the invariant.
LEMMA IInvStep == IInv /\ [Next]_vars => IInv'
<1> SUFFICES ASSUME IInv, [Next]_vars PROVE IInv'
  OBVIOUS
<1>0. ListTypeOK /\ ListWellFormed /\ SizeBounded /\ CallOK /\ call \in Call /\ size \in Nat
  BY DEF IInv, TypeOK, ListTypeOK
<1>b. Bound \in Nat /\ Bound > 0
  BY CapacityAssumption DEF Bound
<1>1. ASSUME UNCHANGED vars PROVE IInv'
  <2>1. UNCHANGED list /\ UNCHANGED <<ttl_seconds, cleanup_interval, idle_time, call, result>>
    BY <1>1 DEF vars
  <2>2. ListWellFormed'
    BY <1>0, <2>1, SameList DEF list
  <2> QED
    BY <1>0, <2>1, <2>2 DEF IInv, TypeOK, SizeBounded, CallOK, list, Bound
<1>2. ASSUME NEW op \in {"get", "put", "cleanup"}, NEW k \in KeysOrEmpty,
             NEW v \in Values \cup {None}, Begin(op, k, v),
             op # "cleanup" => k \in Keys, op = "put" => v \in Values
      PROVE  IInv'
  <2>1. UNCHANGED list /\ UNCHANGED <<ttl_seconds, cleanup_interval, result>>
    BY <1>2 DEF Begin, config
  <2>2. ListWellFormed'
    BY <1>0, <2>1, SameList DEF list
  <2>3. ExpiredKeys \in SUBSET Keys
    BY DEF ExpiredKeys
  <2>4. /\ call' \in Call /\ call'.op = op /\ call'.k = k /\ call'.v = v
        /\ call'.pc \in {"sweep", "body"} /\ (call'.pc = "body" => op # "cleanup")
    BY <1>2, <2>3 DEF Begin, Call, Ops
  <2>5. idle_time' \in 0..MaxAge
    BY <1>2, TimesAssumption DEF Begin, IInv, TypeOK
  <2>6. TypeOK'
    BY <2>1, <2>4, <2>5 DEF IInv, TypeOK, list
  <2>7. CallOK'
    BY <1>2, <2>4 DEF CallOK
  <2> QED
    BY <1>0, <2>1, <2>2, <2>6, <2>7 DEF IInv, SizeBounded, Bound, list
<1>3. ASSUME NEW k \in Keys, Sweep(k) PROVE IInv'
  <2>1. /\ call' = [call EXCEPT !.expired = @ \ {k}] /\ call.pc = "sweep"
        /\ UNCHANGED <<ttl_seconds, cleanup_interval, idle_time, result>>
    BY <1>3 DEF Sweep, config
  <2>2. ListTypeOK' /\ ListWellFormed' /\ size' <= size
    <3>1. CASE cache[k] # Nil
      BY <1>0, <1>3, <3>1, RemoveFound DEF Sweep
    <3>2. CASE cache[k] = Nil
      BY <1>0, <1>3, <3>2, SameList DEF Sweep, list, ListTypeOK
    <3> QED
      BY <3>1, <3>2
  <2>3. call' \in Call /\ call'.pc = "sweep" /\ call'.op = call.op /\ call'.k = call.k /\ call'.v = call.v
    BY <1>0, <2>1 DEF Call
  <2>4. TypeOK'
    BY <2>1, <2>2, <2>3 DEF IInv, TypeOK, ListTypeOK
  <2>5. CallOK'
    BY <1>0, <2>1, <2>3 DEF CallOK
  <2>6. SizeBounded'
    BY <1>0, <1>b, <2>2 DEF SizeBounded, ListTypeOK, Bound
  <2> QED
    BY <2>2, <2>4, <2>5, <2>6 DEF IInv
<1>4. ASSUME SweepDone PROVE IInv'
  <2>1. UNCHANGED list /\ UNCHANGED <<ttl_seconds, cleanup_interval, idle_time, result>>
    BY <1>4 DEF SweepDone, config
  <2>2. ListWellFormed'
    BY <1>0, <2>1, SameList DEF list
  <2>3. CASE call.op = "cleanup"
    <3>1. call' = NoCall
      BY <1>4, <2>3 DEF SweepDone
    <3>2. TypeOK' /\ CallOK'
      BY <2>1, <3>1, NoCallOK DEF IInv, TypeOK, list, CallOK
    <3> QED
      BY <1>0, <2>1, <2>2, <3>2 DEF IInv, SizeBounded, Bound, list
  <2>4. CASE call.op # "cleanup"
    <3>1. /\ call' \in Call /\ call'.pc = "body" /\ call'.op = call.op
          /\ call'.k = call.k /\ call'.v = call.v /\ call.pc = "sweep"
      BY <1>0, <1>4, <2>4 DEF SweepDone, Call
    <3>2. TypeOK'
      BY <2>1, <3>1 DEF IInv, TypeOK, list
    <3>3. CallOK'
      BY <1>0, <2>4, <3>1 DEF CallOK
    <3> QED
      BY <1>0, <2>1, <2>2, <3>2, <3>3 DEF IInv, SizeBounded, Bound, list
  <2> QED
    BY <2>3, <2>4
<1>5. ASSUME Get PROVE IInv'
  <2>1. call.k \in Keys /\ call' = NoCall /\ UNCHANGED <<ttl_seconds, cleanup_interval, idle_time>>
    BY <1>0, <1>5 DEF Get, At, CallOK, config
  <2>2. /\ ListTypeOK' /\ ListWellFormed' /\ size' <= size
        /\ result' \in (Keys \cup {None}) \X (Values \cup {None})
    <3>1. CASE cache[call.k] = Nil
      BY <1>0, <1>5, <2>1, <3>1, SameList DEF Get, list, ListTypeOK
    <3>2. CASE cache[call.k] # Nil /\ is_expired(cache[call.k])
      BY <1>0, <1>5, <2>1, <3>2, RemoveFound DEF Get
    <3>3. CASE cache[call.k] # Nil /\ ~is_expired(cache[call.k])
      <4>1. value[cache[call.k]] \in Values \cup {None}
        BY <1>0, <2>1, <3>3 DEF ListTypeOK, Pointers
      <4>2. touch(cache[call.k], value[cache[call.k]])
            /\ result' = <<call.k, value[cache[call.k]]>>
        BY <1>5, <3>3 DEF Get
      <4>3. ListTypeOK' /\ ListWellFormed' /\ size' = size
        BY <1>0, <2>1, <3>3, <4>1, <4>2, TouchFound
      <4> QED
        BY <1>0, <2>1, <4>1, <4>2, <4>3
    <3> QED
      BY <3>1, <3>2, <3>3
  <2>3. TypeOK'
    BY <2>1, <2>2, NoCallOK DEF IInv, TypeOK, ListTypeOK
  <2>4. CallOK'
    BY <2>1, NoCallOK DEF CallOK
  <2>5. SizeBounded'
    BY <1>0, <1>b, <2>2 DEF SizeBounded, ListTypeOK, Bound
  <2> QED
    BY <2>2, <2>3, <2>4, <2>5 DEF IInv
<1>6. ASSUME PutExisting PROVE IInv'
  <2>1. /\ call.k \in Keys /\ call.v \in Values /\ call' = NoCall
        /\ UNCHANGED <<ttl_seconds, cleanup_interval, idle_time, result>>
    BY <1>0, <1>6 DEF PutExisting, At, CallOK, config
  <2>2. ListTypeOK' /\ ListWellFormed' /\ size' = size
    BY <1>0, <1>6, <2>1, TouchFound DEF PutExisting
  <2>3. TypeOK' /\ CallOK'
    BY <2>1, <2>2, NoCallOK DEF IInv, TypeOK, ListTypeOK, CallOK
  <2> QED
    BY <1>0, <2>2, <2>3 DEF IInv, SizeBounded, Bound
<1>7. ASSUME PutMakeRoom PROVE IInv'
  <2>1. /\ call.op = "put" /\ call.pc = "body" /\ call.k \in Keys /\ cache[call.k] = Nil
        /\ UNCHANGED <<ttl_seconds, cleanup_interval, idle_time, result>>
        /\ call' = [call EXCEPT !.pc = "insert"]
    BY <1>0, <1>7 DEF PutMakeRoom, At, CallOK, config
  <2>2. /\ call' \in Call /\ call'.pc = "insert" /\ call'.op = "put"
        /\ call'.k = call.k /\ call'.v = call.v
    BY <1>0, <2>1 DEF Call
  <2>3. ListTypeOK' /\ ListWellFormed' /\ size' < Bound /\ cache'[call.k] = Nil
    <3>1. CASE size >= Capacity /\ tail # Nil
      <4>1. remove_node(tail)
        BY <1>7, <3>1 DEF PutMakeRoom
      <4>2. /\ ListTypeOK' /\ ListWellFormed' /\ size' = size - 1
            /\ \A k \in Keys : cache[k] = Nil => cache'[k] = Nil
        BY <1>0, <3>1, <4>1, RemoveTail
      <4> QED
        BY <1>0, <1>b, <2>1, <4>2 DEF SizeBounded
    <3>2. CASE ~(size >= Capacity /\ tail # Nil)
      <4>1. UNCHANGED list
        BY <1>7, <3>2 DEF PutMakeRoom
      <4>2. ListTypeOK' /\ ListWellFormed' /\ size' = size /\ cache' = cache
        BY <1>0, <4>1, SameList DEF list, ListTypeOK
      <4>3. tail = Nil => size = 0
        <5>1. PICK f \in [1..size -> Nodes] : ListIs(f)
          BY <1>0 DEF ListWellFormed
        <5> QED
          BY <1>0, <5>1, NilAssumption DEF ListIs
      <4> QED
        BY <1>0, <1>b, <2>1, <3>2, <4>2, <4>3, CapacityAssumption DEF Bound
    <3> QED
      BY <3>1, <3>2
  <2>4. TypeOK'
    BY <2>1, <2>2, <2>3 DEF IInv, TypeOK, ListTypeOK
  <2>5. CallOK'
    BY <1>0, <2>1, <2>2, <2>3 DEF CallOK, Bound
  <2>6. SizeBounded'
    BY <1>b, <2>3 DEF SizeBounded, ListTypeOK, Bound
  <2> QED
    BY <2>3, <2>4, <2>5, <2>6 DEF IInv
<1>8. ASSUME NEW n \in Nodes, PutInsert(n) PROVE IInv'
  <2>1. /\ call.k \in Keys /\ call.v \in Values /\ cache[call.k] = Nil /\ size < Bound
        /\ call' = NoCall /\ UNCHANGED <<ttl_seconds, cleanup_interval, idle_time, result>>
    BY <1>0, <1>8 DEF PutInsert, At, CallOK, config
  <2>2. ListTypeOK' /\ ListWellFormed' /\ size' = size + 1
    <3>1. PICK f \in [1..size -> Nodes] : ListIs(f) /\ MapIs(f)
      BY <1>0 DEF ListWellFormed
    <3> QED
      BY <1>0, <1>8, <2>1, <3>1, InsertNode DEF PutInsert
  <2>3. TypeOK' /\ CallOK'
    BY <2>1, <2>2, NoCallOK DEF IInv, TypeOK, ListTypeOK, CallOK
  <2>4. SizeBounded'
    <3>1. size < Bound /\ size \in Nat /\ size' = size + 1 /\ Bound \in Nat
      BY <1>b, <2>1, <2>2 DEF IInv, TypeOK
    <3> HIDE DEF Bound
    <3>2. size' <= Bound
      BY <3>1
    <3>3. Bound' = Bound
      BY DEF Bound
    <3> QED
      BY <3>2, <3>3 DEF SizeBounded
  <2> QED
    BY <2>2, <2>3, <2>4 DEF IInv
<1>9. ASSUME clear PROVE IInv'
  <2>1. TypeOK'
    BY <1>9, TimesAssumption DEF clear, config, IInv, TypeOK, Pointers, KeysOrEmpty
  <2>2. ListWellFormed' /\ size' = 0
    <3> DEFINE f == [i \in 1..0 |-> Nil]
    <3>1. f \in [1..size' -> Nodes] /\ size' = 0
      BY <1>9 DEF clear
    <3>2. ListIs(f)' /\ MapIs(f)'
      BY <1>9, <3>1 DEF clear, ListIs, MapIs
    <3> QED
      BY <3>1, <3>2 DEF ListWellFormed
  <2>3. CallOK'
    BY <1>0, <1>9 DEF clear, CallOK
  <2> QED
    BY <1>b, <2>1, <2>2, <2>3 DEF IInv, SizeBounded, Bound
<1>10. ASSUME Tick PROVE IInv'
  <2>1. /\ UNCHANGED <<cache, key, value, prev, next, head, tail, size>>
        /\ UNCHANGED <<ttl_seconds, cleanup_interval, call, result>>
        /\ call.pc = "idle"
    BY <1>10 DEF Tick, config
  <2>2. ListWellFormed'
    BY <1>0, <2>1, SameList
  <2>3. age' \in [Nodes -> 0..MaxAge] /\ idle_time' \in 0..MaxAge
    BY <1>10, TimesAssumption DEF Tick, IInv, TypeOK
  <2>4. TypeOK' /\ CallOK'
    BY <1>0, <2>1, <2>3 DEF IInv, TypeOK, CallOK
  <2> QED
    BY <1>0, <2>1, <2>2, <2>4 DEF IInv, SizeBounded, Bound
<1>11. ASSUME NEW t \in TTLs, set_ttl(t) PROVE IInv'
  <2>1. ListWellFormed'
    BY <1>0, <1>11, SameList DEF set_ttl, list
  <2> QED
    BY <1>0, <1>11, <2>1 DEF set_ttl, list, IInv, TypeOK, CallOK, SizeBounded, Bound
<1>12. ASSUME NEW t \in Intervals, set_cleanup_interval(t) PROVE IInv'
  <2>1. ListWellFormed'
    BY <1>0, <1>12, SameList DEF set_cleanup_interval, list
  <2> QED
    BY <1>0, <1>12, <2>1
    DEF set_cleanup_interval, list, IInv, TypeOK, CallOK, SizeBounded, Bound
<1> QED
  BY <1>1, <1>2, <1>3, <1>4, <1>5, <1>6, <1>7, <1>8, <1>9, <1>10, <1>11, <1>12
  DEF Next, KeysOrEmpty

\* Every reachable state of the cache satisfies the invariant.
LEMMA Invariant == Spec => []IInv
  BY IInvInit, IInvStep, PTL DEF Spec

(***************************************************************************)
(* All variables of the cache keep their types: in particular no call      *)
(* leaves a dangling pointer or a negative size behind.                    *)
(***************************************************************************)
THEOREM CacheTypes == Spec => []TypeOK
<1>1. IInv => TypeOK
  BY DEF IInv
<1> QED
  BY <1>1, Invariant, PTL

(***************************************************************************)
(* For every set of keys, nodes and times and every capacity, the list of  *)
(* the cache is one doubly linked list of size nodes that agrees with the  *)
(* map at every step of get, put, the sweeps and clear.                    *)
(***************************************************************************)
THEOREM CacheListWellFormed == Spec => []ListWellFormed
<1>1. IInv => ListWellFormed
  BY DEF IInv
<1> QED
  BY <1>1, Invariant, PTL

(***************************************************************************)
(* put keeps the cache within its capacity, whatever was removed by        *)
(* expiry or clear before.                                                 *)
(***************************************************************************)
THEOREM CacheSizeBounded == Spec => []SizeBounded
<1>1. IInv => SizeBounded
  BY DEF IInv
<1> QED
  BY <1>1, Invariant, PTL

----------------------------------------------------------------------------
(* Walking the list *)

\* A set of numbers has a least one.
LEMMA LeastNumber ==
    ASSUME NEW T, T \subseteq Nat, T # {}
    PROVE  \E f \in T : \A j \in T : f <= j
<1>1. PICK less : less = OpToRel(<, Nat)
  BY Zenon
<1>2. IsWellFoundedOn(less, Nat)
  BY <1>1, NatLessThanWellFounded, Zenon
<1>3. PICK f \in T : \A y \in T : <<y, f>> \notin less
  BY <1>2, WFMin, Zenon
<1>4. \A y \in T : ~(y < f)
  BY <1>1, <1>3 DEF OpToRel
<1>5. QED
  BY <1>4

\* Induction up to a bound, for a set of numbers that holds 0 and with a number
\* the next one.
LEMMA UpTo ==
    ASSUME NEW n \in Nat, NEW G, 0 \in G, \A y \in 0 .. n - 1 : y \in G => y + 1 \in G
    PROVE  \A y \in 0 .. n : y \in G
<1>1. PICK T : T = {y \in 0 .. n : y \notin G}
  OBVIOUS
<1>2. ASSUME T # {} PROVE FALSE
  <2>1. T \subseteq Nat
    BY <1>1
  <2>2. PICK f \in T : \A j \in T : f <= j
    BY <1>2, <2>1, LeastNumber
  <2>3. f \in 0 .. n /\ f \notin G /\ f # 0
    BY <1>1
  <2>4. f - 1 \in 0 .. n /\ f - 1 \in 0 .. n - 1 /\ f - 1 + 1 = f
    BY <2>3
  <2>5. f - 1 \notin T
    BY <2>1, <2>2
  <2>6. f - 1 \in G
    BY <1>1, <2>4, <2>5
  <2>7. QED
    BY <2>3, <2>4, <2>6
<1>3. QED
  BY <1>1, <1>2

\* The pointers lead from the first node along the sequence f of n nodes.
Chain(f, n, first, succ) ==
    /\ first = IF n = 0 THEN Nil ELSE f[1]
    /\ \A i \in 1..n : succ[f[i]] = IF i = n THEN Nil ELSE f[i + 1]

\* A sequence without repetition is no longer than there are nodes.
LEMMA ChainFits ==
  ASSUME NEW n \in Nat, NEW f \in [1..n -> Nodes], \A i, j \in 1..n : f[i] = f[j] => i = j
  PROVE  Cardinality(Nodes) \in Nat /\ n <= Cardinality(Nodes)
<1>1. IsFiniteSet(1..n) /\ Cardinality(1..n) = n
  <2>1. 1 \in Int /\ n \in Int
    OBVIOUS
  <2>2. IsFiniteSet(1..n) /\ Cardinality(1..n) = IF 1 > n THEN 0 ELSE n - 1 + 1
    BY <2>1, FS_Interval, Zenon
  <2> QED
    BY <2>2
<1>2. Cardinality(Nodes) \in Nat
  BY NodesFinite, FS_CardinalityType
<1>3. f \in Injection(1..n, Nodes)
  BY DEF Injection, IsInjective
<1>4. Cardinality(1..n) <= Cardinality(Nodes)
  BY <1>3, NodesFinite, FS_Injection, Zenon
<1> QED
  BY <1>1, <1>2, <1>4

\* The walk of a chain meets its nodes in order and stops at its end: the
\* prefixes of the sequence solve the equation that defines the walk.
LEMMA WalkIs ==
  ASSUME NEW n \in Nat, NEW f \in [1..n -> Nodes], \A i, j \in 1..n : f[i] = f[j] => i = j,
         NEW first, NEW succ, Chain(f, n, first, succ)
  PROVE  Walk(first, succ) = f
<1>1. PICK N \in Nat : N = Cardinality(Nodes) + 1 /\ n < N
  BY ChainFits
<1> DEFINE Upto(m) == [j \in 1..m |-> f[j]]
           After(s) == IF s[1] = Nil THEN s ELSE <<succ[s[1]], Append(s[2], s[1])>>
           Solves(h) == h = [i \in 0..N |-> IF i = 0 THEN <<first, <<>>>> ELSE After(h[i - 1])]
<1>2. PICK g : g = [i \in 0..N |-> IF i < n THEN <<f[i + 1], Upto(i)>> ELSE <<Nil, Upto(n)>>]
  OBVIOUS
<1>3. g[0] = <<first, <<>>>>
  <2>1. Upto(0) = <<>>
    OBVIOUS
  <2>2. g[0] = IF 0 < n THEN <<f[1], Upto(0)>> ELSE <<Nil, Upto(n)>>
    BY <1>1, <1>2
  <2>3. first = IF n = 0 THEN Nil ELSE f[1]
    BY DEF Chain
  <2> HIDE DEF Upto
  <2>4. CASE n = 0
    BY <2>1, <2>2, <2>3, <2>4
  <2>5. CASE n # 0
    BY <2>1, <2>2, <2>3, <2>5
  <2> QED
    BY <2>4, <2>5
<1>4. \A m \in 0..n - 1 : Append(Upto(m), f[m + 1]) = Upto(m + 1)
  <2> SUFFICES ASSUME NEW m \in 0..n - 1 PROVE Append(Upto(m), f[m + 1]) = Upto(m + 1)
    OBVIOUS
  <2>1. Upto(m) \in Seq(Nodes) /\ Len(Upto(m)) = m /\ f[m + 1] \in Nodes
    OBVIOUS
  <2>2. Upto(m + 1) \in Seq(Nodes) /\ Len(Upto(m + 1)) = m + 1
    OBVIOUS
  <2>3. PICK q \in Seq(Nodes), x \in Nodes, k \in Nat :
              q = Upto(m) /\ x = f[m + 1] /\ k = m /\ Len(q) = k
    <3>1. PICK q \in Seq(Nodes) : q = Upto(m) /\ Len(q) = m
      BY <2>1, Zenon
    <3>2. m \in Nat
      OBVIOUS
    <3> QED
      BY <2>1, <3>1, <3>2, Zenon
  <2>4. Append(q, x) \in Seq(Nodes) /\ Len(Append(q, x)) = k + 1
    BY <2>3
  <2>5. PICK p \in Seq(Nodes) : p = Append(q, x) /\ Len(p) = m + 1
    BY <2>3, <2>4
  <2>6. \A j \in 1..m : q[j] = f[j]
    BY <2>3
  <2>7. \A j \in 1..m + 1 : p[j] = f[j]
    BY <2>3, <2>5, <2>6
  <2> QED
    BY <2>2, <2>3, <2>5, <2>7
<1>5. \A i \in 1..N : g[i] = After(g[i - 1])
  <2> SUFFICES ASSUME NEW i \in 1..N PROVE g[i] = After(g[i - 1])
    OBVIOUS
  <2>1. PICK m \in 0..N - 1 : m = i - 1 /\ i = m + 1 /\ i \in 0..N /\ m \in 0..N
    OBVIOUS
  <2>2. CASE m < n
    <3>1. g[m] = <<f[i], Upto(m)>>
      BY <1>2, <2>1, <2>2
    <3>2. f[i] \in Nodes /\ f[i] # Nil
      BY <2>1, <2>2, NilAssumption
    <3>3. succ[f[i]] = IF i = n THEN Nil ELSE f[i + 1]
      BY <2>1, <2>2 DEF Chain
    <3>4. Append(Upto(m), f[i]) = Upto(i)
      BY <1>4, <2>1, <2>2
    <3>5. g[i] = IF i < n THEN <<f[i + 1], Upto(i)>> ELSE <<Nil, Upto(n)>>
      BY <1>2, <2>1
    <3> HIDE DEF Upto
    <3>6. After(g[m]) = <<succ[f[i]], Upto(i)>>
      <4>1. g[m][1] = f[i] /\ g[m][2] = Upto(m)
        BY <3>1
      <4>2. After(g[m]) = <<succ[g[m][1]], Append(g[m][2], g[m][1])>>
        BY <3>2, <4>1
      <4> QED
        BY <3>4, <4>1, <4>2, Zenon
    <3>7. CASE i = n
      <4>1. succ[f[i]] = Nil /\ g[i] = <<Nil, Upto(i)>>
        BY <3>3, <3>5, <3>7
      <4> QED
        BY <2>1, <3>6, <4>1
    <3>8. CASE i < n
      BY <2>1, <3>3, <3>5, <3>6, <3>8
    <3> QED
      BY <2>1, <2>2, <3>7, <3>8
  <2>3. CASE m >= n
    <3>1. g[m] = <<Nil, Upto(n)>> /\ g[i] = <<Nil, Upto(n)>>
      BY <1>2, <2>1, <2>3
    <3> HIDE DEF Upto
    <3> QED
      BY <2>1, <3>1
  <2> QED
    BY <2>1, <2>2, <2>3
<1>6. \E h : Solves(h)
  <2> HIDE DEF After
  <2>1. \A i \in 0..N : g[i] = IF i = 0 THEN <<first, <<>>>> ELSE After(g[i - 1])
    <3> SUFFICES ASSUME NEW i \in 0..N
                 PROVE  g[i] = IF i = 0 THEN <<first, <<>>>> ELSE After(g[i - 1])
      OBVIOUS
    <3>1. CASE i = 0
      BY <1>3, <3>1
    <3>2. CASE i # 0
      <4>1. i \in 1..N
        BY <3>2
      <4> QED
        BY <1>5, <3>2, <4>1
    <3> QED
      BY <3>1, <3>2
  <2>2. Solves(g)
    BY <1>2, <2>1
  <2> QED
    BY <2>2
<1>7. PICK w : w = CHOOSE h : Solves(h)
  OBVIOUS
<1>8. Solves(w)
  BY <1>6, <1>7, Zenon
<1>9. Walk(first, succ) = w[N][2]
  BY <1>1, <1>7, Zenon DEF Walk
<1> HIDE DEF Solves, After
<1>10. /\ w[0] = <<first, <<>>>>
       /\ \A i \in 1..N : w[i] = After(w[i - 1])
  <2>1. \A i \in 0..N : w[i] = IF i = 0 THEN <<first, <<>>>> ELSE After(w[i - 1])
    BY <1>8, Zenon DEF Solves
  <2>2. \A i \in 1..N : i \in 0..N /\ i # 0
    OBVIOUS
  <2>3. 0 \in 0..N
    OBVIOUS
  <2> QED
    BY <2>1, <2>2, <2>3, Zenon
<1>11. PICK G : G = {i \in 0..N : w[i] = g[i]}
  OBVIOUS
<1>12. \A i \in 0..N : i \in G
  <2>1. 0 \in G
    BY <1>1, <1>3, <1>10, <1>11
  <2>2. \A i \in 0..N - 1 : i \in G => i + 1 \in G
    <3> SUFFICES ASSUME NEW i \in 0..N - 1, i \in G PROVE i + 1 \in G
      OBVIOUS
    <3>1. PICK j \in 1..N : j = i + 1 /\ j - 1 = i
      OBVIOUS
    <3>2. w[i] = g[i] /\ w[j] = After(w[i]) /\ g[j] = After(g[i])
      BY <1>5, <1>10, <1>11, <3>1
    <3> QED
      BY <1>11, <3>1, <3>2
  <2> QED
    BY <2>1, <2>2, UpTo
<1>13. w[N] = g[N] /\ g[N] = <<Nil, Upto(n)>>
  <2>1. N \in 0..N /\ ~(N < n)
    BY <1>1
  <2> QED
    BY <1>2, <1>11, <1>12, <2>1
<1>14. Upto(n) = f
  OBVIOUS
<1> QED
  BY <1>9, <1>13, <1>14

\* A sequence of length n without its i-th element.
Without(q, n, i) == [j \in 1..n - 1 |-> IF j < i THEN q[j] ELSE q[j + 1]]

\* It is what RemoveAt gives.
LEMMA RemovedSeq ==
  ASSUME NEW S, NEW n \in Nat, NEW q \in [1..n -> S], NEW i \in 1..n
  PROVE  Abstract!RemoveAt(q, i) = Without(q, n, i)
<1>1. q \in Seq(S) /\ Len(q) = n
  OBVIOUS
<1>2. PICK x, y : x = SubSeq(q, 1, i - 1) /\ y = SubSeq(q, i + 1, n)
  OBVIOUS
<1>3. x \in Seq(S) /\ Len(x) = i - 1 /\ \A j \in 1..i - 1 : x[j] = q[j]
  BY <1>1, <1>2
<1>4. y \in Seq(S) /\ Len(y) = n - i /\ \A j \in 1..n - i : y[j] = q[j + i]
  <2>1. y \in Seq(S) /\ Len(y) = n - i
    BY <1>1, <1>2
  <2>2. \A j \in 1..n - i : y[j] = q[i + j]
    BY <1>1, <1>2
  <2> QED
    BY <2>1, <2>2
<1>5. PICK r : r = x \o y
  OBVIOUS
<1>6. r \in Seq(S) /\ Len(r) = n - 1
  <2>1. x \o y \in Seq(S) /\ Len(x \o y) = Len(x) + Len(y)
    BY <1>3, <1>4, ConcatProperties, Zenon
  <2>2. (i - 1) + (n - i) = n - 1
    OBVIOUS
  <2> QED
    BY <1>3, <1>4, <1>5, <2>1, <2>2
<1>7. \A j \in 1..n - 1 : r[j] = IF j < i THEN q[j] ELSE q[j + 1]
  <2> SUFFICES ASSUME NEW j \in 1..n - 1 PROVE r[j] = IF j < i THEN q[j] ELSE q[j + 1]
    OBVIOUS
  <2>0. r[j] = IF j <= Len(x) THEN x[j] ELSE y[j - Len(x)]
    <3>1. j \in 1..Len(x) + Len(y)
      BY <1>3, <1>4
    <3> QED
      BY <1>3, <1>4, <1>5, <3>1, ConcatProperties, Zenon
  <2>1. CASE j < i
    BY <1>3, <2>0, <2>1
  <2>2. CASE j >= i
    <3>1. PICK k \in 1..n - i : k = j - (i - 1) /\ k + i = j + 1
      BY <2>2
    <3>2. r[j] = y[k]
      BY <1>3, <2>0, <2>2, <3>1
    <3>3. y[k] = q[k + i]
      BY <1>4
    <3> QED
      BY <2>2, <3>1, <3>2, <3>3
  <2> QED
    BY <2>1, <2>2
<1>8. Abstract!RemoveAt(q, i) = r
  BY <1>1, <1>2, <1>5 DEF Abstract!RemoveAt
<1>9. r = [j \in 1..n - 1 |-> IF j < i THEN q[j] ELSE q[j + 1]]
  <2>1. DOMAIN r = 1..n - 1 /\ r = [j \in DOMAIN r |-> r[j]]
    BY <1>6
  <2> QED
    BY <1>7, <2>1
<1> QED
  BY <1>8, <1>9 DEF Without

\* A sequence with an element in front.
LEMMA FrontSeq ==
  ASSUME NEW S, NEW n \in Nat, NEW q \in [1..n -> S], NEW x \in S
  PROVE  <<x>> \o q = [j \in 1..n + 1 |-> IF j = 1 THEN x ELSE q[j - 1]]
<1>1. q \in Seq(S) /\ Len(q) = n /\ <<x>> \in Seq(S) /\ Len(<<x>>) = 1 /\ <<x>>[1] = x
  OBVIOUS
<1>2. PICK r : r = <<x>> \o q
  OBVIOUS
<1>3. r \in Seq(S) /\ Len(r) = n + 1
  BY <1>1, <1>2
<1>4. \A j \in 1..n + 1 : r[j] = IF j = 1 THEN x ELSE q[j - 1]
  BY <1>1, <1>2
<1>5. DOMAIN r = 1..n + 1 /\ r = [j \in DOMAIN r |-> r[j]]
  BY <1>3
<1> QED
  BY <1>2, <1>4, <1>5

----------------------------------------------------------------------------
(* The refinement mapping *)

\* The mapped order is the keys of the nodes along the list.
LEMMA OrderIs ==
  ASSUME size \in Nat, NEW f \in [1..size -> Nodes], ListIs(f)
  PROVE  Order = [i \in 1..size |-> key[f[i]]]
<1>1. Chain(f, size, head, next) /\ \A i, j \in 1..size : f[i] = f[j] => i = j
  BY DEF ListIs, Chain
<1>2. Walk(head, next) = f
  BY <1>1, WalkIs
<1> QED
  BY <1>2 DEF Order

\* The same after a step.
LEMMA OrderNext ==
  ASSUME size' \in Nat, NEW f \in [1..size' -> Nodes], ListIs(f)'
  PROVE  Order' = [i \in 1..size' |-> key'[f[i]]]
<1>1. Chain(f, size', head', next') /\ \A i, j \in 1..size' : f[i] = f[j] => i = j
  BY DEF ListIs, Chain
<1>2. Walk(head', next') = f
  BY <1>1, WalkIs
<1>3. Order' = [i \in DOMAIN Walk(head', next') |-> key'[Walk(head', next')[i]]]
  BY DEF Order
<1> QED
  BY <1>2, <1>3

\* The node at a place of the list is found by the map under its key.
LEMMA Entry ==
  ASSUME NEW f \in [1..size -> Nodes], ListIs(f), MapIs(f), NEW i \in 1..size
  PROVE  key[f[i]] \in Keys /\ cache[key[f[i]]] = f[i] /\ f[i] # Nil /\ key[f[i]] # EmptyKey
<1>1. f[i] \in Nodes /\ ~Fresh(f[i])
  BY DEF ListIs
<1>2. PICK k \in Keys : cache[k] = f[i]
  BY <1>1 DEF Fresh
<1> QED
  BY <1>1, <1>2, NilAssumption, KeysAssumption DEF MapIs

\* The keys the abstract cache holds are those the map leads from.
LEMMA HeldKeys ==
  ASSUME size \in Nat, NEW f \in [1..size -> Nodes], ListIs(f), MapIs(f), NEW k \in Keys
  PROVE  k \in Abstract!Held <=> cache[k] # Nil
<1>1. Order = [i \in 1..size |-> key[f[i]]]
  BY OrderIs
<1>2. Abstract!Held = {key[f[i]] : i \in 1..size}
  BY <1>1 DEF Abstract!Held, Abstract!ToSet
<1>3. ASSUME cache[k] # Nil PROVE k \in Abstract!Held
  BY <1>2, <1>3 DEF MapIs
<1>4. ASSUME k \in Abstract!Held PROVE cache[k] # Nil
  <2>1. PICK i \in 1..size : k = key[f[i]]
    BY <1>2, <1>4
  <2> QED
    BY <2>1, Entry
<1> QED
  BY <1>3, <1>4

\* The place of a node in the list is the only place of its key.
LEMMA PlaceOf ==
  ASSUME size \in Nat, NEW f \in [1..size -> Nodes], ListIs(f), MapIs(f), NEW i \in 1..size
  PROVE  i \in Abstract!Places(key[f[i]])
<1>1. Order = [j \in 1..size |-> key[f[j]]]
  BY OrderIs
<1> QED
  BY <1>1 DEF Abstract!Places

\* A step sets the map's entry of k to c, which is n or nothing, and the value
\* and the clock of the node n, which no other key leads to.
SetsEntry(k, c, n, v, a) ==
    /\ c \in {n, Nil}
    /\ \A j \in Keys : cache[j] = n => j = k
    /\ cache' = [cache EXCEPT ![k] = c]
    /\ value' = [value EXCEPT ![n] = v]
    /\ age' = [age EXCEPT ![n] = a]

\* The mapped entry of k is set to the value x and the clock y.
MapsEntry(k, x, y) == ValueOf' = [ValueOf EXCEPT ![k] = x] /\ AgeOf' = [AgeOf EXCEPT ![k] = y]

\* What such a step does to the mapped values and clocks.
LEMMA EntryChange ==
  ASSUME ListTypeOK, NEW k \in Keys, NEW c, NEW n \in Nodes, NEW v, NEW a, SetsEntry(k, c, n, v, a)
  PROVE  /\ c = Nil => MapsEntry(k, None, 0)
         /\ c # Nil => MapsEntry(k, v, a)
<1>0. n # Nil
  BY NilAssumption
<1>1. cache \in [Keys -> Pointers] /\ value \in [Nodes -> Values \cup {None}] /\ age \in [Nodes -> 0..MaxAge]
  BY DEF ListTypeOK
<1>2. /\ cache'[k] = c /\ c \in {n, Nil}
      /\ \A j \in Keys : j # k => cache'[j] = cache[j] /\ cache[j] # n
  BY <1>1 DEF SetsEntry
<1>3. \A m \in Nodes : m # n => value'[m] = value[m] /\ age'[m] = age[m]
  BY <1>1 DEF SetsEntry
<1>4. value'[n] = v /\ age'[n] = a
  BY <1>1 DEF SetsEntry
<1>5. \A j \in Keys : cache[j] = Nil \/ cache[j] \in Nodes
  BY <1>1 DEF Pointers
<1>6. ValueOf' = [j \in Keys |-> IF cache'[j] = Nil THEN None ELSE value'[cache'[j]]]
  BY DEF ValueOf
<1>7. AgeOf' = [j \in Keys |-> IF cache'[j] = Nil THEN 0 ELSE age'[cache'[j]]]
  BY DEF AgeOf
<1>8. \A j \in Keys : ValueOf'[j] = IF j = k THEN (IF c = Nil THEN None ELSE v) ELSE ValueOf[j]
  BY <1>0, <1>2, <1>3, <1>4, <1>5, <1>6 DEF ValueOf
<1>9. \A j \in Keys : AgeOf'[j] = IF j = k THEN (IF c = Nil THEN 0 ELSE a) ELSE AgeOf[j]
  BY <1>0, <1>2, <1>3, <1>4, <1>5, <1>7 DEF AgeOf
<1>10. PICK p, q : p = ValueOf' /\ q = AgeOf'
  OBVIOUS
<1>11. PICK x, y : x = (IF c = Nil THEN None ELSE v) /\ y = (IF c = Nil THEN 0 ELSE a)
  OBVIOUS
<1>12. p = [j \in Keys |-> IF j = k THEN x ELSE ValueOf[j]]
  <2>1. p = [j \in Keys |-> p[j]]
    BY <1>6, <1>10
  <2>2. \A j \in Keys : p[j] = IF j = k THEN x ELSE ValueOf[j]
    BY <1>8, <1>10, <1>11
  <2> QED
    BY <2>1, <2>2, Zenon
<1>13. q = [j \in Keys |-> IF j = k THEN y ELSE AgeOf[j]]
  <2>1. q = [j \in Keys |-> q[j]]
    BY <1>7, <1>10
  <2>2. \A j \in Keys : q[j] = IF j = k THEN y ELSE AgeOf[j]
    BY <1>9, <1>10, <1>11
  <2> QED
    BY <2>1, <2>2, Zenon
<1>14. DOMAIN ValueOf = Keys /\ DOMAIN AgeOf = Keys
  BY DEF ValueOf, AgeOf
<1>15. p = [ValueOf EXCEPT ![k] = x] /\ q = [AgeOf EXCEPT ![k] = y]
  BY <1>12, <1>13, <1>14
<1>16. MapsEntry(k, x, y)
  BY <1>10, <1>15 DEF MapsEntry
<1> QED
  BY <1>11, <1>16

----------------------------------------------------------------------------
(* The list operations implement the operations of the abstract cache *)

\* remove_node forgets the node's key.
LEMMA RemoveForgets ==
  ASSUME ListTypeOK, NEW f \in [1..size -> Nodes], ListIs(f), MapIs(f),
         NEW i \in 1..size, remove_node(f[i])
  PROVE  Abstract!Forget(key[f[i]])
<1>0. PICK n \in Nodes, k \in Keys :
          /\ n = f[i] /\ k = key[n] /\ cache[k] = n /\ n # Nil /\ k # EmptyKey
  <2>1. /\ f[i] \in Nodes /\ key[f[i]] \in Keys
        /\ cache[key[f[i]]] = f[i] /\ f[i] # Nil /\ key[f[i]] # EmptyKey
    BY Entry
  <2> QED
    BY <2>1, Zenon
<1>1. size \in Nat /\ size - 1 \in Nat
  BY DEF ListTypeOK
<1>2. PICK g \in [1..size - 1 -> Nodes] :
          /\ ListIs(g)'
          /\ \A j \in 1..size - 1 : g[j] = IF j < i THEN f[j] ELSE f[j + 1]
  BY RemoveNode
<1>3. /\ cache' = [cache EXCEPT ![k] = Nil]
      /\ key' = [key EXCEPT ![n] = EmptyKey]
      /\ value' = [value EXCEPT ![n] = None]
      /\ age' = [age EXCEPT ![n] = 0]
      /\ size' = size - 1
  BY <1>0, <1>1 DEF remove_node
<1>4. Order = [j \in 1..size |-> key[f[j]]]
  BY <1>1, OrderIs
<1>5. Order' = [j \in 1..size - 1 |-> key'[g[j]]]
  BY <1>1, <1>2, <1>3, OrderNext
<1>6. \A j \in 1..size - 1 : key'[g[j]] = IF j < i THEN Order[j] ELSE Order[j + 1]
  <2> SUFFICES ASSUME NEW j \in 1..size - 1
               PROVE  key'[g[j]] = IF j < i THEN Order[j] ELSE Order[j + 1]
    OBVIOUS
  <2>1. PICK m \in 1..size : m = (IF j < i THEN j ELSE j + 1) /\ m # i
    BY <1>1
  <2>2. g[j] = f[m] /\ f[m] \in Nodes
    BY <1>2, <2>1
  <2>3. f[m] # n
    BY <1>0, <2>1 DEF ListIs
  <2>4. key'[g[j]] = key[f[m]] /\ Order[m] = key[f[m]]
    BY <1>3, <1>4, <2>2, <2>3 DEF ListTypeOK
  <2> QED
    BY <2>1, <2>4
<1>7. Order' = Abstract!RemoveAt(Order, i)
  <2>1. PICK q \in [1..size -> Keys] : q = Order
    BY <1>4, Entry
  <2>2. Abstract!RemoveAt(q, i) = [j \in 1..size - 1 |-> IF j < i THEN q[j] ELSE q[j + 1]]
    <3>1. Abstract!RemoveAt(q, i) = Without(q, size, i)
      BY <1>1, RemovedSeq
    <3> QED
      BY <3>1 DEF Without
  <2> QED
    BY <1>5, <1>6, <2>1, <2>2
<1>8. i \in Abstract!Places(k)
  BY <1>0, <1>1, PlaceOf
<1>9. \A j \in Keys : cache[j] = n => j = k
  BY <1>0 DEF MapIs
<1>10. ValueOf' = [ValueOf EXCEPT ![k] = None] /\ AgeOf' = [AgeOf EXCEPT ![k] = 0]
  <2>1. SetsEntry(k, Nil, n, None, 0)
    BY <1>3, <1>9 DEF SetsEntry
  <2>2. MapsEntry(k, None, 0)
    BY <2>1, EntryChange
  <2> QED
    BY <2>2 DEF MapsEntry
<1> QED
  BY <1>0, <1>7, <1>8, <1>10 DEF Abstract!Forget

\* touch uses the node's key.
LEMMA TouchUses ==
  ASSUME ListTypeOK, NEW f \in [1..size -> Nodes], ListIs(f), MapIs(f),
         NEW i \in 1..size, NEW v \in Values \cup {None}, touch(f[i], v)
  PROVE  Abstract!Use(key[f[i]], v)
<1>0. PICK n \in Nodes, k \in Keys :
          /\ n = f[i] /\ k = key[n] /\ cache[k] = n /\ n # Nil /\ k # EmptyKey
  <2>1. /\ f[i] \in Nodes /\ key[f[i]] \in Keys
        /\ cache[key[f[i]]] = f[i] /\ f[i] # Nil /\ key[f[i]] # EmptyKey
    BY Entry
  <2> QED
    BY <2>1, Zenon
<1>1. size \in Nat /\ size - 1 \in Nat
  BY DEF ListTypeOK
<1>2. PICK g \in [1..size -> Nodes] :
          /\ ListIs(g)'
          /\ \A j \in 1..size : g[j] = IF j = 1 THEN f[i] ELSE IF j <= i THEN f[j - 1] ELSE f[j]
  BY TouchNode
<1>3. /\ value' = [value EXCEPT ![n] = v]
      /\ age' = [age EXCEPT ![n] = 0]
      /\ cache' = cache /\ key' = key /\ size' = size
  BY <1>0 DEF touch
<1>4. Order = [j \in 1..size |-> key[f[j]]]
  BY <1>1, OrderIs
<1>5. Order' = [j \in 1..size |-> key[g[j]]]
  <2>1. Order' = [j \in 1..size' |-> key'[g[j]]]
    BY <1>1, <1>2, <1>3, OrderNext
  <2> QED
    BY <1>3, <2>1
<1>6. PICK q \in [1..size -> Keys] : q = Order
  BY <1>4, Entry
<1>7. PICK r \in [1..size - 1 -> Keys] :
          r = Abstract!RemoveAt(q, i) /\ \A j \in 1..size - 1 : r[j] = IF j < i THEN q[j] ELSE q[j + 1]
  <2>1. Abstract!RemoveAt(q, i) = [j \in 1..size - 1 |-> IF j < i THEN q[j] ELSE q[j + 1]]
    <3>1. Abstract!RemoveAt(q, i) = Without(q, size, i)
      BY <1>1, RemovedSeq
    <3> QED
      BY <3>1 DEF Without
  <2>2. [j \in 1..size - 1 |-> IF j < i THEN q[j] ELSE q[j + 1]] \in [1..size - 1 -> Keys]
    BY <1>1
  <2> QED
    BY <2>1, <2>2
<1>8. <<k>> \o r = [j \in 1..size |-> IF j = 1 THEN k ELSE r[j - 1]]
  <2>1. PICK m \in Nat : m = size - 1 /\ m + 1 = size
    BY <1>1
  <2>2. r \in [1..m -> Keys]
    BY <2>1
  <2>3. <<k>> \o r = [j \in 1..m + 1 |-> IF j = 1 THEN k ELSE r[j - 1]]
    BY <2>2, FrontSeq
  <2> QED
    BY <2>1, <2>3
<1>9. \A j \in 1..size : key[g[j]] = IF j = 1 THEN k ELSE r[j - 1]
  <2> SUFFICES ASSUME NEW j \in 1..size PROVE key[g[j]] = IF j = 1 THEN k ELSE r[j - 1]
    OBVIOUS
  <2>1. CASE j = 1
    BY <1>0, <1>2, <2>1
  <2>2. CASE j # 1
    <3>1. PICK m \in 1..size - 1 : m = j - 1 /\ m + 1 = j
      BY <1>1, <2>2
    <3>2. r[m] = IF m < i THEN q[m] ELSE q[j]
      BY <1>7, <3>1
    <3>3. g[j] = IF m < i THEN f[m] ELSE f[j]
      BY <1>2, <2>2, <3>1
    <3>4. m \in 1..size
      BY <1>1
    <3>5. q[m] = key[f[m]] /\ q[j] = key[f[j]]
      BY <1>4, <1>6, <3>4
    <3> QED
      BY <2>2, <3>1, <3>2, <3>3, <3>5
  <2> QED
    BY <2>1, <2>2
<1>10. Order' = <<k>> \o Abstract!RemoveAt(Order, i)
  BY <1>5, <1>6, <1>7, <1>8, <1>9
<1>11. i \in Abstract!Places(k)
  BY <1>0, <1>1, PlaceOf
<1>12. \A j \in Keys : cache[j] = n => j = k
  BY <1>0 DEF MapIs
<1>13. ValueOf' = [ValueOf EXCEPT ![k] = v] /\ AgeOf' = [AgeOf EXCEPT ![k] = 0]
  <2>1. SetsEntry(k, n, n, v, 0)
    BY <1>0, <1>3, <1>12 DEF SetsEntry, ListTypeOK
  <2>2. n # Nil
    BY <1>0
  <2>3. MapsEntry(k, v, 0)
    BY <2>1, <2>2, EntryChange
  <2> QED
    BY <2>3 DEF MapsEntry
<1> QED
  BY <1>0, <1>10, <1>11, <1>13 DEF Abstract!Use

\* put's insertion of a node inserts its key.
LEMMA PutInserts ==
  ASSUME ListTypeOK, ListWellFormed, CallOK, NEW n \in Nodes, PutInsert(n)
  PROVE  call.k \in Keys /\ call.v \in Values /\ Abstract!Insert(call.k, call.v)
<1>0. PICK f \in [1..size -> Nodes] : ListIs(f) /\ MapIs(f)
  BY DEF ListWellFormed
<1>1. size \in Nat
  BY DEF ListTypeOK
<1>2. PICK k \in Keys, v \in Values : k = call.k /\ v = call.v /\ cache[k] = Nil /\ size < Bound
  <2>1. call.k \in Keys /\ call.v \in Values /\ cache[call.k] = Nil /\ size < Bound
    BY DEF PutInsert, At, CallOK
  <2> QED
    BY <2>1, Zenon
<1>3. /\ Fresh(n) /\ add_to_front(n)
      /\ key' = [key EXCEPT ![n] = k]
      /\ value' = [value EXCEPT ![n] = v]
      /\ age' = [age EXCEPT ![n] = 0]
      /\ cache' = [cache EXCEPT ![k] = n]
      /\ size' = size + 1
      /\ UNCHANGED <<ttl_seconds, result>>
  BY <1>2 DEF PutInsert, config
<1>4. PICK g \in [1..size + 1 -> Nodes] :
          /\ ListIs(g)'
          /\ \A j \in 1..size + 1 : g[j] = IF j = 1 THEN n ELSE f[j - 1]
  <2>1. cache[k] = Nil
    BY <1>2
  <2>2. \E g \in [1..size + 1 -> Nodes] :
           /\ ListIs(g)' /\ MapIs(g)'
           /\ \A j \in 1..size + 1 : g[j] = IF j = 1 THEN n ELSE f[j - 1]
    BY <1>0, <1>3, <2>1, InsertNode, Zenon
  <2> QED
    BY <2>2, Zenon
<1>5. Order = [j \in 1..size |-> key[f[j]]]
  BY <1>0, <1>1, OrderIs
<1>6. Order' = [j \in 1..size + 1 |-> key'[g[j]]]
  BY <1>1, <1>3, <1>4, OrderNext
<1>7. PICK q \in [1..size -> Keys] : q = Order
  BY <1>0, <1>5, Entry
<1>8. <<k>> \o q = [j \in 1..size + 1 |-> IF j = 1 THEN k ELSE q[j - 1]]
  BY <1>1, FrontSeq
<1>9. \A j \in 1..size + 1 : key'[g[j]] = IF j = 1 THEN k ELSE q[j - 1]
  <2> SUFFICES ASSUME NEW j \in 1..size + 1 PROVE key'[g[j]] = IF j = 1 THEN k ELSE q[j - 1]
    OBVIOUS
  <2>1. CASE j = 1
    BY <1>3, <1>4, <2>1 DEF ListTypeOK
  <2>2. CASE j # 1
    <3>1. PICK m \in 1..size : m = j - 1
      BY <1>1, <2>2
    <3>2. g[j] = f[m] /\ f[m] \in Nodes
      BY <1>4, <2>2, <3>1
    <3>3. f[m] # n
      BY <1>0, <1>3 DEF ListIs
    <3>4. key'[f[m]] = key[f[m]] /\ q[m] = key[f[m]]
      BY <1>3, <1>5, <1>7, <3>2, <3>3 DEF ListTypeOK
    <3> QED
      BY <2>2, <3>1, <3>2, <3>4
  <2> QED
    BY <2>1, <2>2
<1>10. Order' = <<k>> \o Order
  BY <1>6, <1>7, <1>8, <1>9
<1>11. Len(Order) = size
  BY <1>1, <1>7
<1>12. k \notin Abstract!Held
  BY <1>0, <1>1, <1>2, HeldKeys
<1>13. ValueOf' = [ValueOf EXCEPT ![k] = v] /\ AgeOf' = [AgeOf EXCEPT ![k] = 0]
  <2>1. \A j \in Keys : cache[j] # n
    BY <1>3 DEF Fresh
  <2>2. SetsEntry(k, n, n, v, 0)
    BY <1>3, <2>1 DEF SetsEntry
  <2>3. n # Nil
    BY NilAssumption
  <2>4. MapsEntry(k, v, 0)
    BY <2>2, <2>3, EntryChange
  <2> QED
    BY <2>4 DEF MapsEntry
<1>14. Len(Order) < Bound
  BY <1>2, <1>11
<1>15. ttl_seconds' = ttl_seconds /\ result' = result
  BY <1>3
<1>16. Abstract!Insert(k, v)
  BY <1>10, <1>12, <1>13, <1>14, <1>15 DEF Abstract!Insert
<1> QED
  BY <1>2, <1>16

\* A step that leaves the list alone leaves the abstract cache alone.
LEMMA SameAbstract ==
  ASSUME UNCHANGED list
  PROVE  Order' = Order /\ ValueOf' = ValueOf /\ AgeOf' = AgeOf
  BY DEF list, Order, ValueOf, AgeOf

\* What the map leads to is seen in the mapped values and clocks.
LEMMA Mapped ==
  ASSUME NEW k \in Keys, cache[k] # Nil
  PROVE  /\ ValueOf[k] = value[cache[k]] /\ AgeOf[k] = age[cache[k]]
         /\ Abstract!Expired(k) <=> is_expired(cache[k])
  BY DEF ValueOf, AgeOf, Abstract!Expired, is_expired

\* Removing what is found under a key forgets the key.
LEMMA FoundForgets ==
  ASSUME ListTypeOK, ListWellFormed, NEW k \in Keys, cache[k] # Nil, remove_node(cache[k])
  PROVE  k \in Abstract!Held /\ Abstract!Forget(k)
<1>1. PICK f \in [1..size -> Nodes] : ListIs(f) /\ MapIs(f)
  BY DEF ListWellFormed
<1>2. PICK i \in 1..size : f[i] = cache[k] /\ key[f[i]] = k
  BY <1>1 DEF MapIs
<1>3. remove_node(f[i]) /\ size \in Nat
  BY <1>2 DEF ListTypeOK
<1>4. Abstract!Forget(key[f[i]])
  BY <1>1, <1>3, RemoveForgets
<1> QED
  BY <1>1, <1>2, <1>3, <1>4, HeldKeys

\* Touching what is found under a key uses the key.
LEMMA FoundUses ==
  ASSUME ListTypeOK, ListWellFormed, NEW k \in Keys, cache[k] # Nil,
         NEW v \in Values \cup {None}, touch(cache[k], v)
  PROVE  Abstract!Use(k, v)
<1>1. PICK f \in [1..size -> Nodes] : ListIs(f) /\ MapIs(f)
  BY DEF ListWellFormed
<1>2. PICK i \in 1..size : f[i] = cache[k] /\ key[f[i]] = k
  BY <1>1 DEF MapIs
<1>3. touch(f[i], v)
  BY <1>2
<1>4. Abstract!Use(key[f[i]], v)
  BY <1>1, <1>3, TouchUses
<1> QED
  BY <1>2, <1>4

\* Removing the tail of a full list evicts the least recently used key.
LEMMA TailEvicts ==
  ASSUME ListTypeOK, ListWellFormed, SizeBounded, size >= Capacity, tail # Nil,
         remove_node(tail), UNCHANGED <<ttl_seconds, result>>
  PROVE  Abstract!Evict
<1>1. PICK f \in [1..size -> Nodes] : ListIs(f) /\ MapIs(f)
  BY DEF ListWellFormed
<1>2. size \in Nat /\ size \in 1..size /\ f[size] = tail
  BY <1>1 DEF ListIs, ListTypeOK
<1>3. Abstract!Forget(key[f[size]])
  BY <1>1, <1>2, RemoveForgets
<1>4. Order = [j \in 1..size |-> key[f[j]]]
  BY <1>1, <1>2, OrderIs
<1>5. PICK q \in [1..size -> Keys] : q = Order /\ q[size] = key[f[size]]
  BY <1>1, <1>2, <1>4, Entry
<1>6. Len(q) = size /\ q # <<>>
  BY <1>2
<1>7. size = Bound
  BY <1>2, CapacityAssumption DEF Bound, SizeBounded
<1>8. Abstract!Last(Order) = key[f[size]]
  BY <1>5, <1>6 DEF Abstract!Last
<1> QED
  BY <1>3, <1>5, <1>6, <1>7, <1>8 DEF Abstract!Evict

----------------------------------------------------------------------------
(* The specification implements the abstract one *)

\* Between the start of a sweep and its last removal no clock and no time to
\* live changes: what the sweep has still to remove is expired.
Sweeping == call.pc = "sweep" => \A k \in call.expired : cache[k] # Nil => is_expired(cache[k])

\* The invariant the refinement rests on holds in the initial states.
LEMMA SweepingInit == Init => Sweeping
  BY NoCallOK DEF Init, Sweeping

\* The steps of a call and between calls keep it.
LEMMA SweepingStep == IInv /\ Sweeping /\ [Next]_vars => Sweeping'
<1> SUFFICES ASSUME IInv, Sweeping, [Next]_vars, call'.pc = "sweep",
                    NEW k \in call'.expired, cache'[k] # Nil
             PROVE  is_expired(cache[k])'
  BY DEF Sweeping
<1>0. ListTypeOK /\ ListWellFormed /\ call \in Call
  BY DEF IInv, TypeOK, ListTypeOK
<1>1. CASE UNCHANGED <<list, ttl_seconds, call>>
  <2>1. call.pc = "sweep" /\ k \in call.expired /\ cache[k] # Nil
    BY <1>1 DEF list
  <2>2. is_expired(cache[k])
    BY <2>1 DEF Sweeping
  <2> QED
    BY <1>1, <2>2 DEF list, is_expired
<1>2. ASSUME NEW op, NEW j, NEW v, Begin(op, j, v) PROVE is_expired(cache[k])'
  <2>1. call' = [op |-> op, pc |-> "sweep", k |-> j, v |-> v, expired |-> ExpiredKeys]
    BY <1>2 DEF Begin
  <2>2. k \in ExpiredKeys
    BY <2>1
  <2>3. is_expired(cache[k])
    BY <2>2 DEF ExpiredKeys
  <2> QED
    BY <1>2, <2>3 DEF Begin, list, config, is_expired
<1>3. ASSUME NEW j \in Keys, Sweep(j) PROVE is_expired(cache[k])'
  <2>1. call.pc = "sweep" /\ j \in call.expired /\ call' = [call EXCEPT !.expired = @ \ {j}]
    BY <1>3 DEF Sweep
  <2>2. k \in call.expired /\ k # j /\ k \in Keys
    BY <1>0, <2>1 DEF Call
  <2>3. CASE cache[j] = Nil
    <3>1. UNCHANGED list /\ ttl_seconds' = ttl_seconds
      BY <1>3, <2>3 DEF Sweep, config
    <3>2. is_expired(cache[k])
      BY <2>1, <2>2, <3>1 DEF Sweeping, list
    <3> QED
      BY <3>1, <3>2 DEF list, is_expired
  <2>4. CASE cache[j] # Nil
    <3>1. PICK n \in Nodes : n = cache[j] /\ key[n] = j
      BY <1>0, <2>4, LiveNode
    <3>2. remove_node(n) /\ ttl_seconds' = ttl_seconds
      BY <1>3, <2>4, <3>1 DEF Sweep, config
    <3>3. cache' = [cache EXCEPT ![j] = Nil] /\ age' = [age EXCEPT ![n] = 0]
      BY <3>1, <3>2, KeysAssumption DEF remove_node
    <3>4. cache'[k] = cache[k] /\ cache[k] # Nil
      BY <1>0, <2>2, <3>3 DEF ListTypeOK
    <3>5. cache[k] \in Nodes /\ cache[k] # n
      BY <1>0, <2>2, <3>1, <3>4, LiveNode
    <3>6. age'[cache[k]] = age[cache[k]]
      BY <1>0, <3>3, <3>5 DEF ListTypeOK
    <3>7. is_expired(cache[k])
      BY <2>1, <2>2, <3>4 DEF Sweeping
    <3> QED
      BY <3>2, <3>4, <3>6, <3>7 DEF is_expired
  <2> QED
    BY <2>3, <2>4
<1>4. ~SweepDone
  BY <1>0, NoCallOK DEF SweepDone, Call
<1>5. ~Get /\ ~PutExisting /\ ~PutMakeRoom /\ \A n \in Nodes : ~PutInsert(n)
  BY <1>0, NoCallOK DEF Get, PutExisting, PutMakeRoom, PutInsert, Call
<1>6. /\ ~clear /\ ~Tick
      /\ \A t \in TTLs : ~set_ttl(t)
      /\ \A i \in Intervals : ~set_cleanup_interval(i)
  BY DEF clear, Tick, set_ttl, set_cleanup_interval
<1> QED
  BY <1>1, <1>2, <1>3, <1>4, <1>5, <1>6 DEF Next, vars

\* The initial states are initial states of the abstract cache.
LEMMA AbstractInit == Init => Abstract!Init
<1> SUFFICES ASSUME Init PROVE Abstract!Init
  OBVIOUS
<1>1. PICK f : f \in [1..size -> Nodes] /\ ListIs(f)
  BY IInvInit DEF IInv, ListWellFormed
<1>2. size = 0
  BY DEF Init
<1>3. Order = [i \in 1..size |-> key[f[i]]]
  BY <1>1, <1>2, OrderIs
<1>4. Order = <<>>
  BY <1>2, <1>3
<1>5. ValueOf = [k \in Keys |-> None] /\ AgeOf = [k \in Keys |-> 0]
  BY DEF Init, ValueOf, AgeOf
<1> QED
  BY <1>4, <1>5 DEF Init, Abstract!Init

\* Every step is a step of the abstract cache or changes nothing of it.
LEMMA AbstractStep == IInv /\ Sweeping /\ [Next]_vars => [Abstract!Next]_(Abstract!vars)
<1> SUFFICES ASSUME IInv, Sweeping, [Next]_vars PROVE Abstract!Next \/ UNCHANGED Abstract!vars
  OBVIOUS
<1>0. ListTypeOK /\ ListWellFormed /\ SizeBounded /\ CallOK /\ call \in Call /\ size \in Nat
  BY DEF IInv, TypeOK, ListTypeOK
<1>1. ASSUME UNCHANGED list, UNCHANGED <<ttl_seconds, result>> PROVE UNCHANGED Abstract!vars
  BY <1>1, SameAbstract DEF Abstract!vars
<1>2. ASSUME UNCHANGED vars PROVE UNCHANGED Abstract!vars
  BY <1>1, <1>2 DEF vars
<1>3. ASSUME NEW op, NEW k, NEW v, Begin(op, k, v) PROVE UNCHANGED Abstract!vars
  BY <1>1, <1>3 DEF Begin, config
<1>4. ASSUME NEW k \in Keys, Sweep(k) PROVE Abstract!Next \/ UNCHANGED Abstract!vars
  <2>1. UNCHANGED <<ttl_seconds, result>>
    BY <1>4 DEF Sweep, config
  <2>2. CASE cache[k] = Nil
    BY <1>1, <1>4, <2>1, <2>2 DEF Sweep
  <2>3. CASE cache[k] # Nil
    <3>1. remove_node(cache[k]) /\ is_expired(cache[k])
      BY <1>4, <2>3 DEF Sweep, Sweeping
    <3>2. k \in Abstract!Held /\ Abstract!Forget(k)
      BY <1>0, <2>3, <3>1, FoundForgets
    <3>3. Abstract!Expired(k)
      BY <2>3, <3>1, Mapped
    <3>4. Abstract!Expire
      BY <2>1, <3>2, <3>3 DEF Abstract!Expire
    <3> QED
      BY <3>4 DEF Abstract!Next
  <2> QED
    BY <2>2, <2>3
<1>5. ASSUME SweepDone PROVE UNCHANGED Abstract!vars
  BY <1>1, <1>5 DEF SweepDone, config
<1>6. ASSUME Get PROVE Abstract!Next
  <2>0. PICK k \in Keys : k = call.k
    BY <1>0, <1>6 DEF Get, At, CallOK
  <2>1. ttl_seconds' = ttl_seconds
    BY <1>6 DEF Get, config
  <2>2. CASE cache[k] = Nil /\ result' = <<k, None>> /\ UNCHANGED list
    <3>1. PICK f \in [1..size -> Nodes] : ListIs(f) /\ MapIs(f)
      BY <1>0 DEF ListWellFormed
    <3>2. k \notin Abstract!Held
      BY <1>0, <2>2, <3>1, HeldKeys
    <3>3. Abstract!Miss(k)
      BY <2>1, <2>2, <3>2, SameAbstract DEF Abstract!Miss
    <3> QED
      BY <3>3 DEF Abstract!Next
  <2>3. CASE cache[k] # Nil /\ is_expired(cache[k]) /\ remove_node(cache[k]) /\ result' = <<k, None>>
    <3>1. k \in Abstract!Held /\ Abstract!Forget(k)
      BY <1>0, <2>3, FoundForgets
    <3>2. Abstract!Expired(k)
      BY <2>3, Mapped
    <3>3. Abstract!Expire
      BY <2>1, <2>3, <3>1, <3>2 DEF Abstract!Expire
    <3> QED
      BY <3>3 DEF Abstract!Next
  <2>4. CASE /\ cache[k] # Nil /\ ~is_expired(cache[k]) /\ touch(cache[k], value[cache[k]])
             /\ result' = <<k, value[cache[k]]>>
    <3>1. PICK v \in Values \cup {None} : v = value[cache[k]]
      BY <1>0, <2>4, LiveNode DEF ListTypeOK
    <3>2. Abstract!Use(k, v)
      BY <1>0, <2>4, <3>1, FoundUses
    <3>3. ~Abstract!Expired(k) /\ ValueOf[k] = v
      BY <2>4, <3>1, Mapped
    <3>4. Abstract!Get(k)
      BY <2>1, <2>4, <3>1, <3>2, <3>3 DEF Abstract!Get
    <3> QED
      BY <3>4 DEF Abstract!Next
  <2> QED
    BY <1>6, <2>0, <2>2, <2>3, <2>4 DEF Get
<1>7. ASSUME PutExisting PROVE Abstract!Next
  <2>0. PICK k \in Keys, v \in Values : k = call.k /\ v = call.v
    BY <1>0, <1>7 DEF PutExisting, At, CallOK
  <2>1. cache[k] # Nil /\ touch(cache[k], v) /\ UNCHANGED <<ttl_seconds, result>>
    BY <1>7, <2>0 DEF PutExisting, config
  <2>2. Abstract!Use(k, v)
    BY <1>0, <2>1, FoundUses
  <2>3. Abstract!Update
    BY <2>1, <2>2 DEF Abstract!Update
  <2> QED
    BY <2>3 DEF Abstract!Next
<1>8. ASSUME PutMakeRoom PROVE Abstract!Next \/ UNCHANGED Abstract!vars
  <2>1. UNCHANGED <<ttl_seconds, result>>
    BY <1>8 DEF PutMakeRoom, config
  <2>2. CASE size >= Capacity /\ tail # Nil
    <3>1. remove_node(tail)
      BY <1>8, <2>2 DEF PutMakeRoom
    <3>2. Abstract!Evict
      BY <1>0, <2>1, <2>2, <3>1, TailEvicts
    <3> QED
      BY <3>2 DEF Abstract!Next
  <2>3. CASE ~(size >= Capacity /\ tail # Nil)
    BY <1>1, <1>8, <2>1, <2>3 DEF PutMakeRoom
  <2> QED
    BY <2>2, <2>3
<1>9. ASSUME NEW n \in Nodes, PutInsert(n) PROVE Abstract!Next
  BY <1>0, <1>9, PutInserts DEF Abstract!Next
<1>10. ASSUME clear PROVE Abstract!Next
  <2>1. PICK f : f = [i \in 1..0 |-> Nil]
    OBVIOUS
  <2>2. f \in [1..size' -> Nodes] /\ size' = 0
    BY <1>10, <2>1 DEF clear
  <2>3. ListIs(f)'
    BY <1>10, <2>1, <2>2 DEF clear, ListIs
  <2>4. Order' = [i \in 1..size' |-> key'[f[i]]]
    BY <2>2, <2>3, OrderNext
  <2>5. Order' = <<>>
    BY <2>2, <2>4
  <2>6. ValueOf' = [k \in Keys |-> None] /\ AgeOf' = [k \in Keys |-> 0]
    BY <1>10 DEF clear, ValueOf, AgeOf
  <2>7. UNCHANGED <<ttl_seconds, result>>
    BY <1>10 DEF clear, config
  <2>8. Abstract!Clear
    BY <2>5, <2>6, <2>7 DEF Abstract!Clear
  <2> QED
    BY <2>8 DEF Abstract!Next
<1>11. ASSUME Tick PROVE Abstract!Next
  <2>0. PICK f \in [1..size -> Nodes] : ListIs(f) /\ MapIs(f)
    BY <1>0 DEF ListWellFormed
  <2>1. /\ UNCHANGED <<cache, key, value, next, head, ttl_seconds, result>>
        /\ age' = [n \in Nodes |-> IF ~Fresh(n) /\ age[n] < MaxAge THEN age[n] + 1 ELSE age[n]]
    BY <1>11 DEF Tick, config
  <2>2. Order' = Order /\ ValueOf' = ValueOf
    BY <2>1 DEF Order, ValueOf
  <2>3. \A k \in Keys : (IF cache[k] = Nil THEN 0 ELSE age'[cache[k]])
                          = IF k \in Abstract!Held /\ AgeOf[k] < MaxAge THEN AgeOf[k] + 1 ELSE AgeOf[k]
    <3> SUFFICES ASSUME NEW k \in Keys
                 PROVE  (IF cache[k] = Nil THEN 0 ELSE age'[cache[k]])
                          = IF k \in Abstract!Held /\ AgeOf[k] < MaxAge THEN AgeOf[k] + 1 ELSE AgeOf[k]
      OBVIOUS
    <3>1. k \in Abstract!Held <=> cache[k] # Nil
      BY <1>0, <2>0, HeldKeys
    <3>2. CASE cache[k] = Nil
      BY <3>1, <3>2 DEF AgeOf
    <3>3. CASE cache[k] # Nil
      <4>1. AgeOf[k] = age[cache[k]]
        BY <3>3, Mapped
      <4>2. cache[k] \in Nodes /\ ~Fresh(cache[k])
        BY <1>0, <3>3, LiveNode
      <4>3. age'[cache[k]] = IF age[cache[k]] < MaxAge THEN age[cache[k]] + 1 ELSE age[cache[k]]
        BY <2>1, <4>2
      <4> QED
        BY <3>1, <3>3, <4>1, <4>3
    <3> QED
      BY <3>2, <3>3
  <2>4. AgeOf' = [k \in Keys |-> IF cache[k] = Nil THEN 0 ELSE age'[cache[k]]]
    BY <2>1 DEF AgeOf
  <2>5. Abstract!Tick
    BY <2>1, <2>2, <2>3, <2>4 DEF Abstract!Tick
  <2> QED
    BY <2>5 DEF Abstract!Next
<1>12. ASSUME NEW t \in TTLs, set_ttl(t) PROVE Abstract!Next
  <2>1. UNCHANGED list /\ ttl_seconds' \in TTLs /\ result' = result
    BY <1>12 DEF set_ttl
  <2> QED
    BY <2>1, SameAbstract DEF Abstract!Next
<1>13. ASSUME NEW i \in Intervals, set_cleanup_interval(i) PROVE UNCHANGED Abstract!vars
  BY <1>1, <1>13 DEF set_cleanup_interval
<1> QED
  BY <1>2, <1>3, <1>4, <1>5, <1>6, <1>7, <1>8, <1>9, <1>10, <1>11, <1>12, <1>13 DEF Next

(***************************************************************************)
(* The cache of cache.v implements LRUList: whatever the keys, the values, *)
(* the capacity and the times to live, what a caller sees is a list of     *)
(* keys in order of use that evicts only its last one and only when full,  *)
(* forgets an entry otherwise only when it is expired, and answers a get   *)
(* with the last value put.                                                *)
(***************************************************************************)
THEOREM CacheImplementsLRU == Spec => ImplementsLRU
<1>1. Init => IInv /\ Sweeping /\ Abstract!Init
  BY IInvInit, SweepingInit, AbstractInit
<1>2. IInv /\ Sweeping /\ [Next]_vars => (IInv /\ Sweeping)'
  BY IInvStep, SweepingStep
<1>3. IInv /\ Sweeping /\ [Next]_vars => [Abstract!Next]_(Abstract!vars)
  BY AbstractStep
<1> QED
  BY <1>1, <1>2, <1>3, PTL DEF Spec, ImplementsLRU, Abstract!Spec
=============================================================================
