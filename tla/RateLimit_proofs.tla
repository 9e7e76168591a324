-------------------------- MODULE RateLimit_proofs --------------------------
(***************************************************************************)
(* The counts of the rate limiter, for any number of requests, clients,    *)
(* limiters and windows.                                                   *)
(*                                                                         *)
(* CountsDistinct is not inductive: it does not say how the counts already *)
(* given relate to the entry in the store.  Behind adds that: the window a *)
(* count was taken in is the client's current one, whose counter has       *)
(* reached at least that count, or it is over; and a window that is over   *)
(* never has the end of a new one.                                         *)
(*                                                                         *)
(* AdmittedBounded is about the past.  Its invariant AInv says that there  *)
(* are books: the set of the windows that were opened, at least Window     *)
(* apart, and for each the set of the counts that were let through, as     *)
(* many as requests were admitted in it.  RejectedOnlyOverLimit rests on   *)
(* RInv: a count never exceeds the requests that began since its window    *)
(* was opened.                                                             *)
(***************************************************************************)
EXTENDS RateLimit, FiniteSetTheorems, WellFoundedInduction, TLAPS

Requests == [pc : {"idle", "count", "decide"}, key : Keys \cup {None}, i : Nat, count : Nat,
             reset_at : Nat, epoch : Nat, time : Nat]

Typed ==
    /\ now \in Nat
    /\ data \in [Keys -> Entry \cup {None}]
    /\ req \in [Workers -> Requests]
    /\ epoch \in [Keys -> Nat]
    /\ \A w \in Workers : req[w].pc # "idle" => req[w].key \in Keys

\* Request r has the count of its client's current window, or of one that is
\* over, or of one before a reset.
Behind(r) ==
    \/ r.epoch < epoch[r.key]
    \/ r.reset_at <= now
    \/ /\ data[r.key] # None
       /\ data[r.key].reset_at = r.reset_at
       /\ r.count <= data[r.key].count

IInv ==
    /\ Typed
    /\ \A w \in Workers : req[w].pc = "decide" => Behind(req[w]) /\ req[w].epoch <= epoch[req[w].key]
    /\ CountsDistinct

-----------------------------------------------------------------------------
\* The empty store satisfies the invariant.
LEMMA InitIInv == Init => IInv
  BY DEF Init, IInv, Typed, CountsDistinct, Idle, Requests

\* The entry that increment leaves: its window is not over, and its count is
\* above every count of that window that was given before.
LEMMA Incremented ==
    ASSUME IInv, NEW k \in Keys
    PROVE  /\ incremented(k) \in Entry
           /\ incremented(k) # None
           /\ incremented(k).reset_at > now
           /\ data[k] # None /\ ~expired(data[k]) =>
                 /\ incremented(k).reset_at = data[k].reset_at
                 /\ incremented(k).count = data[k].count + 1
           /\ \A v \in Workers :
                 req[v].pc = "decide" /\ req[v].key = k /\ req[v].epoch = epoch[k]
                 /\ req[v].reset_at = incremented(k).reset_at
                     => req[v].count < incremented(k).count
<1> DEFINE new == incremented(k)
<1>1. now \in Nat /\ data[k] \in Entry \cup {None} /\ epoch[k] \in Nat
  BY DEF IInv, Typed
<1>2. CASE data[k] # None /\ ~expired(data[k])
  <2>1. data[k] \in Entry
    BY <1>1, <1>2
  <2>2. new = [data[k] EXCEPT !.count = data[k].count + 1]
    BY <1>2 DEF incremented
  <2>3. new \in Entry /\ new.reset_at = data[k].reset_at /\ new.count = data[k].count + 1
    BY <2>1, <2>2 DEF Entry
  <2>4. new.reset_at > now
    BY <1>1, <1>2, <2>1, <2>3 DEF expired, Entry
  <2>5. new # None
    BY <2>3, NoneAssumption DEF Entry
  <2> HIDE DEF new
  <2>6. ASSUME NEW v \in Workers, req[v].pc = "decide", req[v].key = k,
               req[v].epoch = epoch[k], req[v].reset_at = new.reset_at
        PROVE  req[v].count < new.count
    <3>1. Behind(req[v]) /\ req[v] \in Requests
      BY <2>6 DEF IInv, Typed
    <3>2. req[v].count <= data[k].count /\ req[v].count \in Nat
      BY <1>1, <2>1, <2>3, <2>4, <2>6, <3>1 DEF Behind, Requests, Entry
    <3>3. QED
      BY <2>1, <2>3, <3>2 DEF Entry
  <2>7. QED
    BY <1>2, <2>3, <2>4, <2>5, <2>6 DEF new
<1>3. CASE ~(data[k] # None /\ ~expired(data[k]))
  <2>1. new = [count |-> 1, reset_at |-> now + Window]
    BY <1>3 DEF incremented
  <2>2. new \in Entry /\ new.reset_at = now + Window /\ new.reset_at > now
    BY <1>1, <2>1, TimeAssumption DEF Entry
  <2>3. new # None
    BY <2>2, NoneAssumption DEF Entry
  <2> HIDE DEF new
  <2>4. ASSUME NEW v \in Workers, req[v].pc = "decide", req[v].key = k,
               req[v].epoch = epoch[k], req[v].reset_at = new.reset_at
        PROVE  FALSE
    <3>1. Behind(req[v]) /\ req[v] \in Requests
      BY <2>4 DEF IInv, Typed
    <3>2. data[k] # None /\ data[k].reset_at = new.reset_at
      BY <1>1, <2>2, <2>4, <3>1 DEF Behind, Requests
    <3>3. QED
      BY <1>1, <1>3, <2>2, <3>2 DEF expired, Entry
  <2>5. QED
    BY <1>3, <2>2, <2>3, <2>4 DEF new
<1>4. QED
  BY <1>2, <1>3

\* A step that changes one request to one that is not deciding, and no window.
LEMMA Leaving ==
    ASSUME IInv, NEW w \in Workers, NEW r \in Requests,
           r.pc # "decide", r.pc # "idle" => r.key \in Keys,
           req' = [req EXCEPT ![w] = r], UNCHANGED <<now, data, epoch>>
    PROVE  IInv'
<1>1. /\ req \in [Workers -> Requests] /\ req' \in [Workers -> Requests]
      /\ req'[w] = r
      /\ \A v \in Workers \ {w} : req'[v] = req[v]
  BY DEF IInv, Typed
<1>2. Typed'
  BY <1>1 DEF IInv, Typed
<1>3. ASSUME NEW v \in Workers, req'[v].pc = "decide"
      PROVE  Behind(req[v])' /\ req'[v].epoch <= epoch'[req'[v].key]
  BY <1>1, <1>3 DEF IInv, Behind
<1>4. CountsDistinct'
  BY <1>1 DEF IInv, CountsDistinct
<1>5. QED
  BY <1>2, <1>3, <1>4 DEF IInv

\* A request on its way to the next limiter.
LEMMA NextLimiter ==
    ASSUME NEW q \in Requests, NEW r, r = [q EXCEPT !.pc = "count", !.i = q.i + 1]
    PROVE  r \in Requests /\ r.pc = "count" /\ r.key = q.key
<1>1. q.i + 1 \in Nat
  BY DEF Requests
<1>2. QED
  BY <1>1 DEF Requests

\* Every step preserves the invariant.
LEMMA NextIInv == IInv /\ [Next]_vars => IInv'
<1> SUFFICES ASSUME IInv, [Next]_vars PROVE IInv'
  OBVIOUS
<1>0. /\ now \in Nat
      /\ data \in [Keys -> Entry \cup {None}]
      /\ req \in [Workers -> Requests]
      /\ epoch \in [Keys -> Nat]
      /\ \A w \in Workers : req[w].pc # "idle" => req[w].key \in Keys
      /\ \A w \in Workers : req[w].pc = "decide" => Behind(req[w]) /\ req[w].epoch <= epoch[req[w].key]
      /\ CountsDistinct
  BY DEF IInv, Typed
<1>1. ASSUME NEW w \in Workers, NEW k \in Keys, Arrive(w, k)
      PROVE  IInv'
  <2> DEFINE r == [Idle EXCEPT !.pc = "count", !.key = k, !.i = 1]
  <2>1. req' = [req EXCEPT ![w] = r] /\ UNCHANGED <<now, data, epoch>>
    BY <1>1 DEF Arrive
  <2>2. r \in Requests /\ r.pc = "count" /\ r.key = k
    BY DEF Idle, Requests
  <2> HIDE DEF r
  <2>3. QED
    BY <2>1, <2>2, Leaving
<1>2. ASSUME NEW w \in Workers, increment(w)
      PROVE  IInv'
  <2> DEFINE k == req[w].key
             new == incremented(k)
  <2>1. k \in Keys /\ req[w].pc = "count" /\ req[w] \in Requests
    BY <1>0, <1>2 DEF increment
  <2>2. data' = [data EXCEPT ![k] = new] /\ now' = now /\ epoch' = epoch
    BY <1>2 DEF increment
  <2>3. req' = [req EXCEPT ![w].pc = "decide", ![w].count = new.count, ![w].reset_at = new.reset_at,
                           ![w].epoch = epoch[k], ![w].time = now]
    BY <1>2 DEF increment
  <2>4. /\ new \in Entry /\ new # None /\ new.reset_at > now
        /\ data[k] # None /\ ~expired(data[k]) =>
              new.reset_at = data[k].reset_at /\ new.count = data[k].count + 1
        /\ \A v \in Workers :
              req[v].pc = "decide" /\ req[v].key = k /\ req[v].epoch = epoch[k]
              /\ req[v].reset_at = new.reset_at => req[v].count < new.count
    BY <2>1, Incremented
  <2>5. new.count \in Nat /\ new.reset_at \in Nat
    BY <2>4 DEF Entry
  <2> HIDE DEF k, new
  <2>6. epoch[k] \in Nat
    BY <1>0, <2>1
  <2>7. /\ req' \in [Workers -> Requests]
        /\ req'[w].pc = "decide" /\ req'[w].key = k /\ req'[w].epoch = epoch[k]
        /\ req'[w].count = new.count /\ req'[w].reset_at = new.reset_at
        /\ \A v \in Workers \ {w} : req'[v] = req[v]
    BY <1>0, <2>1, <2>3, <2>5, <2>6 DEF Requests, k
  <2>8. data' \in [Keys -> Entry \cup {None}] /\ data'[k] = new
        /\ \A j \in Keys \ {k} : data'[j] = data[j]
    BY <1>0, <2>1, <2>2, <2>4
  <2>9. Typed'
    BY <1>0, <2>1, <2>2, <2>7, <2>8 DEF Typed
  <2>10. ASSUME NEW v \in Workers, req'[v].pc = "decide"
         PROVE  Behind(req[v])' /\ req'[v].epoch <= epoch'[req'[v].key]
    <3>1. CASE v = w
      BY <2>2, <2>4, <2>5, <2>6, <2>7, <2>8, <3>1 DEF Behind
    <3>2. CASE v # w
      <4>1. /\ req'[v] = req[v] /\ req[v].pc = "decide" /\ req[v] \in Requests /\ req[v].key \in Keys
            /\ Behind(req[v]) /\ req[v].epoch <= epoch[req[v].key]
        BY <1>0, <2>7, <2>10, <3>2
      <4>2. CASE req[v].key # k
        BY <2>2, <2>8, <4>1, <4>2 DEF Behind
      <4>3. CASE req[v].key = k
        <5>1. CASE data[k] # None /\ data[k].reset_at = req[v].reset_at /\ req[v].count <= data[k].count
          <6>1. data[k] \in Entry
            BY <1>0, <2>1, <5>1
          <6>2. CASE expired(data[k])
            BY <2>2, <4>1, <4>3, <5>1, <6>1, <6>2 DEF Behind, expired, Entry, Requests
          <6>3. CASE ~expired(data[k])
            BY <2>2, <2>4, <2>8, <4>1, <4>3, <5>1, <6>1, <6>3 DEF Behind, Entry, Requests
          <6>4. QED
            BY <6>2, <6>3
        <5>2. CASE req[v].epoch < epoch[k] \/ req[v].reset_at <= now
          BY <2>2, <4>1, <4>3, <5>2 DEF Behind
        <5>3. QED
          BY <4>1, <4>3, <5>1, <5>2 DEF Behind
      <4>4. QED
        BY <4>2, <4>3
    <3>3. QED
      BY <3>1, <3>2
  <2>11. CountsDistinct'
    <3> SUFFICES ASSUME NEW u \in Workers, NEW v \in Workers, u # v,
                        req'[u].pc = "decide", req'[v].pc = "decide",
                        req'[u].key = req'[v].key, req'[u].epoch = req'[v].epoch,
                        req'[u].reset_at = req'[v].reset_at
                 PROVE  req'[u].count # req'[v].count
      BY DEF CountsDistinct
    <3>1. \A x \in Workers : req'[x].count \in Nat
      BY <2>7 DEF Requests
    <3>2. CASE u = w
      BY <2>4, <2>5, <2>7, <3>1, <3>2
    <3>3. CASE v = w
      BY <2>4, <2>5, <2>7, <3>1, <3>3
    <3>4. CASE u # w /\ v # w
      BY <1>0, <2>7, <3>4 DEF CountsDistinct
    <3>5. QED
      BY <3>2, <3>3, <3>4
  <2>12. QED
    BY <2>9, <2>10, <2>11 DEF IInv
<1>3. ASSUME NEW w \in Workers, Reject(w)
      PROVE  IInv'
  <2>1. req' = [req EXCEPT ![w] = Idle] /\ UNCHANGED <<now, data, epoch>>
    BY <1>3 DEF Reject
  <2>2. Idle \in Requests /\ Idle.pc = "idle"
    BY DEF Idle, Requests
  <2>3. QED
    BY <2>1, <2>2, Leaving
<1>4. ASSUME NEW w \in Workers, Pass(w)
      PROVE  IInv'
  <2> DEFINE r == [req[w] EXCEPT !.pc = "count", !.i = req[w].i + 1]
  <2>1. UNCHANGED <<now, data, epoch>> /\ req[w].pc = "decide" /\ req[w] \in Requests
        /\ req[w].key \in Keys
    BY <1>0, <1>4 DEF Pass
  <2>2. Idle \in Requests /\ Idle.pc = "idle"
    BY DEF Idle, Requests
  <2>3. r \in Requests /\ r.pc = "count" /\ r.key = req[w].key
    BY <2>1, NextLimiter
  <2>4. CASE req' = [req EXCEPT ![w] = Idle]
    BY <2>1, <2>2, <2>4, Leaving
  <2>5. CASE req' = [req EXCEPT ![w].pc = "count", ![w].i = req[w].i + 1]
    <3>1. req' = [req EXCEPT ![w] = r]
      BY <1>0, <2>1, <2>5
    <3> HIDE DEF r
    <3>2. QED
      BY <2>1, <2>3, <3>1, Leaving
  <2>6. QED
    BY <1>4, <2>4, <2>5 DEF Pass
<1>5. ASSUME NEW k \in Keys, reset(k)
      PROVE  IInv'
  <2>1. /\ data' = [data EXCEPT ![k] = None] /\ epoch' = [epoch EXCEPT ![k] = epoch[k] + 1]
        /\ now' = now /\ req' = req
    BY <1>5 DEF reset
  <2>2. Typed'
    BY <1>0, <2>1 DEF Typed
  <2>3. ASSUME NEW v \in Workers, req'[v].pc = "decide"
        PROVE  Behind(req[v])' /\ req'[v].epoch <= epoch'[req'[v].key]
    <3>1. /\ req[v] \in Requests /\ req[v].key \in Keys /\ req[v].pc = "decide"
          /\ Behind(req[v]) /\ req[v].epoch <= epoch[req[v].key] /\ req[v].epoch \in Nat
      BY <1>0, <2>1, <2>3 DEF Requests
    <3>2. CASE req[v].key = k
      <4>1. epoch'[k] = epoch[k] + 1 /\ epoch[k] \in Nat
        BY <1>0, <2>1
      <4>2. req[v].epoch < epoch'[req[v].key]
        BY <3>1, <3>2, <4>1
      <4>3. QED
        BY <2>1, <3>1, <3>2, <4>1, <4>2 DEF Behind
    <3>3. CASE req[v].key # k
      BY <1>0, <2>1, <3>1, <3>3 DEF Behind
    <3>4. QED
      BY <3>2, <3>3
  <2>4. CountsDistinct'
    BY <1>0, <2>1 DEF CountsDistinct
  <2>5. QED
    BY <2>2, <2>3, <2>4 DEF IInv
<1>6. CASE cleanup_expired
  <2>1. /\ data' = [k \in Keys |-> IF swept(k) THEN None ELSE data[k]]
        /\ now' = now /\ req' = req /\ epoch' = epoch
    BY <1>6 DEF cleanup_expired
  <2>2. Typed'
    BY <1>0, <2>1 DEF Typed
  <2>3. ASSUME NEW v \in Workers, req'[v].pc = "decide"
        PROVE  Behind(req[v])' /\ req'[v].epoch <= epoch'[req'[v].key]
    <3>1. /\ req[v] \in Requests /\ req[v].key \in Keys /\ req[v].pc = "decide"
          /\ Behind(req[v]) /\ req[v].epoch <= epoch[req[v].key]
      BY <1>0, <2>1, <2>3
    <3>2. CASE swept(req[v].key)
      BY <2>1, <3>1, <3>2 DEF Behind, swept, expired
    <3>3. CASE ~swept(req[v].key)
      BY <2>1, <3>1, <3>3 DEF Behind
    <3>4. QED
      BY <3>2, <3>3
  <2>4. CountsDistinct'
    BY <1>0, <2>1 DEF CountsDistinct
  <2>5. QED
    BY <2>2, <2>3, <2>4 DEF IInv
<1>7. CASE Tick
  <2>1. now' = now + 1 /\ data' = data /\ req' = req /\ epoch' = epoch
    BY <1>7 DEF Tick
  <2>2. Typed'
    BY <1>0, <2>1 DEF Typed
  <2>3. ASSUME NEW v \in Workers, req'[v].pc = "decide"
        PROVE  Behind(req[v])' /\ req'[v].epoch <= epoch'[req'[v].key]
    <3>1. Behind(req[v]) /\ req[v].epoch <= epoch[req[v].key] /\ req[v].reset_at \in Nat
      BY <1>0, <2>1, <2>3 DEF Requests
    <3>2. QED
      BY <1>0, <2>1, <3>1 DEF Behind
  <2>4. CountsDistinct'
    BY <1>0, <2>1 DEF CountsDistinct
  <2>5. QED
    BY <2>2, <2>3, <2>4 DEF IInv
<1>8. CASE UNCHANGED vars
  <2>1. now' = now /\ data' = data /\ req' = req /\ epoch' = epoch
    BY <1>8 DEF vars
  <2>2. QED
    BY <2>1 DEF IInv, Typed, Behind, CountsDistinct
<1>9. QED
  BY <1>1, <1>2, <1>3, <1>4, <1>5, <1>6, <1>7, <1>8 DEF Next

\* No two requests ever hold the same count of one window of one client, for
\* any number of threads, limiters and windows: the lock of
\* MemoryStore.increment serialises what the middlewares decide on later.
THEOREM DistinctCounts == Spec => []CountsDistinct
<1>1. IInv => CountsDistinct
  BY DEF IInv
<1>2. QED
  BY <1>1, InitIInv, NextIInv, PTL DEF Spec
-----------------------------------------------------------------------------
(* Sums over a history.                                                    *)

Histories == [Slots -> Nat]

\* A set of numbers has a least one.
LEMMA LeastNumber ==
    ASSUME NEW T, T \subseteq Nat, T # {}
    PROVE  \E f \in T : \A j \in T : f <= j
<1>1. PICK less : less = OpToRel(<, Nat)
  BY Zenon
<1>2. IsWellFoundedOn(less, Nat)
  BY <1>1, NatLessThanWellFounded, Zenon
<1>3. PICK f \in T : \A y \in T : <<y, f>> \notin less
  BY <1>2, WFMin, Zenon
<1>4. \A y \in T : ~(y < f)
  BY <1>1, <1>3 DEF OpToRel
<1>5. QED
  BY <1>4

\* Induction up to a bound, for a set of numbers that holds 0 and with a number
\* the next one.
LEMMA UpTo ==
    ASSUME NEW n \in Nat, NEW G, 0 \in G, \A y \in 0 .. n - 1 : y \in G => y + 1 \in G
    PROVE  \A y \in 0 .. n : y \in G
<1>1. PICK T : T = {y \in 0 .. n : y \notin G}
  OBVIOUS
<1>2. ASSUME T # {} PROVE FALSE
  <2>1. T \subseteq Nat
    BY <1>1
  <2>2. PICK f \in T : \A j \in T : f <= j
    BY <1>2, <2>1, LeastNumber
  <2>3. f \in 0 .. n /\ f \notin G /\ f # 0
    BY <1>1
  <2>4. f - 1 \in 0 .. n /\ f - 1 \in 0 .. n - 1 /\ f - 1 + 1 = f
    BY <2>3
  <2>5. f - 1 \notin T
    BY <2>1, <2>2
  <2>6. f - 1 \in G
    BY <1>1, <2>4, <2>5
  <2>7. QED
    BY <2>3, <2>4, <2>6
<1>3. QED
  BY <1>1, <1>2

\* A sum that follows the history exists.
Sums(a, n, p) == p \in [0 .. n -> Nat] /\ p[0] = 0 /\ \A y \in 0 .. n - 1 : p[y + 1] = p[y] + a[y]

LEMMA SumExists ==
    ASSUME NEW n \in Nat, NEW a \in [0 .. n -> Nat]
    PROVE  \E p : Sums(a, n, p)
<1>1. PICK G : G = {m \in 0 .. n : \E p : Sums(a, m, p)}
  OBVIOUS
<1>2. 0 \in G
  <2>1. PICK p : p = [y \in 0 .. 0 |-> 0]
    OBVIOUS
  <2>2. p \in [0 .. 0 -> Nat] /\ p[0] = 0 /\ \A y \in 0 .. 0 - 1 : p[y + 1] = p[y] + a[y]
    BY <2>1
  <2>3. QED
    BY <1>1, <2>2 DEF Sums
<1>3. ASSUME NEW m \in 0 .. n - 1, m \in G PROVE m + 1 \in G
  <2>1. PICK p : Sums(a, m, p)
    BY <1>1, <1>3
  <2>2. p \in [0 .. m -> Nat] /\ p[0] = 0 /\ \A y \in 0 .. m - 1 : p[y + 1] = p[y] + a[y]
    BY <2>1 DEF Sums
  <2>3. PICK v \in Nat : v = p[m] + a[m]
    BY <1>3, <2>2
  <2>4. PICK l \in Nat : l = m + 1
    BY <1>3
  <2>5. PICK q : q = [y \in 0 .. l |-> IF y <= m THEN p[y] ELSE v]
    OBVIOUS
  <2>6. q \in [0 .. l -> Nat] /\ q[0] = 0
    BY <1>3, <2>2, <2>3, <2>4, <2>5
  <2>7. ASSUME NEW y \in 0 .. l - 1 PROVE q[y + 1] = q[y] + a[y]
    <3>1. CASE y = m
      BY <1>3, <2>3, <2>4, <2>5, <3>1
    <3>2. CASE y # m
      <4>1. y \in 0 .. m - 1 /\ y + 1 \in 0 .. m
        BY <1>3, <2>4, <2>7, <3>2
      <4>2. q[y + 1] = p[y + 1] /\ q[y] = p[y]
        BY <1>3, <2>4, <2>5, <4>1
      <4>3. QED
        BY <2>2, <4>1, <4>2
    <3>3. QED
      BY <3>1, <3>2
  <2>8. Sums(a, l, q)
    BY <2>6, <2>7 DEF Sums
  <2>9. l \in 0 .. n
    BY <1>3, <2>4
  <2>10. QED
    BY <1>1, <2>4, <2>8, <2>9
<1>4. \A y \in 0 .. n : y \in G
  BY <1>2, <1>3, UpTo
<1>5. n \in 0 .. n
  OBVIOUS
<1>6. QED
  BY <1>1, <1>4, <1>5

\* Before adds up its history instant by instant.
LEMMA BeforeFacts ==
    ASSUME NEW h \in Histories, NEW k \in Keys, NEW e \in Epochs
    PROVE  /\ \A x \in 0 .. MaxTime + 1 : Before(h, k, e, x) \in Nat
           /\ Before(h, k, e, 0) = 0
           /\ \A y \in Times : Before(h, k, e, y + 1) = Before(h, k, e, y) + h[<<k, e, y>>]
<1> DEFINE Solves(f) == f = [y \in 0 .. MaxTime + 1 |-> IF y = 0 THEN 0 ELSE f[y - 1] + h[<<k, e, y - 1>>]]
<1>1. MaxTime \in Nat /\ Times = 0 .. MaxTime
  BY TimeAssumption DEF Times
<1>2. \A y \in Times : h[<<k, e, y>>] \in Nat
  BY DEF Histories, Slots
<1>3. PICK n \in Nat : n = MaxTime + 1
  BY <1>1
<1>4. PICK a : a = [y \in 0 .. n |-> IF y = n THEN 0 ELSE h[<<k, e, y>>]]
  OBVIOUS
<1>5. a \in [0 .. n -> Nat] /\ \A y \in 0 .. n - 1 : a[y] = h[<<k, e, y>>]
  BY <1>1, <1>2, <1>3, <1>4
<1>6. PICK p \in [0 .. n -> Nat] : p[0] = 0 /\ \A y \in 0 .. n - 1 : p[y + 1] = p[y] + a[y]
  BY <1>5, SumExists DEF Sums
<1>7. Solves(p)
  <2>1. ASSUME NEW y \in 0 .. n PROVE p[y] = IF y = 0 THEN 0 ELSE p[y - 1] + h[<<k, e, y - 1>>]
    <3>1. CASE y = 0
      BY <1>6, <3>1
    <3>2. CASE y # 0
      <4>1. y - 1 \in 0 .. n - 1 /\ y - 1 + 1 = y
        BY <2>1, <3>2
      <4>2. p[y - 1 + 1] = p[y - 1] + a[y - 1]
        BY <1>6, <4>1
      <4>3. QED
        BY <1>5, <3>2, <4>1, <4>2
    <3>3. QED
      BY <3>1, <3>2
  <2>2. QED
    BY <1>3, <1>6, <2>1
<1>8. PICK upto : upto = CHOOSE f : Solves(f)
  OBVIOUS
<1>9. Solves(upto)
  <2>1. \E f : Solves(f)
    BY <1>7
  <2>2. QED
    BY <1>8, <2>1, Zenon
<1>10. \A x : Before(h, k, e, x) = upto[x]
  BY <1>8, Zenon DEF Before
<1> HIDE DEF Solves
<1>11. \A y \in 0 .. MaxTime + 1 : upto[y] = IF y = 0 THEN 0 ELSE upto[y - 1] + h[<<k, e, y - 1>>]
  BY <1>9, Zenon DEF Solves
<1>12. 0 \in 0 .. MaxTime + 1
  BY <1>1
<1>13. upto[0] = 0
  BY <1>11, <1>12, Zenon
<1>14. ASSUME NEW y \in Times PROVE upto[y + 1] = upto[y] + h[<<k, e, y>>]
  <2>1. PICK z \in 0 .. MaxTime + 1 : z = y + 1 /\ z # 0 /\ z - 1 = y
    BY <1>1
  <2>2. upto[z] = upto[z - 1] + h[<<k, e, z - 1>>]
    BY <1>11, <2>1, Zenon
  <2>3. QED
    BY <2>1, <2>2
<1>15. PICK G : G = {x \in Nat : upto[x] \in Nat}
  OBVIOUS
<1>16. \A x \in 0 .. n : x \in G
  <2>1. 0 \in G
    BY <1>13, <1>15
  <2>2. ASSUME NEW y \in 0 .. n - 1, y \in G PROVE y + 1 \in G
    <3>1. y \in Times /\ y + 1 \in Nat
      BY <1>1, <1>3, <2>2
    <3>2. upto[y] \in Nat /\ h[<<k, e, y>>] \in Nat
      BY <1>2, <1>15, <2>2, <3>1
    <3>3. upto[y + 1] \in Nat
      BY <1>14, <3>1, <3>2
    <3>4. QED
      BY <1>15, <3>1, <3>3
  <2>3. QED
    BY <2>1, <2>2, UpTo
<1>17. QED
  BY <1>3, <1>10, <1>13, <1>14, <1>15, <1>16

\* A sum grows.
LEMMA BeforeGrows ==
    ASSUME NEW h \in Histories, NEW k \in Keys, NEW e \in Epochs,
           NEW x \in 0 .. MaxTime + 1, NEW y \in x .. MaxTime + 1
    PROVE  Before(h, k, e, x) <= Before(h, k, e, y)
<1>1. MaxTime \in Nat /\ Times = 0 .. MaxTime
  BY TimeAssumption DEF Times
<1>2. PICK n \in Nat : n = y - x
  BY <1>1
<1>3. PICK G : G = {z \in Nat : Before(h, k, e, x) <= Before(h, k, e, x + z)}
  OBVIOUS
<1>4. \A z \in 0 .. n : x + z \in 0 .. MaxTime + 1 /\ Before(h, k, e, x + z) \in Nat
  BY <1>1, <1>2, BeforeFacts
<1>5. 0 \in G
  <2>1. x + 0 = x /\ Before(h, k, e, x) \in Nat
    BY <1>1, BeforeFacts
  <2>2. QED
    BY <1>3, <2>1
<1>6. ASSUME NEW z \in 0 .. n - 1, z \in G PROVE z + 1 \in G
  <2>1. x + z \in Times /\ x + (z + 1) = x + z + 1 /\ z + 1 \in 0 .. n /\ z \in 0 .. n
    BY <1>1, <1>2, <1>6
  <2>2. Before(h, k, e, x + z + 1) = Before(h, k, e, x + z) + h[<<k, e, x + z>>]
    BY <2>1, BeforeFacts
  <2>3. h[<<k, e, x + z>>] \in Nat
    BY <2>1 DEF Histories, Slots
  <2>4. Before(h, k, e, x + z) \in Nat /\ Before(h, k, e, x) \in Nat
    BY <1>4, <2>1, BeforeFacts
  <2>5. Before(h, k, e, x) <= Before(h, k, e, x + z)
    BY <1>3, <1>6
  <2>6. Before(h, k, e, x) <= Before(h, k, e, x + (z + 1))
    BY <2>1, <2>2, <2>3, <2>4, <2>5
  <2>7. QED
    BY <1>3, <2>1, <2>6
<1>7. n \in G
  BY <1>5, <1>6, UpTo
<1>8. x + n = y
  BY <1>1, <1>2
<1>9. QED
  BY <1>3, <1>7, <1>8

\* Two histories that differ at one instant, by d.
LEMMA BeforeDiffers ==
    ASSUME NEW h \in Histories, NEW g \in Histories, NEW k \in Keys, NEW e \in Epochs,
           NEW t \in Times, NEW d \in Nat, g[<<k, e, t>>] = h[<<k, e, t>>] + d,
           \A y \in Times : y # t => g[<<k, e, y>>] = h[<<k, e, y>>]
    PROVE  \A x \in 0 .. MaxTime + 1 :
               Before(g, k, e, x) = Before(h, k, e, x) + (IF t < x THEN d ELSE 0)
<1>1. MaxTime \in Nat /\ Times = 0 .. MaxTime
  BY TimeAssumption DEF Times
<1>2. PICK n \in Nat : n = MaxTime + 1
  BY <1>1
<1>3. PICK G : G = {x \in Nat : Before(g, k, e, x) = Before(h, k, e, x) + (IF t < x THEN d ELSE 0)}
  OBVIOUS
<1>4. 0 \in G
  <2>1. Before(g, k, e, 0) = 0 /\ Before(h, k, e, 0) = 0 /\ ~(t < 0)
    BY <1>1, BeforeFacts
  <2>2. QED
    BY <1>3, <2>1
<1>5. ASSUME NEW x \in 0 .. n - 1, x \in G PROVE x + 1 \in G
  <2>1. x \in Times /\ x \in 0 .. MaxTime + 1 /\ x + 1 \in Nat
    BY <1>1, <1>2, <1>5
  <2>2. /\ Before(g, k, e, x + 1) = Before(g, k, e, x) + g[<<k, e, x>>]
        /\ Before(h, k, e, x + 1) = Before(h, k, e, x) + h[<<k, e, x>>]
    BY <2>1, BeforeFacts
  <2>3. Before(g, k, e, x) \in Nat /\ Before(h, k, e, x) \in Nat
    BY <2>1, BeforeFacts
  <2>4. g[<<k, e, x>>] \in Nat /\ h[<<k, e, x>>] \in Nat
    BY <2>1 DEF Histories, Slots
  <2>5. Before(g, k, e, x) = Before(h, k, e, x) + (IF t < x THEN d ELSE 0)
    BY <1>3, <1>5
  <2>6. Before(g, k, e, x + 1) = Before(h, k, e, x + 1) + (IF t < x + 1 THEN d ELSE 0)
    <3>1. CASE x = t
      BY <1>1, <2>1, <2>2, <2>3, <2>4, <2>5, <3>1
    <3>2. CASE x # t
      <4>1. g[<<k, e, x>>] = h[<<k, e, x>>]
        BY <2>1, <3>2
      <4>2. t < x + 1 <=> t < x
        BY <1>1, <2>1, <3>2
      <4>3. QED
        BY <2>2, <2>3, <2>4, <2>5, <4>1, <4>2
    <3>3. QED
      BY <3>1, <3>2
  <2>7. QED
    BY <1>3, <2>1, <2>6
<1>6. \A x \in 0 .. n : x \in G
  BY <1>4, <1>5, UpTo
<1>7. QED
  BY <1>2, <1>3, <1>6

\* A sum is flat where the history is empty.
LEMMA BeforeFlat ==
    ASSUME NEW h \in Histories, NEW k \in Keys, NEW e \in Epochs,
           NEW x \in 0 .. MaxTime + 1, NEW y \in x .. MaxTime + 1,
           \A z \in x .. y - 1 : h[<<k, e, z>>] = 0
    PROVE  Before(h, k, e, y) = Before(h, k, e, x)
<1>1. MaxTime \in Nat /\ Times = 0 .. MaxTime
  BY TimeAssumption DEF Times
<1>2. PICK n \in Nat : n = y - x
  BY <1>1
<1>3. PICK G : G = {z \in Nat : Before(h, k, e, x + z) = Before(h, k, e, x)}
  OBVIOUS
<1>4. 0 \in G
  <2>1. x + 0 = x
    BY <1>1
  <2>2. QED
    BY <1>3, <2>1
<1>5. ASSUME NEW z \in 0 .. n - 1, z \in G PROVE z + 1 \in G
  <2>1. x + z \in Times /\ x + (z + 1) = x + z + 1 /\ x + z \in x .. y - 1 /\ x + z \in 0 .. MaxTime + 1
    BY <1>1, <1>2, <1>5
  <2>2. Before(h, k, e, x + z + 1) = Before(h, k, e, x + z) + h[<<k, e, x + z>>]
    BY <2>1, BeforeFacts
  <2>3. h[<<k, e, x + z>>] = 0 /\ Before(h, k, e, x + z) \in Nat
    BY <2>1, BeforeFacts
  <2>4. Before(h, k, e, x + z) = Before(h, k, e, x)
    BY <1>3, <1>5
  <2>5. Before(h, k, e, x + (z + 1)) = Before(h, k, e, x)
    BY <2>1, <2>2, <2>3, <2>4
  <2>6. QED
    BY <1>3, <2>5
<1>6. n \in G
  BY <1>4, <1>5, UpTo
<1>7. x + n = y
  BY <1>1, <1>2
<1>8. QED
  BY <1>3, <1>6, <1>7
-----------------------------------------------------------------------------
(* Types, and where a request is.                                          *)

TInv ==
    /\ TypeOK
    /\ \A w \in Workers : /\ req[w].pc # "idle" => req[w].i \in 1 .. Len(Limits) /\ req[w].key \in Keys
                          /\ req[w].pc = "decide" => req[w].count # 0

Fields == [pc : {"idle", "count", "decide"}, key : Keys \cup {None}, i : 0 .. Len(Limits), count : Nat,
           reset_at : Nat, epoch : Epochs, time : Times]

\* A request that is replaced by a proper one.
LEMMA TypesMove ==
    ASSUME TInv, NEW w \in Workers, NEW r \in Fields,
           r.pc # "idle" => r.i \in 1 .. Len(Limits) /\ r.key \in Keys, r.pc = "decide" => r.count # 0,
           req' = [req EXCEPT ![w] = r], now' = now, epoch' = epoch,
           data' \in [Keys -> Entry \cup {None}], arrived' \in Histories, admitted' \in Histories
    PROVE  TInv'
<1>1. req \in [Workers -> Fields]
  BY DEF TInv, TypeOK, Fields
<1>2. req' \in [Workers -> Fields] /\ req'[w] = r /\ \A v \in Workers \ {w} : req'[v] = req[v]
  BY <1>1
<1>3. \A v \in Workers : /\ req'[v].pc # "idle" => req'[v].i \in 1 .. Len(Limits) /\ req'[v].key \in Keys
                         /\ req'[v].pc = "decide" => req'[v].count # 0
  BY <1>2 DEF TInv
<1>4. QED
  BY <1>2, <1>3 DEF TInv, TypeOK, Fields, Histories

\* A slot of a history that is counted up.
LEMMA CountedUp ==
    ASSUME NEW h \in Histories, NEW s \in Slots
    PROVE  [h EXCEPT ![s] = h[s] + 1] \in Histories
<1>1. h[s] + 1 \in Nat
  BY DEF Histories
<1>2. QED
  BY <1>1 DEF Histories

\* Init has the types.
LEMMA InitTypes == Init => TInv
<1>1. SUFFICES ASSUME Init PROVE TInv
  OBVIOUS
<1>2. Len(Limits) \in Nat /\ 0 \in Times /\ 0 \in Epochs
  BY LimitsAssumption, TimeAssumption DEF Times, Epochs
<1>3. Idle \in Fields /\ Idle.pc = "idle"
  BY <1>2 DEF Idle, Fields
<1>4. req \in [Workers -> Fields] /\ \A w \in Workers : req[w].pc = "idle"
  BY <1>1, <1>3 DEF Init
<1>5. QED
  BY <1>1, <1>2, <1>4 DEF Init, TInv, TypeOK, Fields

\* Every step keeps them.
LEMMA NextTypes == IInv /\ TInv /\ [Next]_vars => TInv'
<1> SUFFICES ASSUME IInv, TInv, [Next]_vars PROVE TInv'
  OBVIOUS
<1>0. /\ now \in Times /\ data \in [Keys -> Entry \cup {None}] /\ req \in [Workers -> Fields]
      /\ epoch \in [Keys -> Epochs] /\ arrived \in Histories /\ admitted \in Histories
      /\ Len(Limits) \in Nat \ {0}
  BY LimitsAssumption DEF TInv, TypeOK, Fields, Histories
<1>1. 0 \in Times /\ 0 \in Epochs
  BY TimeAssumption DEF Times, Epochs
<1>2. Idle \in Fields /\ Idle.pc = "idle"
  BY <1>0, <1>1 DEF Idle, Fields
<1>3. ASSUME NEW w \in Workers, NEW k \in Keys, Arrive(w, k) PROVE TInv'
  <2>1. PICK r : r = [Idle EXCEPT !.pc = "count", !.key = k, !.i = 1]
    OBVIOUS
  <2>2. 1 \in 0 .. Len(Limits) /\ 1 \in 1 .. Len(Limits)
    BY <1>0
  <2>3. r \in Fields /\ r.pc = "count" /\ r.key = k /\ r.i = 1
    BY <1>2, <2>1, <2>2 DEF Fields
  <2>4. req' = [req EXCEPT ![w] = r] /\ UNCHANGED <<now, data, epoch, arrived, admitted>>
    BY <1>3, <2>1 DEF Arrive
  <2>5. QED
    BY <1>0, <2>2, <2>3, <2>4, TypesMove
<1>4. ASSUME NEW w \in Workers, increment(w) PROVE TInv'
  <2>1. PICK k : k = req[w].key
    OBVIOUS
  <2>2. PICK new : new = incremented(k)
    OBVIOUS
  <2>3. k \in Keys /\ req[w] \in Fields /\ req[w].i \in 1 .. Len(Limits)
    BY <1>0, <1>4, <2>1 DEF increment, TInv
  <2>4. new \in Entry
    BY <2>2, <2>3, Incremented
  <2>5. PICK r : r = [req[w] EXCEPT !.pc = "decide", !.count = new.count, !.reset_at = new.reset_at,
                                    !.epoch = epoch[k], !.time = now]
    OBVIOUS
  <2>6. /\ data' = [data EXCEPT ![k] = new]
        /\ req' = [req EXCEPT ![w] = r]
        /\ arrived' = (IF req[w].i = 1 THEN [arrived EXCEPT ![<<k, epoch[k], now>>] = arrived[<<k, epoch[k], now>>] + 1]
                       ELSE arrived)
        /\ UNCHANGED <<now, epoch, admitted>>
    BY <1>0, <1>4, <2>1, <2>2, <2>5 DEF increment
  <2>7. epoch[k] \in Epochs /\ <<k, epoch[k], now>> \in Slots
    BY <1>0, <2>3 DEF Slots
  <2>8. arrived' \in Histories
    BY <1>0, <2>6, <2>7, CountedUp
  <2>9. data' \in [Keys -> Entry \cup {None}]
    BY <1>0, <2>4, <2>6
  <2>10. new.count \in Nat \ {0} /\ new.reset_at \in Nat
    BY <2>4 DEF Entry
  <2>11. r \in Fields /\ r.pc = "decide" /\ r.key = k /\ r.i = req[w].i /\ r.count = new.count
    BY <1>0, <2>1, <2>3, <2>5, <2>7, <2>10 DEF Fields
  <2>12. QED
    BY <1>0, <2>3, <2>6, <2>8, <2>9, <2>10, <2>11, TypesMove
<1>5. ASSUME NEW w \in Workers, Reject(w) PROVE TInv'
  <2>1. req' = [req EXCEPT ![w] = Idle] /\ UNCHANGED <<now, data, epoch, arrived, admitted>>
    BY <1>5 DEF Reject
  <2>2. QED
    BY <1>0, <1>2, <2>1, TypesMove
<1>6. ASSUME NEW w \in Workers, Pass(w) PROVE TInv'
  <2>1. req[w] \in Fields /\ req[w].key \in Keys /\ req[w].i \in 1 .. Len(Limits) /\ UNCHANGED <<now, data, epoch, arrived>>
    BY <1>0, <1>6 DEF Pass, TInv
  <2>2. PICK s : s = <<req[w].key, req[w].epoch, req[w].time>>
    OBVIOUS
  <2>3. s \in Slots
    BY <2>1, <2>2 DEF Fields, Slots
  <2>4. CASE req[w].i < Len(Limits)
    <3>1. PICK r : r = [req[w] EXCEPT !.pc = "count", !.i = req[w].i + 1]
      OBVIOUS
    <3>2. req[w].i + 1 \in 1 .. Len(Limits) /\ req[w].i + 1 \in 0 .. Len(Limits)
      BY <1>0, <2>1, <2>4
    <3>3. r \in Fields /\ r.pc = "count" /\ r.key = req[w].key /\ r.i = req[w].i + 1
      BY <2>1, <3>1, <3>2 DEF Fields
    <3>4. req' = [req EXCEPT ![w] = r] /\ admitted' = admitted
      BY <1>0, <1>6, <2>4, <3>1 DEF Pass
    <3>5. QED
      BY <1>0, <2>1, <3>2, <3>3, <3>4, TypesMove
  <2>5. CASE ~(req[w].i < Len(Limits))
    <3>1. req' = [req EXCEPT ![w] = Idle] /\ admitted' = [admitted EXCEPT ![s] = admitted[s] + 1]
      BY <1>6, <2>2, <2>5 DEF Pass
    <3>2. admitted' \in Histories
      BY <1>0, <2>3, <3>1, CountedUp
    <3>3. QED
      BY <1>0, <1>2, <2>1, <3>1, <3>2, TypesMove
  <2>6. QED
    BY <2>4, <2>5
<1>7. ASSUME NEW k \in Keys, reset(k) PROVE TInv'
  <2>1. /\ data' = [data EXCEPT ![k] = None] /\ epoch' = [epoch EXCEPT ![k] = epoch[k] + 1]
        /\ epoch[k] < MaxResets /\ UNCHANGED <<now, req, arrived, admitted>>
    BY <1>7 DEF reset
  <2>2. epoch[k] + 1 \in Epochs
    BY <1>0, <2>1, TimeAssumption DEF Epochs
  <2>3. data' \in [Keys -> Entry \cup {None}] /\ epoch' \in [Keys -> Epochs]
    BY <1>0, <2>1, <2>2
  <2>4. QED
    BY <1>0, <2>1, <2>3 DEF TInv, TypeOK, Fields, Histories
<1>8. CASE cleanup_expired
  <2>1. /\ data' = [k \in Keys |-> IF swept(k) THEN None ELSE data[k]]
        /\ UNCHANGED <<now, req, epoch, arrived, admitted>>
    BY <1>8 DEF cleanup_expired
  <2>2. data' \in [Keys -> Entry \cup {None}]
    BY <1>0, <2>1
  <2>3. QED
    BY <1>0, <2>1, <2>2 DEF TInv, TypeOK, Fields, Histories
<1>9. CASE Tick
  <2>1. now' = now + 1 /\ now < MaxTime /\ UNCHANGED <<data, req, epoch, arrived, admitted>>
    BY <1>9 DEF Tick
  <2>2. now' \in Times
    BY <1>0, <2>1, TimeAssumption DEF Times
  <2>3. QED
    BY <1>0, <2>1, <2>2 DEF TInv, TypeOK, Fields, Histories
<1>10. CASE UNCHANGED vars
  BY <1>10 DEF vars, TInv, TypeOK
<1>11. QED
  BY <1>3, <1>4, <1>5, <1>6, <1>7, <1>8, <1>9, <1>10 DEF Next
-----------------------------------------------------------------------------
(* Admissions.  O is the set of the windows <<client, epoch, start>> that  *)
(* were opened, C the counts of each under which requests were admitted.   *)

Last == Limits[Len(Limits)]

Spaced(O) ==
    \A k \in Keys, e \in Epochs, s, u \in Times :
        <<k, e, s>> \in O /\ <<k, e, u>> \in O /\ s < u => s + Window <= u

\* Windows were opened before now, and one that is not over is in the store.
Opened(O) ==
    /\ \A k \in Keys, e \in Epochs, s \in Times : <<k, e, s>> \in O => e <= epoch[k] /\ s <= now
    /\ \A k \in Keys, s \in Times :
           <<k, epoch[k], s>> \in O /\ s + Window > now => data[k] # None /\ data[k].reset_at = s + Window
    /\ \A k \in Keys : data[k] # None =>
           \E s \in Times : <<k, epoch[k], s>> \in O /\ data[k].reset_at = s + Window

\* A count that is being decided on was not yet used in its window.
Holder(O, C, r) ==
    \E s \in Times :
        /\ <<r.key, r.epoch, s>> \in O /\ r.reset_at = s + Window
        /\ s <= r.time /\ r.time < s + Window
        /\ r.count \notin C[<<r.key, r.epoch, s>>]

Held(O, C) == \A w \in Workers : req[w].pc = "decide" => Holder(O, C, req[w])

\* A count that was used was given.
Given(C) ==
    \A k \in Keys, e \in Epochs, s \in Times : \A c \in C[<<k, e, s>>] :
        e < epoch[k] \/ s + Window <= now \/ (data[k] # None /\ c <= data[k].count)

\* A window admits one request per count, and nothing is admitted outside of
\* the windows.
Tallied(O, C) ==
    /\ \A k \in Keys, e \in Epochs, s \in Times :
           /\ <<k, e, s>> \in O => InWindow(admitted, k, e, s) = Cardinality(C[<<k, e, s>>])
           /\ <<k, e, s>> \notin O => C[<<k, e, s>>] = {}
    /\ \A k \in Keys, e \in Epochs, t \in Times : admitted[<<k, e, t>>] # 0 =>
           \E s \in Times : <<k, e, s>> \in O /\ s <= t /\ t < s + Window

Books(O, C) ==
    /\ O \subseteq Slots /\ C \in [Slots -> SUBSET (1 .. Last)]
    /\ Spaced(O) /\ Opened(O) /\ Held(O, C) /\ Given(C) /\ Tallied(O, C)

AInv == IInv /\ TInv /\ \E O, C : Books(O, C)

\* The end of a window, at most the end of time.
End(t) == IF t + Window <= MaxTime THEN t + Window ELSE MaxTime + 1

LEMMA EndFacts ==
    ASSUME NEW t \in Times
    PROVE  /\ t \in 0 .. MaxTime + 1 /\ End(t) \in t .. MaxTime + 1 /\ End(t) \in 0 .. MaxTime + 1
           /\ \A x \in 0 .. MaxTime + 1 : x < End(t) => x < t + Window
           /\ \A x \in Times : x < t + Window => x < End(t)
           /\ \A h, k, e : InWindow(h, k, e, t) = Before(h, k, e, End(t)) - Before(h, k, e, t)
<1>1. t \in Nat /\ MaxTime \in Nat /\ Window \in Nat \ {0} /\ t <= MaxTime /\ Times = 0 .. MaxTime
  BY TimeAssumption DEF Times
<1>2. QED
  BY <1>1 DEF End, InWindow

\* The sums over a window of two histories that differ at one instant.
LEMMA WindowDiffers ==
    ASSUME NEW h \in Histories, NEW g \in Histories, NEW k \in Keys, NEW e \in Epochs,
           NEW t \in Times, NEW d \in Nat, g[<<k, e, t>>] = h[<<k, e, t>>] + d,
           \A y \in Times : y # t => g[<<k, e, y>>] = h[<<k, e, y>>],
           NEW s \in Times
    PROVE  InWindow(g, k, e, s) = InWindow(h, k, e, s) + (IF s <= t /\ t < s + Window THEN d ELSE 0)
<1>1. t \in Nat /\ s \in Nat /\ Window \in Nat /\ MaxTime \in Nat
  BY TimeAssumption DEF Times
<1>2. PICK x \in 0 .. MaxTime + 1 : x = End(s) /\ s \in 0 .. MaxTime + 1 /\ s <= x /\ (t < x <=> t < s + Window)
  BY <1>1, EndFacts DEF Times
<1>3. /\ Before(g, k, e, x) = Before(h, k, e, x) + (IF t < x THEN d ELSE 0)
      /\ Before(g, k, e, s) = Before(h, k, e, s) + (IF t < s THEN d ELSE 0)
  BY <1>2, BeforeDiffers
<1>4. /\ InWindow(g, k, e, s) = Before(g, k, e, x) - Before(g, k, e, s)
      /\ InWindow(h, k, e, s) = Before(h, k, e, x) - Before(h, k, e, s)
  BY <1>2, EndFacts
<1>5. Before(h, k, e, x) \in Nat /\ Before(h, k, e, s) \in Nat
  BY <1>2, BeforeFacts
<1>6. QED
  BY <1>1, <1>2, <1>3, <1>4, <1>5

\* The sum over a window without an entry.
LEMMA WindowEmpty ==
    ASSUME NEW h \in Histories, NEW k \in Keys, NEW e \in Epochs, NEW s \in Times,
           \A t \in Times : s <= t /\ t < s + Window => h[<<k, e, t>>] = 0
    PROVE  InWindow(h, k, e, s) = 0
<1>1. s \in Nat /\ MaxTime \in Nat /\ Window \in Nat /\ Times = 0 .. MaxTime
  BY TimeAssumption DEF Times
<1>2. s \in 0 .. MaxTime + 1 /\ End(s) \in s .. MaxTime + 1
  BY EndFacts
<1>3. \A z \in s .. End(s) - 1 : h[<<k, e, z>>] = 0
  <2>1. SUFFICES ASSUME NEW z \in s .. End(s) - 1 PROVE h[<<k, e, z>>] = 0
    OBVIOUS
  <2>2. z \in Times /\ s <= z /\ z < End(s) /\ z \in 0 .. MaxTime + 1
    BY <1>1, <1>2, <2>1
  <2>3. z < s + Window
    BY <2>2, EndFacts
  <2>4. QED
    BY <2>2, <2>3
<1>4. Before(h, k, e, End(s)) = Before(h, k, e, s)
  BY <1>2, <1>3, BeforeFlat
<1>5. Before(h, k, e, s) \in Nat
  BY <1>2, BeforeFacts
<1>6. QED
  BY <1>4, <1>5, EndFacts

\* The last limit, and the number of counts a window can admit.
LEMMA LastFacts ==
    /\ Last \in Nat
    /\ \A D \in SUBSET (1 .. Last) : IsFiniteSet(D) /\ Cardinality(D) \in Nat /\ Cardinality(D) <= Last
<1>1. Last \in Nat
  BY LimitsAssumption DEF Last
<1>2. IsFiniteSet(1 .. Last) /\ Cardinality(1 .. Last) = Last
  <2>1. 1 \in Int /\ Last \in Int
    BY <1>1
  <2>2. IsFiniteSet(1 .. Last)
    BY <2>1, FS_Interval
  <2>3. Cardinality(1 .. Last) = IF 1 > Last THEN 0 ELSE Last - 1 + 1
    BY <2>1, FS_Interval
  <2>4. QED
    BY <1>1, <2>2, <2>3
<1>3. \A D \in SUBSET (1 .. Last) : IsFiniteSet(D) /\ Cardinality(D) <= Last
  BY <1>2, FS_Subset
<1>4. \A D \in SUBSET (1 .. Last) : Cardinality(D) \in Nat
  BY <1>3, FS_CardinalityType
<1>5. QED
  BY <1>1, <1>3, <1>4

\* From any instant x on nothing is admitted, or at most Last requests are
\* until the end of the next window that is not over.
LEMMA NextWindow ==
    ASSUME NEW O, NEW C, Books(O, C), admitted \in Histories,
           NEW k \in Keys, NEW e \in Epochs, NEW x \in 0 .. MaxTime + 1
    PROVE  \/ \A v \in x .. MaxTime + 1 : Before(admitted, k, e, v) = Before(admitted, k, e, x)
           \/ \E s \in Times : /\ <<k, e, s>> \in O /\ x < s + Window
                               /\ Before(admitted, k, e, End(s)) <= Before(admitted, k, e, x) + Last
<1>1. MaxTime \in Nat /\ Window \in Nat \ {0} /\ Times = 0 .. MaxTime /\ x \in Nat
  BY TimeAssumption DEF Times
<1>2. PICK T : T = {s \in Times : <<k, e, s>> \in O /\ x < s + Window}
  OBVIOUS
<1>3. ASSUME NEW t \in Times, x <= t, admitted[<<k, e, t>>] # 0
      PROVE  \E s \in T : s <= t /\ t < s + Window
  <2>1. PICK s \in Times : <<k, e, s>> \in O /\ s <= t /\ t < s + Window
    BY <1>3 DEF Books, Tallied
  <2>2. s \in T
    BY <1>1, <1>2, <1>3, <2>1
  <2>3. QED
    BY <2>1, <2>2
<1>4. CASE T = {}
  <2>1. ASSUME NEW v \in x .. MaxTime + 1 PROVE Before(admitted, k, e, v) = Before(admitted, k, e, x)
    <3>1. \A z \in x .. v - 1 : admitted[<<k, e, z>>] = 0
      <4>1. SUFFICES ASSUME NEW z \in x .. v - 1 PROVE admitted[<<k, e, z>>] = 0
        OBVIOUS
      <4>2. z \in Times /\ x <= z
        BY <1>1, <2>1, <4>1
      <4>3. QED
        BY <1>3, <1>4, <4>2
    <3>2. QED
      BY <2>1, <3>1, BeforeFlat
  <2>2. QED
    BY <2>1
<1>5. CASE T # {}
  <2>1. T \subseteq Nat
    BY <1>1, <1>2
  <2>2. PICK s \in T : \A j \in T : s <= j
    BY <1>5, <2>1, LeastNumber
  <2>3. s \in Times /\ <<k, e, s>> \in O /\ x < s + Window /\ s \in Nat
    BY <1>1, <1>2, <2>2
  <2>4. PICK y \in 0 .. MaxTime + 1 : y = End(s) /\ s \in 0 .. MaxTime + 1 /\ s <= y
    BY <1>1, <2>3, EndFacts
  <2>5. PICK D \in SUBSET (1 .. Last) : D = C[<<k, e, s>>]
    BY <2>3 DEF Books, Slots
  <2>6. Before(admitted, k, e, y) - Before(admitted, k, e, s) = Cardinality(D)
    BY <2>3, <2>4, <2>5, EndFacts DEF Books, Tallied
  <2>7. Cardinality(D) \in Nat /\ Cardinality(D) <= Last /\ Last \in Nat
    BY LastFacts
  <2>8. /\ Before(admitted, k, e, y) \in Nat /\ Before(admitted, k, e, s) \in Nat
        /\ Before(admitted, k, e, x) \in Nat
    BY <2>4, BeforeFacts
  <2>9. Before(admitted, k, e, s) <= Before(admitted, k, e, x)
    <3>1. CASE s <= x
      <4>1. x \in s .. MaxTime + 1
        BY <1>1, <2>3, <3>1
      <4>2. QED
        BY <2>4, <4>1, BeforeGrows
    <3>2. CASE x < s
      <4>1. \A z \in x .. s - 1 : admitted[<<k, e, z>>] = 0
        <5>1. SUFFICES ASSUME NEW z \in x .. s - 1, admitted[<<k, e, z>>] # 0 PROVE FALSE
          OBVIOUS
        <5>2. z \in Times /\ x <= z /\ z < s
          BY <1>1, <2>3, <5>1
        <5>3. PICK j \in T : j <= z
          BY <1>3, <5>1, <5>2
        <5>4. j \in Nat /\ s <= j
          BY <2>1, <2>2, <5>3
        <5>5. QED
          BY <1>1, <2>3, <5>2, <5>3, <5>4
      <4>2. s \in x .. MaxTime + 1
        BY <1>1, <2>3, <3>2
      <4>3. Before(admitted, k, e, s) = Before(admitted, k, e, x)
        BY <4>1, <4>2, BeforeFlat
      <4>4. QED
        BY <2>8, <4>3
    <3>3. QED
      BY <1>1, <2>3, <3>1, <3>2
  <2>10. Before(admitted, k, e, y) <= Before(admitted, k, e, x) + Last
    BY <2>6, <2>7, <2>8, <2>9
  <2>11. QED
    BY <2>3, <2>4, <2>10
<1>6. QED
  BY <1>4, <1>5

\* A stretch of Window instants meets at most two windows.
LEMMA BooksBound ==
    ASSUME NEW O, NEW C, Books(O, C), admitted \in Histories,
           NEW k \in Keys, NEW e \in Epochs, NEW t \in Times
    PROVE  InWindow(admitted, k, e, t) <= 2 * Last
<1>1. MaxTime \in Nat /\ Window \in Nat \ {0} /\ Times = 0 .. MaxTime /\ t \in Nat /\ Last \in Nat
  BY TimeAssumption, LastFacts DEF Times
<1>2. PICK y \in 0 .. MaxTime + 1 : y = End(t) /\ t \in 0 .. MaxTime + 1 /\ y \in t .. MaxTime + 1
  BY EndFacts
<1> DEFINE P(x) == Before(admitted, k, e, x)
<1>3. \A x \in 0 .. MaxTime + 1 : P(x) \in Nat
  BY BeforeFacts
<1>4. \A a \in 0 .. MaxTime + 1 : \A b \in a .. MaxTime + 1 : P(a) <= P(b)
  BY BeforeGrows
<1>5. InWindow(admitted, k, e, t) = P(y) - P(t)
  BY <1>2, EndFacts
<1>6. \A x \in 0 .. MaxTime + 1 :
        \/ \A v \in x .. MaxTime + 1 : P(v) = P(x)
        \/ \E s \in Times : <<k, e, s>> \in O /\ x < s + Window /\ P(End(s)) <= P(x) + Last
  BY NextWindow
<1>7. P(y) \in Nat /\ P(t) \in Nat
  BY <1>2, <1>3
<1> HIDE DEF P
<1>8. P(y) <= P(t) + Last + Last
  <2>1. CASE \A v \in t .. MaxTime + 1 : P(v) = P(t)
    BY <1>1, <1>2, <1>7, <2>1
  <2>2. ASSUME NEW s \in Times, <<k, e, s>> \in O, t < s + Window, P(End(s)) <= P(t) + Last
        PROVE  P(y) <= P(t) + Last + Last
    <3>1. PICK x \in 0 .. MaxTime + 1 : x = End(s) /\ s \in Nat
      BY <1>1, EndFacts
    <3>2. P(x) \in Nat /\ P(x) <= P(t) + Last
      BY <1>3, <2>2, <3>1
    <3>3. CASE y <= x
      <4>1. x \in y .. MaxTime + 1
        BY <1>1, <1>2, <3>1, <3>3
      <4>2. P(y) <= P(x)
        BY <1>2, <1>4, <4>1
      <4>3. QED
        BY <1>1, <1>7, <3>2, <4>2
    <3>4. CASE x < y
      <4>1. x = s + Window /\ y \in x .. MaxTime + 1
        BY <1>1, <1>2, <3>1, <3>4 DEF End
      <4>2. CASE \A v \in x .. MaxTime + 1 : P(v) = P(x)
        BY <1>1, <1>7, <3>2, <4>1, <4>2
      <4>3. ASSUME NEW u \in Times, <<k, e, u>> \in O, x < u + Window, P(End(u)) <= P(x) + Last
            PROVE  P(y) <= P(t) + Last + Last
        <5>1. PICK z \in 0 .. MaxTime + 1 : z = End(u) /\ u \in Nat
          BY <1>1, EndFacts
        <5>2. s < u
          BY <1>1, <3>1, <4>1, <4>3, <5>1
        <5>3. s + Window <= u
          BY <2>2, <4>3, <5>2 DEF Books, Spaced
        <5>4. t < u
          BY <1>1, <2>2, <3>1, <5>1, <5>3
        <5>5. z \in y .. MaxTime + 1
          BY <1>1, <1>2, <5>1, <5>4 DEF End
        <5>6. P(y) <= P(z) /\ P(z) \in Nat
          BY <1>2, <1>3, <1>4, <5>1, <5>5
        <5>7. P(z) <= P(x) + Last
          BY <4>3, <5>1
        <5>8. QED
          BY <1>1, <1>7, <3>2, <5>6, <5>7
      <4>4. QED
        BY <1>6, <3>1, <4>2, <4>3
    <3>5. QED
      BY <1>1, <1>2, <3>1, <3>3, <3>4
  <2>3. QED
    BY <1>2, <1>6, <2>1, <2>2
<1>9. QED
  BY <1>1, <1>5, <1>7, <1>8
-----------------------------------------------------------------------------
(* Every step keeps the books.                                             *)

\* A step in which nobody is given a count and nothing is admitted.
LEMMA BooksStay ==
    ASSUME NEW O, NEW C, Books(O, C), UNCHANGED <<now, data, epoch, admitted>>,
           \A v \in Workers : req'[v].pc = "decide" => req'[v] = req[v]
    PROVE  Books(O, C)'
<1>1. Spaced(O)' /\ Opened(O)' /\ Given(C)' /\ Tallied(O, C)'
  BY DEF Books, Spaced, Opened, Given, Tallied
<1>2. Held(O, C)'
  BY DEF Books, Held, Holder
<1>3. QED
  BY <1>1, <1>2 DEF Books

\* increment in a window that is not over.
LEMMA BooksCount ==
    ASSUME NEW O, NEW C, IInv, TInv, Books(O, C), NEW w \in Workers, increment(w),
           data[req[w].key] # None, ~expired(data[req[w].key])
    PROVE  Books(O, C)'
<1>1. PICK k : k = req[w].key
  OBVIOUS
<1>2. PICK new : new = incremented(k)
  OBVIOUS
<1>3. /\ k \in Keys /\ now \in Nat /\ now \in Times /\ data \in [Keys -> Entry \cup {None}] /\ data[k] \in Entry
      /\ epoch[k] \in Epochs /\ Epochs \subseteq Nat /\ Times \subseteq Nat /\ Window \in Nat
  <2>1. k \in Keys /\ data \in [Keys -> Entry \cup {None}]
    BY <1>1 DEF increment, IInv, Typed
  <2>2. now \in Times /\ epoch \in [Keys -> Epochs]
    BY DEF TInv, TypeOK
  <2>3. Epochs \subseteq Nat /\ Times \subseteq Nat /\ Window \in Nat
    BY TimeAssumption DEF Times, Epochs
  <2>4. QED
    BY <1>1, <2>1, <2>2, <2>3
<1>4. /\ new \in Entry /\ new # None /\ new.reset_at = data[k].reset_at /\ new.count = data[k].count + 1
      /\ new.reset_at > now
  BY <1>1, <1>2, <1>3, Incremented
<1>5. data[k].count \in Nat /\ new.count \in Nat
  BY <1>3, <1>4 DEF Entry
<1>6. /\ data' = [data EXCEPT ![k] = new] /\ UNCHANGED <<now, epoch, admitted>>
      /\ \A v \in Workers \ {w} : req'[v] = req[v]
      /\ req'[w].key = k /\ req'[w].epoch = epoch[k] /\ req'[w].time = now
      /\ req'[w].count = new.count /\ req'[w].reset_at = new.reset_at
  BY <1>1, <1>2 DEF increment, TInv, TypeOK
<1>7. data'[k] = new /\ \A j \in Keys \ {k} : data'[j] = data[j]
  BY <1>3, <1>6
<1>8. PICK s \in Times : <<k, epoch[k], s>> \in O /\ data[k].reset_at = s + Window
  BY <1>1, <1>3 DEF Books, Opened
<1>9. s <= now /\ now < s + Window /\ ~(s + Window <= now) /\ s \in Nat
  <2>1. \A j \in Keys, e \in Epochs, u \in Times : <<j, e, u>> \in O => e <= epoch[j] /\ u <= now
    BY DEF Books, Opened
  <2>2. s <= now
    BY <1>3, <1>8, <2>1
  <2>3. s \in Nat /\ s + Window > now
    BY <1>3, <1>4, <1>8
  <2>4. QED
    BY <1>3, <2>2, <2>3
<1>10. Opened(O)'
  <2>1. \A j \in Keys : data'[j] # None <=> data[j] # None
    BY <1>1, <1>4, <1>7
  <2>2. \A j \in Keys : data[j] # None => data'[j].reset_at = data[j].reset_at
    BY <1>4, <1>7
  <2>3. QED
    BY <1>6, <2>1, <2>2 DEF Books, Opened
<1>11. Given(C)'
  <2>1. SUFFICES ASSUME NEW j \in Keys, NEW e \in Epochs, NEW u \in Times, NEW c \in C[<<j, e, u>>]
                 PROVE  e < epoch[j] \/ u + Window <= now \/ (data'[j] # None /\ c <= data'[j].count)
    BY <1>6 DEF Given
  <2>2. e < epoch[j] \/ u + Window <= now \/ (data[j] # None /\ c <= data[j].count)
    BY DEF Books, Given
  <2>3. c \in Nat
    BY LastFacts DEF Books, Slots
  <2>4. CASE j = k
    BY <1>4, <1>5, <1>7, <2>2, <2>3, <2>4
  <2>5. CASE j # k
    BY <1>7, <2>2, <2>5
  <2>6. QED
    BY <2>4, <2>5
<1>12. Held(O, C)'
  <2>1. SUFFICES ASSUME NEW v \in Workers, req'[v].pc = "decide" PROVE Holder(O, C, req'[v])
    BY DEF Held, Holder
  <2>2. CASE v # w
    BY <1>6, <2>1, <2>2 DEF Books, Held
  <2>3. CASE v = w
    <3>1. new.count \notin C[<<k, epoch[k], s>>]
      <4>1. \A c \in C[<<k, epoch[k], s>>] : c <= data[k].count
        <5>1. \A j \in Keys, e \in Epochs, u \in Times : \A c \in C[<<j, e, u>>] :
                 e < epoch[j] \/ u + Window <= now \/ (data[j] # None /\ c <= data[j].count)
          BY DEF Books, Given
        <5>2. PICK n \in Nat : n = epoch[k]
          BY <1>3
        <5>4. ~(epoch[k] < epoch[k])
          BY <5>2
        <5>5. QED
          BY <1>3, <1>9, <5>1, <5>4, Zenon
      <4>2. QED
        BY <1>4, <1>5, <4>1
    <3>2. QED
      BY <1>4, <1>6, <1>8, <1>9, <2>3, <3>1 DEF Holder
  <2>4. QED
    BY <2>2, <2>3
<1>13. Spaced(O)' /\ Tallied(O, C)'
  BY <1>6 DEF Books, Spaced, Tallied
<1>14. QED
  BY <1>10, <1>11, <1>12, <1>13 DEF Books

\* increment that opens a window: all the others of the client are over.
LEMMA BooksOpen ==
    ASSUME NEW O, NEW C, IInv, TInv, Books(O, C), NEW w \in Workers, increment(w),
           ~(data[req[w].key] # None /\ ~expired(data[req[w].key]))
    PROVE  \E N : Books(N, C)'
<1>1. PICK k : k = req[w].key
  OBVIOUS
<1>2. PICK new : new = incremented(k)
  OBVIOUS
<1>3. /\ k \in Keys /\ now \in Nat /\ now \in Times /\ data \in [Keys -> Entry \cup {None}]
      /\ epoch[k] \in Epochs /\ Epochs \subseteq Nat /\ Times \subseteq Nat /\ Window \in Nat \ {0}
      /\ admitted \in Histories
  <2>1. k \in Keys /\ data \in [Keys -> Entry \cup {None}]
    BY <1>1 DEF increment, IInv, Typed
  <2>2. now \in Times /\ epoch \in [Keys -> Epochs] /\ admitted \in Histories
    BY DEF TInv, TypeOK, Histories
  <2>3. Epochs \subseteq Nat /\ Times \subseteq Nat /\ Window \in Nat \ {0}
    BY TimeAssumption DEF Times, Epochs
  <2>4. QED
    BY <2>1, <2>2, <2>3
<1>4. new = [count |-> 1, reset_at |-> now + Window]
  BY <1>1, <1>2 DEF incremented
<1>5. new.count = 1 /\ new.reset_at = now + Window /\ new # None
  BY <1>3, <1>4, NoneAssumption
<1>6. /\ data' = [data EXCEPT ![k] = new] /\ UNCHANGED <<now, epoch, admitted>>
      /\ \A v \in Workers \ {w} : req'[v] = req[v]
      /\ req'[w].key = k /\ req'[w].epoch = epoch[k] /\ req'[w].time = now
      /\ req'[w].count = new.count /\ req'[w].reset_at = new.reset_at
  BY <1>1, <1>2 DEF increment, TInv, TypeOK
<1>7. data'[k] = new /\ \A j \in Keys \ {k} : data'[j] = data[j]
  BY <1>3, <1>6
<1>8. \A s \in Times : <<k, epoch[k], s>> \in O => s + Window <= now /\ s <= now
  <2>1. SUFFICES ASSUME NEW s \in Times, <<k, epoch[k], s>> \in O PROVE s + Window <= now /\ s <= now
    OBVIOUS
  <2>2. s \in Nat /\ s <= now
    BY <1>3, <2>1 DEF Books, Opened
  <2>3. ASSUME s + Window > now PROVE FALSE
    <3>1. data[k] # None /\ data[k].reset_at = s + Window
      BY <1>3, <2>1, <2>3 DEF Books, Opened
    <3>2. ~expired(data[k])
      BY <1>3, <2>2, <2>3, <3>1 DEF expired
    <3>3. QED
      BY <1>1, <3>1, <3>2
  <2>4. QED
    BY <1>3, <2>2, <2>3
<1>9. <<k, epoch[k], now>> \notin O
  BY <1>3, <1>8
<1>10. C[<<k, epoch[k], now>>] = {}
  BY <1>3, <1>9 DEF Books, Tallied
<1>11. PICK N : N = O \cup {<<k, epoch[k], now>>}
  OBVIOUS
<1>12. \A j \in Keys, e \in Epochs, s \in Times :
          <<j, e, s>> \in N <=> <<j, e, s>> \in O \/ (j = k /\ e = epoch[k] /\ s = now)
  BY <1>11
<1>13. Spaced(N)'
  <2>1. SUFFICES ASSUME NEW j \in Keys, NEW e \in Epochs, NEW s \in Times, NEW u \in Times,
                        <<j, e, s>> \in N, <<j, e, u>> \in N, s < u
                 PROVE  s + Window <= u
    BY DEF Spaced
  <2>2. CASE <<j, e, s>> \in O /\ <<j, e, u>> \in O
    BY <2>1, <2>2 DEF Books, Spaced
  <2>3. CASE <<j, e, s>> \in O /\ j = k /\ e = epoch[k] /\ u = now
    BY <1>8, <2>3
  <2>4. CASE j = k /\ e = epoch[k] /\ s = now
    <3>1. u <= now
      BY <1>3, <1>8, <1>12, <2>1, <2>4
    <3>2. QED
      BY <1>3, <2>1, <2>4, <3>1
  <2>5. QED
    BY <1>12, <2>1, <2>2, <2>3, <2>4
<1>14. Opened(N)'
  <2>1. ASSUME NEW j \in Keys, NEW e \in Epochs, NEW s \in Times, <<j, e, s>> \in N
        PROVE  e <= epoch[j] /\ s <= now
    BY <1>3, <1>12, <2>1 DEF Books, Opened
  <2>2. ASSUME NEW j \in Keys, NEW s \in Times, <<j, epoch[j], s>> \in N, s + Window > now
        PROVE  data'[j] # None /\ data'[j].reset_at = s + Window
    <3>1. epoch[j] \in Epochs
      BY DEF TInv, TypeOK
    <3>2. CASE j = k
      <4>1. s = now
        <5>1. s \in Nat /\ ~(s + Window <= now)
          BY <1>3, <2>2
        <5>2. <<k, epoch[k], s>> \notin O
          BY <1>8, <5>1
        <5>3. QED
          BY <1>12, <2>2, <3>1, <3>2, <5>2
      <4>2. QED
        BY <1>5, <1>7, <3>2, <4>1
    <3>3. CASE j # k
      BY <1>7, <1>12, <2>2, <3>1, <3>3 DEF Books, Opened
    <3>4. QED
      BY <3>2, <3>3
  <2>3. ASSUME NEW j \in Keys, data'[j] # None
        PROVE  \E s \in Times : <<j, epoch[j], s>> \in N /\ data'[j].reset_at = s + Window
    <3>1. CASE j = k
      BY <1>3, <1>5, <1>7, <1>11, <3>1
    <3>2. CASE j # k
      BY <1>7, <1>11, <2>3, <3>2 DEF Books, Opened
    <3>3. QED
      BY <3>1, <3>2
  <2>4. QED
    BY <1>6, <2>1, <2>2, <2>3 DEF Opened
<1>15. Held(N, C)'
  <2>1. SUFFICES ASSUME NEW v \in Workers, req'[v].pc = "decide" PROVE Holder(N, C, req'[v])
    BY DEF Held, Holder
  <2>2. CASE v # w
    <3>1. Holder(O, C, req'[v])
      BY <1>6, <2>1, <2>2 DEF Books, Held
    <3>2. QED
      BY <1>11, <3>1 DEF Holder
  <2>3. CASE v = w
    <3>1. <<k, epoch[k], now>> \in N /\ now <= now /\ now < now + Window
      BY <1>3, <1>11
    <3>2. QED
      BY <1>3, <1>5, <1>6, <1>10, <2>3, <3>1 DEF Holder
  <2>4. QED
    BY <2>2, <2>3
<1>16. Given(C)'
  <2>1. SUFFICES ASSUME NEW j \in Keys, NEW e \in Epochs, NEW u \in Times, NEW c \in C[<<j, e, u>>]
                 PROVE  e < epoch[j] \/ u + Window <= now \/ (data'[j] # None /\ c <= data'[j].count)
    BY <1>6 DEF Given
  <2>2. e < epoch[j] \/ u + Window <= now \/ (data[j] # None /\ c <= data[j].count)
    BY DEF Books, Given
  <2>3. <<j, e, u>> \in O
    BY DEF Books, Tallied
  <2>4. CASE j = k
    <3>1. e <= epoch[k] /\ e \in Nat /\ epoch[k] \in Nat
      BY <1>3, <2>3, <2>4 DEF Books, Opened
    <3>2. CASE e = epoch[k]
      BY <1>8, <2>3, <2>4, <3>2
    <3>3. CASE e # epoch[k]
      BY <2>4, <3>1, <3>3
    <3>4. QED
      BY <3>2, <3>3
  <2>5. CASE j # k
    BY <1>7, <2>2, <2>5
  <2>6. QED
    BY <2>4, <2>5
<1>17. Tallied(N, C)'
  <2>1. InWindow(admitted, k, epoch[k], now) = 0
    <3>1. ASSUME NEW t \in Times, now <= t, admitted[<<k, epoch[k], t>>] # 0 PROVE FALSE
      <4>1. PICK s \in Times : <<k, epoch[k], s>> \in O /\ s <= t /\ t < s + Window
        BY <1>3, <3>1 DEF Books, Tallied
      <4>2. s + Window <= now
        BY <1>8, <4>1
      <4>3. QED
        BY <1>3, <3>1, <4>1, <4>2
    <3>2. QED
      BY <1>3, <3>1, WindowEmpty
  <2>2. Cardinality({}) = 0
    BY FS_EmptySet
  <2>3. \A j \in Keys, e \in Epochs, s \in Times :
           /\ <<j, e, s>> \in N => InWindow(admitted, j, e, s) = Cardinality(C[<<j, e, s>>])
           /\ <<j, e, s>> \notin N => C[<<j, e, s>>] = {}
    BY <1>10, <1>12, <2>1, <2>2 DEF Books, Tallied
  <2>4. \A j \in Keys, e \in Epochs, t \in Times : admitted[<<j, e, t>>] # 0 =>
           \E s \in Times : <<j, e, s>> \in N /\ s <= t /\ t < s + Window
    BY <1>11 DEF Books, Tallied
  <2>5. QED
    BY <1>6, <2>3, <2>4 DEF Tallied
<1>18. N \subseteq Slots
  BY <1>3, <1>11 DEF Books, Slots
<1>19. Books(N, C)'
  BY <1>13, <1>14, <1>15, <1>16, <1>17, <1>18 DEF Books
<1>20. QED
  BY <1>19

\* What the books say, part by part.
LEMMA BooksSay ==
    ASSUME NEW O, NEW C, TInv, Books(O, C)
    PROVE  /\ now \in Times /\ Times \subseteq Nat /\ Epochs \subseteq Nat /\ Window \in Nat \ {0}
           /\ epoch \in [Keys -> Epochs] /\ data \in [Keys -> Entry \cup {None}] /\ admitted \in Histories
           /\ \A k \in Keys, e \in Epochs, s \in Times : <<k, e, s>> \in O => e <= epoch[k] /\ s <= now
           /\ \A k \in Keys, s \in Times :
                 <<k, epoch[k], s>> \in O /\ s + Window > now => data[k] # None /\ data[k].reset_at = s + Window
           /\ \A k \in Keys : data[k] # None =>
                 \E s \in Times : <<k, epoch[k], s>> \in O /\ data[k].reset_at = s + Window
           /\ \A k \in Keys, e \in Epochs, s \in Times : \A c \in C[<<k, e, s>>] :
                 /\ <<k, e, s>> \in O
                 /\ e < epoch[k] \/ s + Window <= now \/ (data[k] # None /\ c <= data[k].count)
<1>1. now \in Times /\ epoch \in [Keys -> Epochs] /\ data \in [Keys -> Entry \cup {None}] /\ admitted \in Histories
  BY DEF TInv, TypeOK, Histories
<1>2. Times \subseteq Nat /\ Epochs \subseteq Nat /\ Window \in Nat \ {0}
  BY TimeAssumption DEF Times, Epochs
<1>3. \A k \in Keys, e \in Epochs, s \in Times : \A c \in C[<<k, e, s>>] : <<k, e, s>> \in O
  BY DEF Books, Tallied
<1>4. \A k \in Keys, e \in Epochs, s \in Times : \A c \in C[<<k, e, s>>] :
         e < epoch[k] \/ s + Window <= now \/ (data[k] # None /\ c <= data[k].count)
  BY DEF Books, Given
<1>5. Opened(O)
  BY DEF Books
<1>6. QED
  BY <1>1, <1>2, <1>3, <1>4, <1>5 DEF Opened

\* The last limiter lets a request through.
LEMMA BooksPass ==
    ASSUME NEW O, NEW C, IInv, TInv, Books(O, C), NEW w \in Workers, Pass(w), ~(req[w].i < Len(Limits))
    PROVE  \E D : Books(O, D)'
<1>1. PICK r : r = req[w]
  OBVIOUS
<1>2. /\ r.pc = "decide" /\ r.key \in Keys /\ r.epoch \in Epochs /\ r.time \in Times
      /\ r.count \in Nat \ {0} /\ r.i \in 1 .. Len(Limits) /\ req \in [Workers -> Fields]
  <2>1. req \in [Workers -> Fields] /\ req[w].pc = "decide"
    BY DEF TInv, TypeOK, Fields, Pass
  <2>2. req[w] \in Fields
    BY <2>1
  <2>3. req[w].key \in Keys /\ req[w].i \in 1 .. Len(Limits) /\ req[w].count # 0
    BY <2>1 DEF TInv
  <2>4. QED
    BY <1>1, <2>1, <2>2, <2>3 DEF Fields
<1>3. r.count \in 1 .. Last
  <2>1. Len(Limits) \in Nat \ {0}
    BY LimitsAssumption
  <2>2. r.i = Len(Limits)
    BY <1>1, <1>2, <2>1
  <2>3. ~(r.count > Last)
    BY <1>1, <2>2 DEF Pass, exceeded, Last
  <2>4. QED
    BY <1>2, <2>3, LastFacts
<1>4. PICK k \in Keys, e \in Epochs, t, s \in Times : k = r.key /\ e = r.epoch /\ t = r.time
         /\ <<k, e, s>> \in O /\ r.reset_at = s + Window
         /\ s <= t /\ t < s + Window /\ r.count \notin C[<<k, e, s>>]
  <2>1. Holder(O, C, r)
    BY <1>1, <1>2 DEF Books, Held
  <2>2. QED
    BY <1>2, <2>1 DEF Holder
<1>5. PICK c \in 1 .. Last : c = r.count
  BY <1>3
<1>6. /\ req' = [req EXCEPT ![w] = Idle] /\ UNCHANGED <<now, data, epoch>>
      /\ admitted' = [admitted EXCEPT ![<<k, e, t>>] = admitted[<<k, e, t>>] + 1]
  BY <1>1, <1>4 DEF Pass
<1>7. <<k, e, t>> \in Slots /\ <<k, e, s>> \in Slots /\ admitted \in Histories
  BY <1>4, BooksSay DEF Slots
<1>8. /\ admitted' \in Histories /\ admitted'[<<k, e, t>>] = admitted[<<k, e, t>>] + 1
      /\ \A x \in Slots : x # <<k, e, t>> => admitted'[x] = admitted[x]
  BY <1>6, <1>7, CountedUp DEF Histories
<1>9. PICK D : D = [C EXCEPT ![<<k, e, s>>] = C[<<k, e, s>>] \cup {c}]
  OBVIOUS
<1>10. C \in [Slots -> SUBSET (1 .. Last)]
  BY DEF Books
<1>11. /\ D \in [Slots -> SUBSET (1 .. Last)] /\ D[<<k, e, s>>] = C[<<k, e, s>>] \cup {c}
       /\ \A x \in Slots : x # <<k, e, s>> => D[x] = C[x]
  BY <1>7, <1>9, <1>10
<1>12. Held(O, D)'
  <2>1. SUFFICES ASSUME NEW v \in Workers, req'[v].pc = "decide" PROVE Holder(O, D, req'[v])
    BY DEF Held, Holder
  <2>2. v # w /\ req'[v] = req[v] /\ req[v].pc = "decide"
    BY <1>2, <1>6, <2>1 DEF Idle
  <2>3. req[v].key \in Keys /\ req[v].epoch \in Epochs
    BY <1>2, <2>2 DEF TInv, Fields
  <2>4. PICK u \in Times :
          /\ <<req[v].key, req[v].epoch, u>> \in O /\ req[v].reset_at = u + Window
          /\ u <= req[v].time /\ req[v].time < u + Window
          /\ req[v].count \notin C[<<req[v].key, req[v].epoch, u>>]
    BY <2>2 DEF Books, Held, Holder
  <2>5. req[v].count \notin D[<<req[v].key, req[v].epoch, u>>]
    <3>1. CASE req[v].key = k /\ req[v].epoch = e /\ u = s
      <4>1. req[v].count # c
        BY <1>1, <1>2, <1>4, <1>5, <2>2, <2>4, <3>1 DEF IInv, CountsDistinct
      <4>2. QED
        BY <1>11, <2>4, <3>1, <4>1
    <3>2. CASE ~(req[v].key = k /\ req[v].epoch = e /\ u = s)
      <4>1. <<req[v].key, req[v].epoch, u>> \in Slots /\ <<req[v].key, req[v].epoch, u>> # <<k, e, s>>
        BY <2>3, <3>2 DEF Slots
      <4>2. QED
        BY <1>11, <2>4, <4>1
    <3>3. QED
      BY <3>1, <3>2
  <2>6. QED
    BY <2>2, <2>4, <2>5 DEF Holder
<1>13. Given(D)'
  <2>1. SUFFICES ASSUME NEW j \in Keys, NEW f \in Epochs, NEW u \in Times, NEW b \in D[<<j, f, u>>]
                 PROVE  f < epoch[j] \/ u + Window <= now \/ (data[j] # None /\ b <= data[j].count)
    BY <1>6 DEF Given
  <2>2. <<j, f, u>> \in Slots
    BY DEF Slots
  <2>3. CASE b \in C[<<j, f, u>>]
    BY <2>3 DEF Books, Given
  <2>4. CASE b \notin C[<<j, f, u>>]
    <3>1. <<j, f, u>> = <<k, e, s>> /\ b = c
      BY <1>11, <2>1, <2>2, <2>4
    <3>2. Behind(r)
      BY <1>1, <1>2 DEF IInv
    <3>3. QED
      BY <1>4, <1>5, <3>1, <3>2 DEF Behind
  <2>5. QED
    BY <2>3, <2>4
<1>14. Tallied(O, D)'
  <2>1. ASSUME NEW j \in Keys, NEW f \in Epochs, NEW u \in Times, <<j, f, u>> \in O
        PROVE  InWindow(admitted', j, f, u) = Cardinality(D[<<j, f, u>>])
    <3>1. InWindow(admitted, j, f, u) = Cardinality(C[<<j, f, u>>]) /\ <<j, f, u>> \in Slots
      BY <2>1 DEF Books, Tallied, Slots
    <3>2. CASE ~(j = k /\ f = e)
      <4>1. \A y \in Times : <<j, f, y>> \in Slots /\ <<j, f, y>> # <<k, e, t>>
        BY <3>2 DEF Slots
      <4>2. \A y \in Times : admitted'[<<j, f, y>>] = admitted[<<j, f, y>>] /\ admitted[<<j, f, y>>] \in Nat
        BY <1>7, <1>8, <4>1 DEF Histories
      <4>3. admitted'[<<j, f, t>>] = admitted[<<j, f, t>>] + 0
        BY <4>2
      <4>4. InWindow(admitted', j, f, u)
              = InWindow(admitted, j, f, u) + (IF u <= t /\ t < u + Window THEN 0 ELSE 0)
        BY <1>7, <1>8, <4>2, <4>3, WindowDiffers
      <4>5. D[<<j, f, u>>] = C[<<j, f, u>>]
        BY <1>11, <3>1, <3>2
      <4>6. Cardinality(C[<<j, f, u>>]) \in Nat
        BY <1>10, <3>1, LastFacts
      <4>7. QED
        BY <3>1, <4>4, <4>5, <4>6
    <3>3. CASE j = k /\ f = e
      <4>1. \A y \in Times : y # t => admitted'[<<k, e, y>>] = admitted[<<k, e, y>>]
        BY <1>8 DEF Slots
      <4>2. InWindow(admitted', k, e, u)
              = InWindow(admitted, k, e, u) + (IF u <= t /\ t < u + Window THEN 1 ELSE 0)
        BY <1>7, <1>8, <4>1, WindowDiffers
      <4>3. PICK n \in Nat : n = Cardinality(C[<<k, e, u>>]) /\ IsFiniteSet(C[<<k, e, u>>])
        BY <1>10, <3>1, <3>3, LastFacts
      <4>4. CASE u = s
        <5>1. Cardinality(C[<<k, e, s>>] \cup {c}) = Cardinality(C[<<k, e, s>>]) + 1
          BY <1>4, <1>5, <4>3, <4>4, FS_AddElement
        <5>2. QED
          BY <1>4, <1>11, <3>1, <3>3, <4>2, <4>3, <4>4, <5>1
      <4>5. CASE u # s
        <5>1. ~(u <= t /\ t < u + Window)
          <6>1. u \in Nat /\ s \in Nat /\ t \in Nat /\ Window \in Nat
            BY BooksSay
          <6>2. u < s => u + Window <= s
            BY <1>4, <2>1, <3>3 DEF Books, Spaced
          <6>3. s < u => s + Window <= u
            BY <1>4, <2>1, <3>3 DEF Books, Spaced
          <6>4. QED
            BY <1>4, <4>5, <6>1, <6>2, <6>3
        <5>2. D[<<k, e, u>>] = C[<<k, e, u>>]
          BY <1>11, <3>1, <3>3, <4>5
        <5>3. QED
          BY <3>1, <3>3, <4>2, <4>3, <5>1, <5>2
      <4>6. QED
        BY <4>4, <4>5
    <3>4. QED
      BY <3>2, <3>3
  <2>2. ASSUME NEW j \in Keys, NEW f \in Epochs, NEW u \in Times, <<j, f, u>> \notin O
        PROVE  D[<<j, f, u>>] = {}
    <3>1. C[<<j, f, u>>] = {} /\ <<j, f, u>> \in Slots
      BY <2>2 DEF Books, Tallied, Slots
    <3>2. <<j, f, u>> # <<k, e, s>>
      BY <1>4, <2>2
    <3>3. QED
      BY <1>11, <3>1, <3>2
  <2>3. ASSUME NEW j \in Keys, NEW f \in Epochs, NEW x \in Times, admitted'[<<j, f, x>>] # 0
        PROVE  \E u \in Times : <<j, f, u>> \in O /\ u <= x /\ x < u + Window
    <3>1. CASE <<j, f, x>> = <<k, e, t>>
      BY <1>4, <3>1
    <3>2. CASE <<j, f, x>> # <<k, e, t>>
      <4>1. admitted[<<j, f, x>>] # 0
        BY <1>8, <2>3, <3>2 DEF Slots
      <4>2. QED
        BY <4>1 DEF Books, Tallied
    <3>3. QED
      BY <3>1, <3>2
  <2>4. QED
    BY <2>1, <2>2, <2>3 DEF Tallied
<1>15. Spaced(O)' /\ Opened(O)'
  BY <1>6 DEF Books, Spaced, Opened
<1>16. Books(O, D)'
  BY <1>11, <1>12, <1>13, <1>14, <1>15 DEF Books
<1>17. QED
  BY <1>16

\* reset forgets the window of a client and begins an epoch.
LEMMA BooksReset ==
    ASSUME NEW O, NEW C, TInv, Books(O, C), NEW k \in Keys, reset(k)
    PROVE  Books(O, C)'
<1>1. /\ data' = [data EXCEPT ![k] = None] /\ epoch' = [epoch EXCEPT ![k] = epoch[k] + 1]
      /\ epoch[k] < MaxResets /\ UNCHANGED <<now, req, admitted>>
  BY DEF reset
<1>2. /\ epoch[k] \in Epochs /\ epoch[k] \in Nat /\ epoch'[k] = epoch[k] + 1 /\ data'[k] = None
      /\ \A j \in Keys \ {k} : epoch'[j] = epoch[j] /\ data'[j] = data[j]
  BY <1>1, BooksSay
<1>3. ASSUME NEW j \in Keys, NEW e \in Epochs, NEW s \in Times, <<j, e, s>> \in O
      PROVE  e <= epoch'[j] /\ s <= now /\ (j = k => e < epoch'[k])
  <2>1. e <= epoch[j] /\ s <= now /\ e \in Nat
    BY <1>3, BooksSay
  <2>2. CASE j = k
    BY <1>2, <2>1, <2>2
  <2>3. CASE j # k
    BY <1>2, <2>1, <2>3
  <2>4. QED
    BY <2>2, <2>3
<1>4. epoch'[k] \in Epochs /\ ~(epoch'[k] < epoch'[k])
  BY <1>1, <1>2, TimeAssumption DEF Epochs
<1>5. Opened(O)'
  <2>1. ASSUME NEW j \in Keys, NEW s \in Times, <<j, epoch'[j], s>> \in O, s + Window > now
        PROVE  data'[j] # None /\ data'[j].reset_at = s + Window
    <3>1. j # k
      BY <1>3, <1>4, <2>1
    <3>2. QED
      BY <1>2, <2>1, <3>1, BooksSay
  <2>2. ASSUME NEW j \in Keys, data'[j] # None
        PROVE  \E s \in Times : <<j, epoch'[j], s>> \in O /\ data'[j].reset_at = s + Window
    <3>1. j # k /\ data[j] # None
      BY <1>2, <2>2
    <3>2. \E s \in Times : <<j, epoch[j], s>> \in O /\ data[j].reset_at = s + Window
      BY <3>1, BooksSay
    <3>3. QED
      BY <1>2, <3>1, <3>2
  <2>3. QED
    BY <1>1, <1>3, <2>1, <2>2 DEF Opened
<1>6. Given(C)'
  <2>1. SUFFICES ASSUME NEW j \in Keys, NEW e \in Epochs, NEW u \in Times, NEW c \in C[<<j, e, u>>]
                 PROVE  e < epoch'[j] \/ u + Window <= now \/ (data'[j] # None /\ c <= data'[j].count)
    BY <1>1 DEF Given
  <2>2. <<j, e, u>> \in O /\ (e < epoch[j] \/ u + Window <= now \/ (data[j] # None /\ c <= data[j].count))
    BY BooksSay
  <2>3. CASE j = k
    BY <1>3, <2>2, <2>3
  <2>4. CASE j # k
    BY <1>2, <2>2, <2>4
  <2>5. QED
    BY <2>3, <2>4
<1>7. Spaced(O)' /\ Held(O, C)' /\ Tallied(O, C)'
  BY <1>1 DEF Books, Spaced, Held, Holder, Tallied
<1>8. QED
  BY <1>5, <1>6, <1>7 DEF Books

\* The sweep only drops windows that are over.
LEMMA BooksSweep ==
    ASSUME NEW O, NEW C, TInv, Books(O, C), cleanup_expired
    PROVE  Books(O, C)'
<1>1. /\ \A j \in Keys : data'[j] = IF swept(j) THEN None ELSE data[j]
      /\ UNCHANGED <<now, req, epoch, admitted>>
  BY DEF cleanup_expired
<1>2. now \in Nat /\ Times \subseteq Nat /\ Window \in Nat /\ Epochs \subseteq Nat
  BY BooksSay
<1>3. ASSUME NEW j \in Keys, NEW s \in Times, <<j, epoch[j], s>> \in O, s + Window > now
      PROVE  data'[j] = data[j]
  <2>1. data[j] # None /\ data[j].reset_at = s + Window /\ s \in Nat
    BY <1>2, <1>3, BooksSay
  <2>2. ~swept(j)
    BY <1>2, <1>3, <2>1 DEF swept, expired
  <2>3. QED
    BY <1>1, <2>2
<1>4. Opened(O)'
  <2>1. ASSUME NEW j \in Keys, NEW s \in Times, <<j, epoch[j], s>> \in O, s + Window > now
        PROVE  data'[j] # None /\ data'[j].reset_at = s + Window
    BY <1>3, <2>1, BooksSay
  <2>2. ASSUME NEW j \in Keys, data'[j] # None
        PROVE  \E s \in Times : <<j, epoch[j], s>> \in O /\ data'[j].reset_at = s + Window
    <3>1. data'[j] = data[j]
      BY <1>1, <2>2
    <3>2. QED
      BY <2>2, <3>1, BooksSay
  <2>3. \A j \in Keys, e \in Epochs, s \in Times : <<j, e, s>> \in O => e <= epoch[j] /\ s <= now
    BY BooksSay
  <2>4. QED
    BY <1>1, <2>1, <2>2, <2>3 DEF Opened
<1>5. Given(C)'
  <2>1. SUFFICES ASSUME NEW j \in Keys, NEW e \in Epochs, NEW u \in Times, NEW c \in C[<<j, e, u>>]
                 PROVE  e < epoch[j] \/ u + Window <= now \/ (data'[j] # None /\ c <= data'[j].count)
    BY <1>1 DEF Given
  <2>2. <<j, e, u>> \in O /\ (e < epoch[j] \/ u + Window <= now \/ (data[j] # None /\ c <= data[j].count))
    BY BooksSay
  <2>3. e <= epoch[j] /\ e \in Nat /\ epoch[j] \in Nat
    BY <2>2, BooksSay
  <2>4. CASE e = epoch[j] /\ u + Window > now
    <3>1. data'[j] = data[j]
      BY <1>3, <2>2, <2>4
    <3>2. QED
      BY <2>2, <3>1
  <2>5. CASE ~(e = epoch[j] /\ u + Window > now)
    <3>1. u \in Nat
      BY <1>2
    <3>2. QED
      BY <1>2, <2>3, <2>5, <3>1
  <2>6. QED
    BY <2>4, <2>5
<1>6. Spaced(O)' /\ Held(O, C)' /\ Tallied(O, C)'
  BY <1>1 DEF Books, Spaced, Held, Holder, Tallied
<1>7. QED
  BY <1>4, <1>5, <1>6 DEF Books

\* The clock moves on.
LEMMA BooksTick ==
    ASSUME NEW O, NEW C, TInv, Books(O, C), Tick
    PROVE  Books(O, C)'
<1>1. now' = now + 1 /\ UNCHANGED <<data, req, epoch, admitted>>
  BY DEF Tick
<1>2. now \in Nat /\ Times \subseteq Nat /\ Window \in Nat
  BY BooksSay
<1>3. \A s \in Times : /\ s <= now => s <= now'
                       /\ s + Window > now' => s + Window > now
                       /\ s + Window <= now => s + Window <= now'
  BY <1>1, <1>2
<1>4. Opened(O)'
  <2>1. Opened(O)
    BY DEF Books
  <2>2. QED
    BY <1>1, <1>3, <2>1 DEF Opened
<1>5. Given(C)'
  <2>1. Given(C)
    BY DEF Books
  <2>2. QED
    BY <1>1, <1>3, <2>1 DEF Given
<1>6. Spaced(O)' /\ Held(O, C)' /\ Tallied(O, C)'
  BY <1>1 DEF Books, Spaced, Held, Holder, Tallied
<1>7. QED
  BY <1>4, <1>5, <1>6 DEF Books

\* The books are empty at first.
LEMMA InitAInv == Init => AInv
<1>1. SUFFICES ASSUME Init PROVE \E O, C : Books(O, C)
  BY InitIInv, InitTypes DEF AInv
<1>2. PICK C : C = [x \in Slots |-> {}]
  OBVIOUS
<1>3. C \in [Slots -> SUBSET (1 .. Last)] /\ \A k \in Keys, e \in Epochs, s \in Times : C[<<k, e, s>>] = {}
  BY <1>2 DEF Slots
<1>4. /\ \A k \in Keys : data[k] = None
      /\ \A w \in Workers : req[w].pc = "idle"
      /\ \A k \in Keys, e \in Epochs, t \in Times : admitted[<<k, e, t>>] = 0
  BY <1>1 DEF Init, Idle, Slots
<1>5. Spaced({}) /\ Opened({})
  BY <1>4 DEF Spaced, Opened
<1>6. Held({}, C) /\ Given(C)
  BY <1>3, <1>4 DEF Held, Given
<1>7. Tallied({}, C)
  BY <1>3, <1>4 DEF Tallied
<1>8. Books({}, C)
  BY <1>3, <1>5, <1>6, <1>7 DEF Books
<1>9. QED
  BY <1>8

\* Every step keeps some books.
LEMMA NextAInv == AInv /\ [Next]_vars => AInv'
<1> SUFFICES ASSUME AInv, [Next]_vars PROVE (\E O, C : Books(O, C))'
  BY NextIInv, NextTypes DEF AInv
<1>1. IInv /\ TInv
  BY DEF AInv
<1>2. PICK O, C : Books(O, C)
  BY DEF AInv
<1>3. req \in [Workers -> Fields]
  BY <1>1 DEF TInv, TypeOK, Fields
<1>4. ASSUME NEW w \in Workers, NEW r, r.pc # "decide", req' = [req EXCEPT ![w] = r],
             UNCHANGED <<now, data, epoch, admitted>>
      PROVE  Books(O, C)'
  <2>1. \A v \in Workers : req'[v].pc = "decide" => req'[v] = req[v]
    BY <1>3, <1>4
  <2>2. QED
    BY <1>2, <1>4, <2>1, BooksStay
<1>5. Idle.pc # "decide"
  BY DEF Idle
<1>6. ASSUME NEW w \in Workers, NEW k \in Keys, Arrive(w, k) PROVE (\E N, D : Books(N, D))'
  <2>1. PICK r : r = [Idle EXCEPT !.pc = "count", !.key = k, !.i = 1]
    OBVIOUS
  <2>2. r.pc # "decide"
    BY <2>1 DEF Idle
  <2>3. req' = [req EXCEPT ![w] = r] /\ UNCHANGED <<now, data, epoch, admitted>>
    BY <1>6, <2>1 DEF Arrive
  <2>4. QED
    BY <1>4, <2>2, <2>3
<1>7. ASSUME NEW w \in Workers, increment(w) PROVE (\E N, D : Books(N, D))'
  <2>1. CASE data[req[w].key] # None /\ ~expired(data[req[w].key])
    <3>1. Books(O, C)'
      BY <1>1, <1>2, <1>7, <2>1, BooksCount
    <3>2. QED
      BY <3>1
  <2>2. CASE ~(data[req[w].key] # None /\ ~expired(data[req[w].key]))
    <3>1. (\E N : Books(N, C))'
      BY <1>1, <1>2, <1>7, <2>2, BooksOpen
    <3>2. QED
      BY <3>1
  <2>3. QED
    BY <2>1, <2>2
<1>8. ASSUME NEW w \in Workers, Reject(w) PROVE (\E N, D : Books(N, D))'
  <2>1. req' = [req EXCEPT ![w] = Idle] /\ UNCHANGED <<now, data, epoch, admitted>>
    BY <1>8 DEF Reject
  <2>2. QED
    BY <1>4, <1>5, <2>1
<1>9. ASSUME NEW w \in Workers, Pass(w) PROVE (\E N, D : Books(N, D))'
  <2>1. CASE req[w].i < Len(Limits)
    <3>1. PICK r : r = [req[w] EXCEPT !.pc = "count", !.i = req[w].i + 1]
      OBVIOUS
    <3>2. req' = [req EXCEPT ![w] = r] /\ UNCHANGED <<now, data, epoch, admitted>>
      BY <1>3, <1>9, <2>1, <3>1 DEF Pass
    <3>3. r.pc # "decide"
      BY <1>3, <3>1 DEF Fields
    <3>4. QED
      BY <1>4, <3>2, <3>3
  <2>2. CASE ~(req[w].i < Len(Limits))
    <3>1. (\E D : Books(O, D))'
      BY <1>1, <1>2, <1>9, <2>2, BooksPass
    <3>2. QED
      BY <3>1
  <2>3. QED
    BY <2>1, <2>2
<1>10. ASSUME NEW k \in Keys, reset(k) PROVE (\E N, D : Books(N, D))'
  <2>1. Books(O, C)'
    BY <1>1, <1>2, <1>10, BooksReset
  <2>2. QED
    BY <2>1
<1>11. CASE cleanup_expired
  <2>1. Books(O, C)'
    BY <1>1, <1>2, <1>11, BooksSweep
  <2>2. QED
    BY <2>1
<1>12. CASE Tick
  <2>1. Books(O, C)'
    BY <1>1, <1>2, <1>12, BooksTick
  <2>2. QED
    BY <2>1
<1>13. CASE UNCHANGED vars
  <2>1. UNCHANGED <<now, data, epoch, admitted>> /\ req' = req
    BY <1>13 DEF vars
  <2>2. Books(O, C)'
    BY <1>2, <2>1, BooksStay
  <2>3. QED
    BY <2>2
<1>14. QED
  BY <1>6, <1>7, <1>8, <1>9, <1>10, <1>11, <1>12, <1>13 DEF Next

\* No client gets more than twice the last limit through in any stretch of
\* Window milliseconds, for any number of threads, clients and limiters and
\* whenever expired entries are swept: each window of a client lets every
\* count through once, and a stretch meets at most two windows.
THEOREM AdmissionsBounded == Spec => []AdmittedBounded
<1>1. AInv => AdmittedBounded
  <2>1. SUFFICES ASSUME AInv, NEW k \in Keys, NEW e \in Epochs, NEW t \in Times
                 PROVE  InWindow(admitted, k, e, t) <= 2 * Last
    BY DEF AdmittedBounded, Last
  <2>2. PICK O, C : Books(O, C)
    BY <2>1 DEF AInv
  <2>3. admitted \in Histories
    BY <2>1 DEF AInv, TInv, TypeOK, Histories
  <2>4. QED
    BY <2>2, <2>3, BooksBound
<1>2. QED
  BY <1>1, InitAInv, NextAInv, PTL DEF Spec

-----------------------------------------------------------------------------
(* Rejections, by a limiter that has a store of its own.  The count n of a *)
(* window that ends at r was reached by x: so many requests had begun      *)
(* since the window was opened.                                            *)

Counted(h, k, e, n, x, r) ==
    \E s \in Times : r = s + Window /\ s <= x /\ Before(h, k, e, s) + n <= Before(h, k, e, x + 1)

\* History g has one request more than h, at slot s.
OneMore(h, g, s) == g[s] = h[s] + 1 /\ \A x \in Slots : x # s => g[x] = h[x]

RInv ==
    /\ IInv /\ TInv
    /\ \A k \in Keys : data[k] # None => Counted(arrived, k, epoch[k], data[k].count, now, data[k].reset_at)
    /\ \A w \in Workers : req[w].pc = "decide" =>
          /\ Counted(arrived, req[w].key, req[w].epoch, req[w].count, req[w].time, req[w].reset_at)
          /\ req[w].time < req[w].reset_at /\ req[w].time <= now

\* Time adds to what was counted.
LEMMA CountedLater ==
    ASSUME NEW h \in Histories, NEW k \in Keys, NEW e \in Epochs, NEW n \in Nat, NEW r,
           NEW x \in Times, NEW y \in Times, x <= y, Counted(h, k, e, n, x, r)
    PROVE  Counted(h, k, e, n, y, r)
<1>1. MaxTime \in Nat /\ Times = 0 .. MaxTime
  BY TimeAssumption DEF Times
<1>2. PICK s \in Times : r = s + Window /\ s <= x /\ Before(h, k, e, s) + n <= Before(h, k, e, x + 1)
  BY DEF Counted
<1>3. x + 1 \in 0 .. MaxTime + 1 /\ y + 1 \in x + 1 .. MaxTime + 1 /\ y + 1 \in 0 .. MaxTime + 1
      /\ s \in 0 .. MaxTime + 1 /\ s <= y
  BY <1>1, <1>2
<1>4. Before(h, k, e, x + 1) <= Before(h, k, e, y + 1)
  BY <1>3, BeforeGrows
<1>5. Before(h, k, e, x + 1) \in Nat /\ Before(h, k, e, y + 1) \in Nat /\ Before(h, k, e, s) \in Nat
  BY <1>3, BeforeFacts
<1>6. Before(h, k, e, s) + n <= Before(h, k, e, y + 1)
  BY <1>2, <1>4, <1>5
<1>7. QED
  BY <1>2, <1>3, <1>6 DEF Counted

\* A request that begins adds to what was counted before.
LEMMA CountedMore ==
    ASSUME NEW h \in Histories, NEW k \in Keys, NEW e \in Epochs, NEW t \in Times,
           NEW g \in Histories, OneMore(h, g, <<k, e, t>>),
           NEW j \in Keys, NEW f \in Epochs, NEW n \in Nat, NEW x \in Times, NEW r, x <= t,
           Counted(h, j, f, n, x, r)
    PROVE  /\ Counted(g, j, f, n, x, r)
           /\ j = k /\ f = e /\ x = t => Counted(g, j, f, n + 1, x, r)
<1>1. MaxTime \in Nat /\ Times = 0 .. MaxTime
  BY TimeAssumption DEF Times
<1>2. PICK s \in Times : r = s + Window /\ s <= x /\ Before(h, j, f, s) + n <= Before(h, j, f, x + 1)
  BY DEF Counted
<1>3. x + 1 \in 0 .. MaxTime + 1 /\ s \in 0 .. MaxTime + 1 /\ ~(t < s) /\ (x = t => t < x + 1)
  BY <1>1, <1>2
<1>4. PICK d \in Nat : d = IF j = k /\ f = e THEN 1 ELSE 0
  OBVIOUS
<1>5. /\ g[<<j, f, t>>] = h[<<j, f, t>>] + d
      /\ \A y \in Times : y # t => g[<<j, f, y>>] = h[<<j, f, y>>]
  <2>1. <<j, f, t>> \in Slots /\ <<k, e, t>> \in Slots /\ \A y \in Times : <<j, f, y>> \in Slots
    BY DEF Slots
  <2>2. h[<<j, f, t>>] \in Nat
    BY <2>1 DEF Histories
  <2>3. \A y \in Slots : g[y] = IF y = <<k, e, t>> THEN h[<<k, e, t>>] + 1 ELSE h[y]
    BY <2>1 DEF OneMore
  <2>4. QED
    BY <1>4, <2>1, <2>2, <2>3
<1>6. \A y \in 0 .. MaxTime + 1 : Before(g, j, f, y) = Before(h, j, f, y) + (IF t < y THEN d ELSE 0)
  BY <1>4, <1>5, BeforeDiffers
<1>7. /\ Before(g, j, f, s) = Before(h, j, f, s) + 0
      /\ Before(g, j, f, x + 1) = Before(h, j, f, x + 1) + (IF t < x + 1 THEN d ELSE 0)
  BY <1>3, <1>6
<1>8. Before(h, j, f, s) \in Nat /\ Before(h, j, f, x + 1) \in Nat
  BY <1>3, BeforeFacts
<1>9. Before(g, j, f, s) + n <= Before(g, j, f, x + 1)
  BY <1>2, <1>4, <1>7, <1>8
<1>10. j = k /\ f = e /\ x = t => Before(g, j, f, s) + (n + 1) <= Before(g, j, f, x + 1)
  BY <1>2, <1>3, <1>4, <1>7, <1>8
<1>11. QED
  BY <1>2, <1>9, <1>10 DEF Counted

\* The request that opens a window is counted in it.
LEMMA CountedFirst ==
    ASSUME NEW h \in Histories, NEW k \in Keys, NEW e \in Epochs, NEW t \in Times,
           NEW g \in Histories, OneMore(h, g, <<k, e, t>>)
    PROVE  Counted(g, k, e, 1, t, t + Window)
<1>1. MaxTime \in Nat /\ Times = 0 .. MaxTime
  BY TimeAssumption DEF Times
<1>2. <<k, e, t>> \in Slots /\ t \in 0 .. MaxTime + 1
  BY <1>1 DEF Slots
<1>3. g[<<k, e, t>>] = h[<<k, e, t>>] + 1 /\ h[<<k, e, t>>] \in Nat
  BY <1>2 DEF Histories, OneMore
<1>4. Before(g, k, e, t + 1) = Before(g, k, e, t) + g[<<k, e, t>>] /\ Before(g, k, e, t) \in Nat
  BY <1>2, BeforeFacts
<1>5. Before(g, k, e, t) + 1 <= Before(g, k, e, t + 1) /\ t <= t
  BY <1>1, <1>3, <1>4
<1>6. QED
  BY <1>5 DEF Counted

\* Nothing is counted at first.
LEMMA InitRInv == Init => RInv
  BY InitIInv, InitTypes DEF Init, RInv, Idle

\* A step in which nobody is given a count.
LEMMA RStays ==
    ASSUME RInv, IInv', TInv', UNCHANGED <<now, epoch, arrived>>,
           \A k \in Keys : data'[k] # None => data'[k] = data[k],
           \A v \in Workers : req'[v].pc = "decide" => req'[v] = req[v]
    PROVE  RInv'
<1>1. ASSUME NEW k \in Keys, data'[k] # None
      PROVE  Counted(arrived', k, epoch'[k], data'[k].count, now', data'[k].reset_at)
  BY <1>1 DEF RInv
<1>2. ASSUME NEW v \in Workers, req'[v].pc = "decide"
      PROVE  /\ Counted(arrived', req'[v].key, req'[v].epoch, req'[v].count, req'[v].time, req'[v].reset_at)
             /\ req'[v].time < req'[v].reset_at /\ req'[v].time <= now'
  BY <1>2 DEF RInv
<1>3. QED
  BY <1>1, <1>2 DEF RInv, Counted

\* Every request is counted where it began when there is one limiter.
LEMMA RCounts ==
    ASSUME Len(Limits) = 1, RInv, IInv', TInv', NEW w \in Workers, increment(w)
    PROVE  RInv'
<1>1. PICK k : k = req[w].key
  OBVIOUS
<1>2. PICK new : new = incremented(k)
  OBVIOUS
<1>3. PICK e : e = epoch[k]
  OBVIOUS
<1>4. IInv /\ TInv
  BY DEF RInv
<1>5. /\ k \in Keys /\ req[w].i = 1 /\ e \in Epochs /\ epoch \in [Keys -> Epochs] /\ now \in Times
      /\ arrived \in Histories /\ arrived' \in Histories /\ req \in [Workers -> Fields]
      /\ data \in [Keys -> Entry \cup {None}]
  <2>1. req[w].pc = "count"
    BY DEF increment
  <2>2. req[w].i \in 1 .. Len(Limits) /\ k \in Keys
    BY <1>1, <1>4, <2>1 DEF TInv
  <2>3. req[w].i = 1
    BY <2>2
  <2>4. QED
    BY <1>3, <1>4, <2>2, <2>3 DEF TInv, TypeOK, Fields, Histories
<1>6. Times \subseteq Nat /\ Window \in Nat \ {0}
  BY TimeAssumption DEF Times
<1>7. /\ data' = [data EXCEPT ![k] = new] /\ UNCHANGED <<now, epoch>>
      /\ \A v \in Workers \ {w} : req'[v] = req[v]
      /\ req'[w].key = k /\ req'[w].epoch = e /\ req'[w].time = now
      /\ req'[w].count = new.count /\ req'[w].reset_at = new.reset_at
  BY <1>1, <1>2, <1>3, <1>5 DEF increment, Fields
<1>8. OneMore(arrived, arrived', <<k, e, now>>)
  <2>1. arrived' = [arrived EXCEPT ![<<k, e, now>>] = arrived[<<k, e, now>>] + 1]
    BY <1>1, <1>3, <1>5 DEF increment
  <2>2. <<k, e, now>> \in Slots
    BY <1>5 DEF Slots
  <2>3. QED
    BY <1>5, <2>1, <2>2 DEF Histories, OneMore
<1>9. \A j \in Keys, f \in Epochs, n \in Nat, x \in Times : \A r :
          x <= now /\ Counted(arrived, j, f, n, x, r) =>
              /\ Counted(arrived', j, f, n, x, r)
              /\ j = k /\ f = e /\ x = now => Counted(arrived', j, f, n + 1, x, r)
  <2>1. PICK g \in Histories : g = arrived'
    BY <1>5
  <2>2. PICK h \in Histories : h = arrived
    BY <1>5
  <2>3. OneMore(h, g, <<k, e, now>>)
    BY <1>8, <2>1, <2>2
  <2>4. SUFFICES ASSUME NEW j \in Keys, NEW f \in Epochs, NEW n \in Nat, NEW x \in Times, NEW r,
                        x <= now, Counted(h, j, f, n, x, r)
                 PROVE  /\ Counted(g, j, f, n, x, r)
                        /\ j = k /\ f = e /\ x = now => Counted(g, j, f, n + 1, x, r)
    BY <2>1, <2>2
  <2>5. QED
    BY <1>5, <2>3, <2>4, CountedMore
<1>10. data'[k] = new /\ \A j \in Keys \ {k} : data'[j] = data[j]
  BY <1>5, <1>7
<1>11. new \in Entry /\ new.reset_at > now
  BY <1>2, <1>4, <1>5, Incremented
<1>12. Counted(arrived', k, e, new.count, now, new.reset_at)
  <2>1. CASE data[k] # None /\ ~expired(data[k])
    <3>1. new.reset_at = data[k].reset_at /\ new.count = data[k].count + 1
      BY <1>2, <1>4, <1>5, <2>1, Incremented
    <3>2. PICK n \in Nat : n = data[k].count
      BY <1>5, <2>1 DEF Entry
    <3>3. Counted(arrived, k, e, n, now, data[k].reset_at) /\ now <= now
      BY <1>3, <1>5, <1>6, <2>1, <3>2 DEF RInv
    <3>4. Counted(arrived', k, e, n + 1, now, data[k].reset_at)
      BY <1>5, <1>9, <3>3, Zenon
    <3>5. QED
      BY <3>1, <3>2, <3>4
  <2>2. CASE ~(data[k] # None /\ ~expired(data[k]))
    <3>1. new = [count |-> 1, reset_at |-> now + Window]
      BY <1>2, <2>2 DEF incremented
    <3>2. new.count = 1 /\ new.reset_at = now + Window
      BY <3>1
    <3>3. Counted(arrived', k, e, 1, now, now + Window)
      BY <1>5, <1>8, CountedFirst
    <3>4. QED
      BY <3>2, <3>3
  <2>3. QED
    BY <2>1, <2>2
<1>13. ASSUME NEW j \in Keys, data'[j] # None
       PROVE  Counted(arrived', j, epoch'[j], data'[j].count, now', data'[j].reset_at)
  <2>1. CASE j = k
    BY <1>3, <1>7, <1>10, <1>12, <2>1
  <2>2. CASE j # k
    <3>1. data'[j] = data[j] /\ data[j] \in Entry /\ epoch[j] \in Epochs
      BY <1>5, <1>10, <1>13, <2>2
    <3>2. PICK n \in Nat : n = data[j].count
      BY <3>1 DEF Entry
    <3>3. Counted(arrived, j, epoch[j], n, now, data[j].reset_at) /\ now <= now
      BY <1>5, <1>6, <1>13, <3>1, <3>2 DEF RInv
    <3>4. Counted(arrived', j, epoch[j], n, now, data[j].reset_at)
      BY <1>5, <1>9, <3>1, <3>3, Zenon
    <3>5. QED
      BY <1>7, <3>1, <3>2, <3>4
  <2>3. QED
    BY <2>1, <2>2
<1>14. ASSUME NEW v \in Workers, req'[v].pc = "decide"
       PROVE  /\ Counted(arrived', req'[v].key, req'[v].epoch, req'[v].count, req'[v].time, req'[v].reset_at)
              /\ req'[v].time < req'[v].reset_at /\ req'[v].time <= now'
  <2>1. CASE v = w
    <3>1. now < new.reset_at /\ now <= now
      BY <1>5, <1>6, <1>11 DEF Entry
    <3>2. QED
      BY <1>7, <1>12, <2>1, <3>1
  <2>2. CASE v # w
    <3>1. PICK q \in Fields : q = req[v] /\ q = req'[v] /\ q.pc = "decide"
      BY <1>5, <1>7, <1>14, <2>2
    <3>2. /\ Counted(arrived, q.key, q.epoch, q.count, q.time, q.reset_at)
          /\ q.time < q.reset_at /\ q.time <= now
      BY <3>1 DEF RInv
    <3>3. q.key \in Keys
      BY <1>4, <3>1 DEF TInv
    <3>4. q.epoch \in Epochs /\ q.count \in Nat /\ q.time \in Times
      BY DEF Fields
    <3>5. Counted(arrived', q.key, q.epoch, q.count, q.time, q.reset_at)
      BY <1>9, <3>2, <3>3, <3>4, Zenon
    <3>6. QED
      BY <1>7, <3>1, <3>2, <3>5
  <2>3. QED
    BY <2>1, <2>2
<1>15. QED
  BY <1>13, <1>14 DEF RInv, Counted

\* reset drops one entry and begins an epoch.
LEMMA RResets ==
    ASSUME RInv, IInv', TInv', NEW k \in Keys, reset(k)
    PROVE  RInv'
<1>1. /\ data' = [data EXCEPT ![k] = None] /\ epoch' = [epoch EXCEPT ![k] = epoch[k] + 1]
      /\ UNCHANGED <<now, req, arrived>>
  BY DEF reset
<1>2. data \in [Keys -> Entry \cup {None}] /\ epoch \in [Keys -> Epochs]
  BY DEF RInv, TInv, TypeOK
<1>3. data'[k] = None /\ \A j \in Keys \ {k} : data'[j] = data[j] /\ epoch'[j] = epoch[j]
  BY <1>1, <1>2
<1>4. ASSUME NEW j \in Keys, data'[j] # None
      PROVE  Counted(arrived', j, epoch'[j], data'[j].count, now', data'[j].reset_at)
  <2>1. j # k
    BY <1>3, <1>4
  <2>2. QED
    BY <1>1, <1>3, <1>4, <2>1 DEF RInv
<1>5. ASSUME NEW v \in Workers, req'[v].pc = "decide"
      PROVE  /\ Counted(arrived', req'[v].key, req'[v].epoch, req'[v].count, req'[v].time, req'[v].reset_at)
             /\ req'[v].time < req'[v].reset_at /\ req'[v].time <= now'
  BY <1>1, <1>5 DEF RInv
<1>6. QED
  BY <1>4, <1>5 DEF RInv, Counted

\* The clock moves on.
LEMMA RTicks ==
    ASSUME RInv, IInv', TInv', Tick
    PROVE  RInv'
<1>1. now' = now + 1 /\ UNCHANGED <<data, req, epoch, arrived>>
  BY DEF Tick
<1>2. /\ data \in [Keys -> Entry \cup {None}] /\ epoch \in [Keys -> Epochs] /\ now \in Times /\ now' \in Times
      /\ req \in [Workers -> Fields] /\ arrived \in Histories
  BY DEF RInv, TInv, TypeOK, Fields, Histories
<1>3. now \in Nat /\ now <= now' /\ Times \subseteq Nat
  BY <1>1, <1>2, TimeAssumption DEF Times
<1>4. ASSUME NEW j \in Keys, data'[j] # None
      PROVE  Counted(arrived', j, epoch'[j], data'[j].count, now', data'[j].reset_at)
  <2>1. data[j] \in Entry /\ epoch[j] \in Epochs
    BY <1>1, <1>2, <1>4
  <2>2. PICK n \in Nat : n = data[j].count
    BY <2>1 DEF Entry
  <2>3. Counted(arrived, j, epoch[j], n, now, data[j].reset_at)
    BY <1>1, <1>4, <2>2 DEF RInv
  <2>4. Counted(arrived, j, epoch[j], n, now', data[j].reset_at)
    BY <1>2, <1>3, <2>1, <2>3, CountedLater
  <2>5. QED
    BY <1>1, <2>2, <2>4
<1>5. ASSUME NEW v \in Workers, req'[v].pc = "decide"
      PROVE  /\ Counted(arrived', req'[v].key, req'[v].epoch, req'[v].count, req'[v].time, req'[v].reset_at)
             /\ req'[v].time < req'[v].reset_at /\ req'[v].time <= now'
  <2>1. /\ Counted(arrived, req[v].key, req[v].epoch, req[v].count, req[v].time, req[v].reset_at)
        /\ req[v].time < req[v].reset_at /\ req[v].time <= now
    BY <1>1, <1>5 DEF RInv
  <2>2. req[v].time \in Nat
    BY <1>2, <1>3 DEF Fields
  <2>3. req[v].time <= now'
    BY <1>1, <1>3, <2>1, <2>2
  <2>4. QED
    BY <1>1, <2>1, <2>3
<1>6. QED
  BY <1>4, <1>5 DEF RInv, Counted

\* Every step keeps the counts below the arrivals, with one limiter.
LEMMA NextRInv ==
    ASSUME Len(Limits) = 1
    PROVE  RInv /\ [Next]_vars => RInv'
<1> SUFFICES ASSUME RInv, [Next]_vars PROVE RInv'
  OBVIOUS
<1>1. IInv' /\ TInv'
  BY NextIInv, NextTypes DEF RInv
<1>2. req \in [Workers -> Fields]
  BY DEF RInv, TInv, TypeOK, Fields
<1>3. ASSUME NEW w \in Workers, NEW r, r.pc # "decide", req' = [req EXCEPT ![w] = r],
             UNCHANGED <<now, data, epoch, arrived>>
      PROVE  RInv'
  <2>1. \A v \in Workers : req'[v].pc = "decide" => req'[v] = req[v]
    BY <1>2, <1>3
  <2>2. QED
    BY <1>1, <1>3, <2>1, RStays
<1>4. Idle.pc # "decide"
  BY DEF Idle
<1>5. ASSUME NEW w \in Workers, NEW k \in Keys, Arrive(w, k) PROVE RInv'
  <2>1. PICK r : r = [Idle EXCEPT !.pc = "count", !.key = k, !.i = 1]
    OBVIOUS
  <2>2. r.pc # "decide"
    BY <2>1 DEF Idle
  <2>3. req' = [req EXCEPT ![w] = r] /\ UNCHANGED <<now, data, epoch, arrived>>
    BY <1>5, <2>1 DEF Arrive
  <2>4. QED
    BY <1>3, <2>2, <2>3
<1>6. ASSUME NEW w \in Workers, increment(w) PROVE RInv'
  BY <1>1, <1>6, RCounts
<1>7. ASSUME NEW w \in Workers, Reject(w) PROVE RInv'
  <2>1. req' = [req EXCEPT ![w] = Idle] /\ UNCHANGED <<now, data, epoch, arrived>>
    BY <1>7 DEF Reject
  <2>2. QED
    BY <1>3, <1>4, <2>1
<1>8. ASSUME NEW w \in Workers, Pass(w) PROVE RInv'
  <2>1. PICK r : r = [req[w] EXCEPT !.pc = "count", !.i = req[w].i + 1]
    OBVIOUS
  <2>2. r.pc # "decide"
    BY <1>2, <2>1 DEF Fields
  <2>3. UNCHANGED <<now, data, epoch, arrived>>
    BY <1>8 DEF Pass
  <2>4. req' = [req EXCEPT ![w] = r] \/ req' = [req EXCEPT ![w] = Idle]
    BY <1>2, <1>8, <2>1 DEF Pass
  <2>5. QED
    BY <1>3, <1>4, <2>2, <2>3, <2>4
<1>9. ASSUME NEW k \in Keys, reset(k) PROVE RInv'
  BY <1>1, <1>9, RResets
<1>10. CASE cleanup_expired
  <2>1. UNCHANGED <<now, req, epoch, arrived>> /\ \A k \in Keys : data'[k] # None => data'[k] = data[k]
    BY <1>10 DEF cleanup_expired
  <2>2. QED
    BY <1>1, <2>1, RStays
<1>11. CASE Tick
  BY <1>1, <1>11, RTicks
<1>12. CASE UNCHANGED vars
  <2>1. UNCHANGED <<now, req, epoch, arrived, data>>
    BY <1>12 DEF vars
  <2>2. QED
    BY <1>1, <2>1, RStays
<1>13. QED
  BY <1>5, <1>6, <1>7, <1>8, <1>9, <1>10, <1>11, <1>12 DEF Next

\* What was counted by x began within the Window milliseconds up to x.
LEMMA CountedWithin ==
    ASSUME NEW h \in Histories, NEW k \in Keys, NEW e \in Epochs, NEW n \in Nat, NEW x \in Times,
           NEW r, x < r, Counted(h, k, e, n, x, r),
           NEW b, b = IF x < Window THEN 0 ELSE x + 1 - Window
    PROVE  n <= InWindow(h, k, e, b)
<1>1. MaxTime \in Nat /\ Times = 0 .. MaxTime /\ Window \in Nat \ {0}
  BY TimeAssumption DEF Times
<1>2. PICK s \in Times : r = s + Window /\ s <= x /\ Before(h, k, e, s) + n <= Before(h, k, e, x + 1)
  BY DEF Counted
<1>3. b \in Times /\ b <= s
  BY <1>1, <1>2
<1>4. PICK y \in 0 .. MaxTime + 1 : y = End(b) /\ InWindow(h, k, e, b) = Before(h, k, e, y) - Before(h, k, e, b)
  BY <1>3, EndFacts
<1>5. y \in x + 1 .. MaxTime + 1
  BY <1>1, <1>3, <1>4 DEF End
<1>6. /\ x + 1 \in 0 .. MaxTime + 1 /\ s \in 0 .. MaxTime + 1
      /\ b \in 0 .. MaxTime + 1 /\ s \in b .. MaxTime + 1
  BY <1>1, <1>2, <1>3
<1>7. Before(h, k, e, x + 1) <= Before(h, k, e, y) /\ Before(h, k, e, b) <= Before(h, k, e, s)
  BY <1>5, <1>6, BeforeGrows
<1>8. /\ Before(h, k, e, x + 1) \in Nat /\ Before(h, k, e, y) \in Nat
      /\ Before(h, k, e, b) \in Nat /\ Before(h, k, e, s) \in Nat
  BY <1>4, <1>6, BeforeFacts
<1>9. QED
  BY <1>2, <1>4, <1>7, <1>8

\* A limiter with a store of its own turns a client away only when more than
\* limit of the client's requests began within the last Window milliseconds:
\* the entry never counts a request twice, nor one from before its window.
THEOREM RejectionsJustified ==
    ASSUME Len(Limits) = 1
    PROVE  Spec => RejectedOnlyOverLimit
<1> DEFINE Justified(w) ==
        req[w].pc = "decide" /\ exceeded(w) /\ req'[w].pc = "idle" =>
            InWindow(arrived, req[w].key, req[w].epoch,
                     IF req[w].time < Window THEN 0 ELSE req[w].time + 1 - Window)
                > Limits[req[w].i]
<1>1. RInv => \A w \in Workers : Justified(w)
  <2>1. SUFFICES ASSUME RInv, NEW w \in Workers, req[w].pc = "decide", exceeded(w)
                 PROVE  InWindow(arrived, req[w].key, req[w].epoch,
                                 IF req[w].time < Window THEN 0 ELSE req[w].time + 1 - Window)
                            > Limits[req[w].i]
    OBVIOUS
  <2>2. PICK q \in Fields : q = req[w]
    BY <2>1 DEF RInv, TInv, TypeOK, Fields
  <2>3. q.key \in Keys /\ q.i \in 1 .. Len(Limits) /\ arrived \in Histories
    BY <2>1, <2>2 DEF RInv, TInv, TypeOK, Histories
  <2>4. q.epoch \in Epochs /\ q.count \in Nat /\ q.time \in Times
    BY DEF Fields
  <2>5. Counted(arrived, q.key, q.epoch, q.count, q.time, q.reset_at) /\ q.time < q.reset_at
    BY <2>1, <2>2 DEF RInv
  <2>6. PICK b : b = IF q.time < Window THEN 0 ELSE q.time + 1 - Window
    OBVIOUS
  <2>7. q.count <= InWindow(arrived, q.key, q.epoch, b)
    BY <2>3, <2>4, <2>5, <2>6, CountedWithin
  <2>8. b \in Times
    BY <2>4, <2>6, TimeAssumption DEF Times
  <2>9. InWindow(arrived, q.key, q.epoch, b) \in Int
    <3>1. b \in 0 .. MaxTime + 1 /\ End(b) \in 0 .. MaxTime + 1
      BY <2>8, EndFacts
    <3>2. Before(arrived, q.key, q.epoch, End(b)) \in Nat /\ Before(arrived, q.key, q.epoch, b) \in Nat
      BY <2>3, <2>4, <3>1, BeforeFacts
    <3>3. QED
      BY <2>8, <3>2, EndFacts
  <2>10. q.count > Limits[q.i] /\ Limits[q.i] \in Nat
    BY <2>1, <2>2, <2>3, LimitsAssumption DEF exceeded
  <2>11. InWindow(arrived, q.key, q.epoch, b) > Limits[q.i]
    BY <2>4, <2>7, <2>9, <2>10
  <2>12. QED
    BY <2>2, <2>6, <2>11
<1>2. RInv /\ [Next]_vars => [\A w \in Workers : Justified(w)]_vars
  BY <1>1
<1>3. Init => RInv
  BY InitRInv
<1>4. RInv /\ [Next]_vars => RInv'
  BY NextRInv
<1>5. QED
  BY <1>2, <1>3, <1>4, PTL DEF Spec, RejectedOnlyOverLimit
=============================================================================
