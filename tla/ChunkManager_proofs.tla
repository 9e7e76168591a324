------------------------ MODULE ChunkManager_proofs ------------------------
(***************************************************************************)
(* Proofs about ChunkManager, for every set of workers, upload ids and     *)
(* contents, every max_parts, every set of faults, and both providers.     *)
(***************************************************************************)
EXTENDS ChunkManager, FiniteSetTheorems, TLAPS

----------------------------------------------------------------------------
(* Types *)

\* What a request's fields hold where the code relies on them.
GoodRequest(r) ==
    /\ r \in Request
    /\ r.pc \notin {"idle", "ab_pick"} => r.id \in UploadIds
    /\ r.pc \in {"up_check", "up_send", "up_record"} => r.data \in Data
    /\ r.pc \in {"up_send", "up_record"} => r.n \in PartNumbers
    /\ r.pc = "init_create" => r.total \in PartNumbers

Typed == TypeOK /\ \A w \in Workers : GoodRequest(req[w])

\* An idle worker's request is well formed.
LEMMA IdleGood == GoodRequest(Idle)
  BY MaxPartsAssumption, RetryAssumption
  DEF Idle, Request, GoodRequest, PCs, NoParts, PartRows, PartNumbers

\* Updating one or several fields of a request keeps its type.
LEMMA RequestUpdates ==
  ASSUME NEW r \in Request
  PROVE  /\ \A p \in PCs : [r EXCEPT !.pc = p] \in Request
         /\ \A p \in PCs, k \in 0..RetryCount : [r EXCEPT !.pc = p, !.tries = k] \in Request
         /\ \A p \in PCs, u \in UploadIds : [r EXCEPT !.pc = p, !.id = u] \in Request
         /\ \A p \in PCs, u \in UploadIds, t \in 0..MaxParts :
               [r EXCEPT !.pc = p, !.id = u, !.total = t] \in Request
         /\ \A p \in PCs, u \in UploadIds, S \in SUBSET PartNumbers :
               [r EXCEPT !.pc = p, !.id = u, !.todo = S] \in Request
         /\ \A p \in PCs, u \in UploadIds, n \in 0..MaxParts + 1, d \in Data,
               k \in 0..RetryCount :
               [r EXCEPT !.pc = p, !.id = u, !.n = n, !.data = d, !.tries = k] \in Request
         /\ \A p \in PCs, n \in 0..MaxParts + 1, d \in Data, S \in SUBSET PartNumbers,
               k \in 0..RetryCount :
               [r EXCEPT !.pc = p, !.n = n, !.data = d, !.todo = S, !.tries = k] \in Request
         /\ \A S \in SUBSET PartNumbers : [r EXCEPT !.todo = S] \in Request
         /\ \A p \in PCs, rows \in PartRows : [r EXCEPT !.pc = p, !.rows = rows] \in Request
         /\ \A V \in SUBSET UploadIds : [r EXCEPT !.victims = V] \in Request
         /\ \A p \in PCs, V \in SUBSET UploadIds :
               [r EXCEPT !.pc = p, !.victims = V, !.sweep = TRUE] \in Request
         /\ \A p \in PCs, u \in UploadIds, V \in SUBSET UploadIds :
               [r EXCEPT !.pc = p, !.id = u, !.victims = V] \in Request
<1>1. /\ \A p \in PCs : [r EXCEPT !.pc = p] \in Request
      /\ \A p \in PCs, k \in 0..RetryCount : [r EXCEPT !.pc = p, !.tries = k] \in Request
      /\ \A p \in PCs, u \in UploadIds : [r EXCEPT !.pc = p, !.id = u] \in Request
  BY DEF Request
<1>2. /\ \A p \in PCs, u \in UploadIds, t \in 0..MaxParts :
            [r EXCEPT !.pc = p, !.id = u, !.total = t] \in Request
      /\ \A p \in PCs, u \in UploadIds, S \in SUBSET PartNumbers :
            [r EXCEPT !.pc = p, !.id = u, !.todo = S] \in Request
  BY DEF Request
<1>3. \A p \in PCs, u \in UploadIds, n \in 0..MaxParts + 1, d \in Data,
               k \in 0..RetryCount :
         [r EXCEPT !.pc = p, !.id = u, !.n = n, !.data = d, !.tries = k] \in Request
  BY DEF Request
<1>4. \A p \in PCs, n \in 0..MaxParts + 1, d \in Data, S \in SUBSET PartNumbers,
         k \in 0..RetryCount :
         [r EXCEPT !.pc = p, !.n = n, !.data = d, !.todo = S, !.tries = k] \in Request
  BY DEF Request
<1>5. /\ \A S \in SUBSET PartNumbers : [r EXCEPT !.todo = S] \in Request
      /\ \A p \in PCs, rows \in PartRows : [r EXCEPT !.pc = p, !.rows = rows] \in Request
      /\ \A V \in SUBSET UploadIds : [r EXCEPT !.victims = V] \in Request
  BY DEF Request
<1>6. \A p \in PCs, V \in SUBSET UploadIds :
         [r EXCEPT !.pc = p, !.victims = V, !.sweep = TRUE] \in Request
  BY DEF Request
<1>7. \A p \in PCs, u \in UploadIds, V \in SUBSET UploadIds :
         [r EXCEPT !.pc = p, !.id = u, !.victims = V] \in Request
  BY DEF Request
<1> QED
  BY <1>1, <1>2, <1>3, <1>4, <1>5, <1>6, <1>7

\* Replacing one worker's request by a well-formed one keeps all well formed.
LEMMA SetGood ==
  ASSUME Typed, NEW w \in Workers, NEW r, GoodRequest(r), req' = [req EXCEPT ![w] = r]
  PROVE  req' \in [Workers -> Request] /\ \A v \in Workers : GoodRequest(req'[v])
<1>1. r \in Request
  BY DEF GoodRequest
<1> QED
  BY <1>1 DEF Typed, TypeOK

ReqTyped == req \in [Workers -> Request] /\ \A v \in Workers : GoodRequest(req[v])

\* The ends of a part upload and of an abort leave a well-formed request.
LEMMA PartDoneGood ==
  ASSUME Typed, NEW w \in Workers, PartDone(w), req[w].id \in UploadIds
  PROVE  ReqTyped'
<1>1. CASE req[w].todo = {}
  BY <1>1, IdleGood, SetGood DEF PartDone, ReqTyped, Typed, TypeOK
<1>2. CASE req[w].todo # {}
  <2> DEFINE r == [Idle EXCEPT !.pc = "pick", !.id = req[w].id, !.todo = req[w].todo]
  <2>1. req' = [req EXCEPT ![w] = r]
    BY <1>2 DEF PartDone, Typed, TypeOK
  <2>2. Idle \in Request /\ "pick" \in PCs /\ req[w].todo \in SUBSET PartNumbers
    BY IdleGood DEF GoodRequest, PCs, Typed, TypeOK, Request
  <2>3. r \in Request
    BY <2>2, RequestUpdates
  <2>4. GoodRequest(r)
    BY <2>2, <2>3 DEF GoodRequest, Idle
  <2> QED
    BY <2>1, <2>4, SetGood DEF ReqTyped
<1> QED
  BY <1>1, <1>2

\* A failed attempt ends in a retry of the same part or in the end of the part.
LEMMA PartFailedGood ==
  ASSUME Typed, NEW w \in Workers, NEW b \in BOOLEAN, PartFailed(w, b),
         req[w].pc \in {"up_check", "up_send", "up_record"}
  PROVE  ReqTyped'
<1>0. req[w] \in Request /\ req[w].id \in UploadIds /\ req[w].data \in Data
  BY DEF Typed, GoodRequest
<1>1. CASE b /\ req[w].tries > 0
  <2> DEFINE r == [req[w] EXCEPT !.pc = "up_check", !.tries = req[w].tries - 1]
  <2>1. req' = [req EXCEPT ![w] = r]
    BY <1>0, <1>1 DEF PartFailed, Typed, TypeOK, Request
  <2>2. req[w].tries \in 0..RetryCount
    BY <1>0 DEF Request
  <2>3. req[w].tries - 1 \in 0..RetryCount /\ "up_check" \in PCs
    BY <1>1, <2>2, RetryAssumption DEF PCs
  <2>4. r \in Request
    BY <1>0, <2>3, RequestUpdates
  <2>5. GoodRequest(r)
    BY <1>0, <2>4 DEF GoodRequest, Request
  <2> QED
    BY <2>1, <2>5, SetGood DEF ReqTyped
<1>2. CASE ~(b /\ req[w].tries > 0)
  BY <1>0, <1>2, PartDoneGood DEF PartFailed
<1> QED
  BY <1>1, <1>2

\* The end of one abort leaves the worker idle or with the rest of its sweep.
LEMMA AbortDoneGood ==
  ASSUME Typed, NEW w \in Workers, AbortDone(w)
  PROVE  ReqTyped'
<1>1. CASE req[w].victims = {}
  BY <1>1, IdleGood, SetGood DEF AbortDone, ReqTyped, Typed, TypeOK
<1>2. CASE req[w].victims # {}
  <2> DEFINE r == [Idle EXCEPT !.pc = "ab_pick", !.victims = req[w].victims, !.sweep = TRUE]
  <2>1. req' = [req EXCEPT ![w] = r]
    BY <1>2 DEF AbortDone, Typed, TypeOK
  <2>2. Idle \in Request /\ "ab_pick" \in PCs /\ req[w].victims \in SUBSET UploadIds
    BY IdleGood DEF GoodRequest, PCs, Typed, TypeOK, Request
  <2>3. r \in Request
    BY <2>2, RequestUpdates
  <2>4. GoodRequest(r)
    BY <2>2, <2>3 DEF GoodRequest, Idle
  <2> QED
    BY <2>1, <2>4, SetGood DEF ReqTyped
<1> QED
  BY <1>1, <1>2

\* Moving to another pc is well formed when the fields that pc needs are there.
LEMMA GotoGood ==
  ASSUME Typed, NEW w \in Workers, NEW p \in PCs \ {"init_create", "up_check"}, Goto(w, p),
         req[w].id \in UploadIds,
         p \in {"up_send", "up_record"} => req[w].data \in Data /\ req[w].n \in PartNumbers
  PROVE  ReqTyped'
<1> DEFINE r == [req[w] EXCEPT !.pc = p]
<1>1. req[w] \in Request
  BY DEF Typed, GoodRequest
<1>2. req' = [req EXCEPT ![w] = r]
  BY DEF Goto, Typed, TypeOK
<1>3. r \in Request
  BY <1>1, RequestUpdates
<1>4. GoodRequest(r)
  BY <1>1, <1>3 DEF GoodRequest, Request
<1> QED
  BY <1>2, <1>4, SetGood DEF ReqTyped

\* An operation that returns leaves its worker idle.
LEMMA ReturnGood ==
  ASSUME Typed, NEW w \in Workers, Return(w)
  PROVE  ReqTyped'
  BY IdleGood, SetGood DEF Return, ReqTyped

\* A request that starts from idle, with the fields its first pc needs.
LEMMA StartGood ==
  ASSUME Typed, NEW w \in Workers, NEW r \in Request, req' = [req EXCEPT ![w] = r],
         r.pc # "ab_pick" => r.id \in UploadIds,
         r.pc \notin {"up_send", "up_record"},
         r.pc = "up_check" => r.data \in Data,
         r.pc = "init_create" => r.total \in PartNumbers
  PROVE  ReqTyped'
<1>1. GoodRequest(r)
  BY DEF GoodRequest
<1> QED
  BY <1>1, SetGood DEF ReqTyped

\* The same for a crash, which makes every worker idle.
LEMMA CrashGood ==
  ASSUME req' = [w \in Workers |-> Idle]
  PROVE  ReqTyped'
<1>1. Idle \in Request
  BY IdleGood DEF GoodRequest
<1> QED
  BY <1>1, IdleGood DEF ReqTyped

\* Every step of every action leaves the requests of all workers well formed.
LEMMA ReqStep == Typed /\ [Next]_vars => ReqTyped'
<1> SUFFICES ASSUME Typed, [Next]_vars PROVE ReqTyped'
  OBVIOUS
<1>0. Idle \in Request /\ \A w \in Workers : req[w] \in Request /\ GoodRequest(req[w])
  BY IdleGood DEF GoodRequest, Typed
<1>1. ASSUME NEW w \in Workers, NEW u \in UploadIds, NEW total \in PartNumbers,
             InitProvider(w, u, total)
      PROVE  ReqTyped'
  <2>1. CASE UNCHANGED req
    BY <2>1 DEF ReqTyped, Typed, TypeOK
  <2>2. CASE req' = [req EXCEPT ![w] = [Idle EXCEPT !.pc = "init_create", !.id = u, !.total = total]]
    <3> DEFINE r == [Idle EXCEPT !.pc = "init_create", !.id = u, !.total = total]
    <3>1. total \in 0..MaxParts /\ "init_create" \in PCs
      BY MaxPartsAssumption DEF PartNumbers, PCs
    <3>2. r \in Request
      BY <1>0, <3>1, RequestUpdates
    <3>3. r.pc = "init_create" /\ r.id = u /\ r.total = total
      BY DEF Idle
    <3> HIDE DEF r
    <3> QED
      BY <2>2, <3>2, <3>3, StartGood DEF r
  <2> QED
    BY <1>1, <2>1, <2>2 DEF InitProvider
<1>2. ASSUME NEW w \in Workers, NEW u \in UploadIds, NEW n \in 0..MaxParts + 1, NEW d \in Data,
             NEW t \in Retries, UploadBegin(w, u, n, d, t)
      PROVE  ReqTyped'
  <2> DEFINE r == [Idle EXCEPT !.pc = "up_check", !.id = u, !.n = n, !.data = d, !.tries = t]
  <2>1. "up_check" \in PCs /\ t \in 0..RetryCount
    BY RetryAssumption DEF PCs, Retries
  <2>2. r \in Request
    BY <1>0, <2>1, RequestUpdates
  <2>3. r.pc = "up_check" /\ r.id = u /\ r.data = d
    BY DEF Idle
  <2>4. req' = [req EXCEPT ![w] = r]
    BY <1>2 DEF UploadBegin
  <2> HIDE DEF r
  <2> QED
    BY <2>2, <2>3, <2>4, StartGood
<1>3. ASSUME NEW w \in Workers, NEW u \in UploadIds,
             PendingBegin(w, u) \/ CompleteBegin(w, u)
      PROVE  ReqTyped'
  <2>1. PICK p \in {"pe_parts", "co_parts"} :
           /\ req' = [req EXCEPT ![w] = [Idle EXCEPT !.pc = p, !.id = u, !.total = uploads[u].total]]
           /\ HasRow(u)
    BY <1>3 DEF PendingBegin, CompleteBegin, IsUploading
  <2> DEFINE r == [Idle EXCEPT !.pc = p, !.id = u, !.total = uploads[u].total]
  <2>2. uploads[u].total \in 0..MaxParts /\ p \in PCs
    BY <2>1, MaxPartsAssumption DEF PCs, HasRow, Typed, TypeOK, DBTypeOK, UploadRow, PartNumbers
  <2>3. r \in Request
    BY <1>0, <2>2, RequestUpdates
  <2>4. r.pc = p /\ r.id = u
    BY DEF Idle
  <2> HIDE DEF r
  <2> QED
    BY <2>1, <2>3, <2>4, StartGood DEF r
<1>4. ASSUME NEW w \in Workers, NEW u \in UploadIds, AbortBegin(w, u) PROVE ReqTyped'
  <2> DEFINE r == [Idle EXCEPT !.pc = "ab_send", !.id = u]
  <2>1. "ab_send" \in PCs
    BY DEF PCs
  <2>2. r \in Request
    BY <1>0, <2>1, RequestUpdates
  <2>3. r.pc = "ab_send" /\ r.id = u
    BY DEF Idle
  <2>4. req' = [req EXCEPT ![w] = r]
    BY <1>4 DEF AbortBegin
  <2> HIDE DEF r
  <2> QED
    BY <2>2, <2>3, <2>4, StartGood
<1>5. ASSUME NEW w \in Workers, CleanupList(w) PROVE ReqTyped'
  <2> DEFINE V == stale_uploads
             r == [Idle EXCEPT !.pc = "ab_pick", !.victims = V, !.sweep = TRUE]
  <2>1. "ab_pick" \in PCs /\ V \in SUBSET UploadIds
    BY DEF PCs, stale_uploads, list_pending_multipart_uploads
  <2>2. req' = [req EXCEPT ![w] = r]
    BY <1>5 DEF CleanupList
  <2> HIDE DEF V
  <2>3. r \in Request
    BY <1>0, <2>1, RequestUpdates
  <2>4. r.pc = "ab_pick"
    BY DEF Idle
  <2> HIDE DEF r
  <2> QED
    BY <2>2, <2>3, <2>4, StartGood
<1>6. ASSUME NEW w \in Workers, NEW u \in UploadIds, CleanupNext(w, u) PROVE ReqTyped'
  <2> DEFINE rest == req[w].victims \ {u}
  <2>1. "ab_send" \in PCs /\ rest \in SUBSET UploadIds /\ req[w].pc = "ab_pick"
    BY <1>0, <1>6 DEF PCs, Request, CleanupNext, At
  <2>2. CASE HasRow(u)
    <3> DEFINE r == [req[w] EXCEPT !.pc = "ab_send", !.id = u, !.victims = rest]
    <3>1. req' = [req EXCEPT ![w] = r]
      BY <1>6, <2>2 DEF CleanupNext, Typed, TypeOK
    <3>2. r \in Request
      BY <1>0, <2>1, RequestUpdates
    <3>3. r.pc = "ab_send" /\ r.id = u
      BY <1>0 DEF Request
    <3> HIDE DEF r
    <3> QED
      BY <3>1, <3>2, <3>3, StartGood
  <2>3. CASE ~HasRow(u) /\ rest = {}
    BY <1>6, <2>3, IdleGood, SetGood DEF CleanupNext, ReqTyped
  <2>4. CASE ~HasRow(u) /\ rest # {}
    <3> DEFINE r == [req[w] EXCEPT !.victims = rest]
    <3>1. req' = [req EXCEPT ![w] = r]
      BY <1>6, <2>4 DEF CleanupNext, Typed, TypeOK
    <3>2. r \in Request
      BY <1>0, <2>1, RequestUpdates
    <3>3. r.pc = "ab_pick"
      BY <1>0, <2>1 DEF Request
    <3> HIDE DEF r
    <3> QED
      BY <3>1, <3>2, <3>3, StartGood
  <2> QED
    BY <2>2, <2>3, <2>4
<1>7. ASSUME NEW w \in Workers, UploadCheck(w) PROVE ReqTyped'
  <2>1. req[w].pc = "up_check" /\ req[w].id \in UploadIds /\ req[w].data \in Data
    BY <1>0, <1>7 DEF UploadCheck, At, GoodRequest
  <2>2. CASE IsUploading(req[w].id) /\ req[w].n >= 1 /\ req[w].n <= uploads[req[w].id].total
    <3>1. uploads[req[w].id].total \in 1..MaxParts /\ req[w].n \in 0..MaxParts + 1
      BY <1>0, <2>1, <2>2
      DEF IsUploading, HasRow, Typed, TypeOK, DBTypeOK, UploadRow, PartNumbers, Request
    <3>2. req[w].n \in PartNumbers
      BY <2>2, <3>1, MaxPartsAssumption DEF PartNumbers
    <3>3. "up_send" \in PCs \ {"init_create", "up_check"}
      BY DEF PCs
    <3> QED
      BY <1>7, <2>1, <2>2, <3>2, <3>3, GotoGood DEF UploadCheck
  <2>3. CASE ~(IsUploading(req[w].id) /\ req[w].n >= 1 /\ req[w].n <= uploads[req[w].id].total)
    BY <1>7, <2>1, <2>3, PartFailedGood DEF UploadCheck
  <2> QED
    BY <2>2, <2>3
<1>8. ASSUME NEW w \in Workers, UploadSend(w) PROVE ReqTyped'
  <2>1. req[w].id \in UploadIds /\ req[w].data \in Data /\ req[w].n \in PartNumbers
    BY <1>0, <1>8 DEF UploadSend, At, GoodRequest
  <2>2. "up_record" \in PCs \ {"init_create", "up_check"}
    BY DEF PCs
  <2> QED
    BY <1>8, <2>1, <2>2, GotoGood DEF UploadSend
<1>9. ASSUME NEW w \in Workers, UploadSendFails(w) \/ UploadTears(w) PROVE ReqTyped'
  <2>1. UNCHANGED req \/ \E b \in BOOLEAN : PartFailed(w, b)
    BY <1>9 DEF UploadSendFails, UploadTears
  <2>2. CASE UNCHANGED req
    BY <1>0, <2>2 DEF ReqTyped, Typed, TypeOK, GoodRequest
  <2>3. CASE \E b \in BOOLEAN : PartFailed(w, b)
    BY <1>9, <2>3, PartFailedGood DEF UploadSendFails, UploadTears, At
  <2> QED
    BY <2>1, <2>2, <2>3
<1>10. ASSUME NEW w \in Workers, UploadRecord(w) PROVE ReqTyped'
  BY <1>0, <1>10, PartDoneGood DEF UploadRecord, At, GoodRequest
<1>11. ASSUME NEW w \in Workers, PendingParts(w) PROVE ReqTyped'
  <2> DEFINE pending == get_pending_parts(req[w].total, parts[req[w].id])
             r == [Idle EXCEPT !.pc = "pick", !.id = req[w].id, !.todo = pending]
  <2>1. req[w].id \in UploadIds /\ req[w].total \in 0..MaxParts
    BY <1>0, <1>11 DEF PendingParts, At, GoodRequest, Request
  <2>2. pending \in SUBSET PartNumbers /\ "pick" \in PCs
    BY <2>1, MaxPartsAssumption DEF PartNumbers, PCs, get_pending_parts
  <2>3. req' = [req EXCEPT ![w] = IF pending = {} THEN Idle ELSE r]
    BY <1>11 DEF PendingParts, Typed, TypeOK
  <2> HIDE DEF pending
  <2>4. r \in Request
    BY <1>0, <2>1, <2>2, RequestUpdates
  <2>5. r.pc = "pick" /\ r.id = req[w].id
    BY DEF Idle
  <2> HIDE DEF r
  <2>6. CASE pending = {}
    BY <2>3, <2>6, IdleGood, SetGood DEF ReqTyped
  <2>7. CASE pending # {}
    BY <2>1, <2>3, <2>4, <2>5, <2>7, StartGood
  <2> QED
    BY <2>6, <2>7
<1>12. ASSUME NEW w \in Workers, NEW n \in PartNumbers, NEW d \in Data, PickPending(w, n, d)
       PROVE  ReqTyped'
  <2> DEFINE r == [req[w] EXCEPT !.pc = "up_check", !.n = n, !.data = d, !.todo = req[w].todo \ {n},
                                 !.tries = RetryCount]
  <2>1. /\ req[w].id \in UploadIds
        /\ req[w].todo \ {n} \in SUBSET PartNumbers
        /\ n \in 0..MaxParts + 1
        /\ RetryCount \in 0..RetryCount
        /\ "up_check" \in PCs
    BY <1>0, <1>12, MaxPartsAssumption, RetryAssumption
    DEF PickPending, At, GoodRequest, Request, PCs, PartNumbers
  <2>2. req' = [req EXCEPT ![w] = r]
    BY <1>0, <1>12 DEF PickPending, Typed, TypeOK, Request
  <2>3. r \in Request
    BY <1>0, <2>1, RequestUpdates
  <2>4. r.pc = "up_check" /\ r.id = req[w].id /\ r.data = d
    BY <1>0 DEF Request
  <2> HIDE DEF r
  <2> QED
    BY <2>1, <2>2, <2>3, <2>4, StartGood
<1>13. ASSUME NEW w \in Workers, NEW n \in PartNumbers, PickFails(w, n) PROVE ReqTyped'
  <2> DEFINE rest == req[w].todo \ {n}
             r == [req[w] EXCEPT !.todo = rest]
  <2>1. req[w].id \in UploadIds /\ rest \in SUBSET PartNumbers /\ req[w].pc = "pick"
    BY <1>0, <1>13 DEF PickFails, At, GoodRequest, Request
  <2>2. req' = [req EXCEPT ![w] = IF rest = {} THEN Idle ELSE r]
    BY <1>13 DEF PickFails, Typed, TypeOK
  <2>3. r \in Request
    BY <1>0, <2>1, RequestUpdates
  <2>4. r.pc = "pick" /\ r.id = req[w].id
    BY <1>0, <2>1 DEF Request
  <2> HIDE DEF r
  <2>5. CASE rest = {}
    BY <2>2, <2>5, IdleGood, SetGood DEF ReqTyped
  <2>6. CASE rest # {}
    BY <2>1, <2>2, <2>3, <2>4, <2>6, StartGood
  <2> QED
    BY <2>5, <2>6
<1>14. ASSUME NEW w \in Workers, CompleteParts(w) PROVE ReqTyped'
  <2> DEFINE rows == parts[req[w].id]
             r == [req[w] EXCEPT !.pc = "co_send", !.rows = rows]
  <2>1. req[w].id \in UploadIds /\ rows \in PartRows /\ "co_send" \in PCs
    BY <1>0, <1>14 DEF CompleteParts, At, GoodRequest, Typed, TypeOK, DBTypeOK, PCs
  <2>2. Return(w) \/ req' = [req EXCEPT ![w] = r]
    BY <1>0, <1>14 DEF CompleteParts, Typed, TypeOK, Request
  <2>3. r \in Request
    BY <1>0, <2>1, RequestUpdates
  <2>4. r.pc = "co_send" /\ r.id = req[w].id
    BY <1>0, <2>1 DEF Request
  <2> HIDE DEF r
  <2> QED
    BY <2>1, <2>2, <2>3, <2>4, StartGood, ReturnGood
<1>15. ASSUME NEW w \in Workers, CompleteSend(w) \/ CompleteStatus(w) \/ AbortSend(w)
                                  \/ AbortStatus(w) \/ AbortParts(w)
       PROVE  ReqTyped'
  <2>1. req[w].id \in UploadIds
    BY <1>0, <1>15
    DEF CompleteSend, CompleteStatus, AbortSend, AbortStatus, AbortParts, At, GoodRequest
  <2>2. \/ Return(w)
        \/ \E p \in {"co_status", "co_file", "ab_status", "ab_parts", "ab_row"} : Goto(w, p)
    BY <1>15 DEF CompleteSend, CompleteStatus, AbortSend, AbortStatus, AbortParts
  <2>3. {"co_status", "co_file", "ab_status", "ab_parts", "ab_row"}
            \subseteq PCs \ {"init_create", "up_check", "up_send", "up_record"}
    BY DEF PCs
  <2> QED
    BY <2>1, <2>2, <2>3, GotoGood, ReturnGood
<1>16. ASSUME NEW w \in Workers, InitCreate(w) \/ CompleteSendFails(w) \/ CompleteFile(w)
       PROVE  ReqTyped'
  BY <1>16, ReturnGood DEF InitCreate, CompleteSendFails, CompleteFile
<1>17. ASSUME NEW w \in Workers, AbortRow(w) PROVE ReqTyped'
  BY <1>17, AbortDoneGood DEF AbortRow
<1>18. ASSUME NEW w \in Workers, StatementFails(w) PROVE ReqTyped'
  BY <1>18, ReturnGood, PartFailedGood, AbortDoneGood DEF StatementFails
<1>19. ASSUME Crash \/ \E w \in Workers : CrashInComplete(w) PROVE ReqTyped'
  BY <1>19, CrashGood DEF Crash, CrashInComplete
<1>20. ASSUME UNCHANGED req PROVE ReqTyped'
  BY <1>20 DEF ReqTyped, Typed, TypeOK
<1> QED
  BY <1>1, <1>2, <1>3, <1>4, <1>5, <1>6, <1>7, <1>8, <1>9, <1>10, <1>11, <1>12, <1>13, <1>14,
     <1>15, <1>16, <1>17, <1>18, <1>19, <1>20
  DEF Next, Step, Begin, Age, vars

HistTyped ==
    /\ faults \in 0..MaxFaults
    /\ born \in [UploadIds -> 0..MaxParts]
    /\ recorded \in SUBSET (UploadIds \X PartNumbers \X ETags)
    /\ confirmed \in [UploadIds -> 0..MaxParts]
    /\ cancelled \in SUBSET UploadIds
    /\ spoiled \in [UploadIds -> SUBSET PartNumbers]

\* The actions that leave the tables, the provider and the histories alone.
LEMMA QuietTyped ==
  ASSUME Typed, UNCHANGED <<dbVars, storeVars, histVars>>, NoFault \/ \E k \in FaultKinds : Fault(k)
  PROVE  DBTypeOK' /\ StoreTypeOK' /\ HistTyped'
  BY FaultsAssumption
  DEF Typed, TypeOK, DBTypeOK, StoreTypeOK, HistTyped, dbVars, storeVars, histVars, NoFault, Fault

\* The fault counter stays within its bound, fault or not.
LEMMA FaultTyped ==
  ASSUME Typed, NoFault \/ \E k \in FaultKinds : Fault(k)
  PROVE  faults' \in 0..MaxFaults
  BY FaultsAssumption DEF Typed, TypeOK, NoFault, Fault

\* Every step keeps the types of the tables, the provider and the histories.
LEMMA StateStep == Typed /\ [Next]_vars => DBTypeOK' /\ StoreTypeOK' /\ HistTyped'
<1> SUFFICES ASSUME Typed, [Next]_vars PROVE DBTypeOK' /\ StoreTypeOK' /\ HistTyped'
  OBVIOUS
<1> DEFINE Goal == DBTypeOK' /\ StoreTypeOK' /\ HistTyped'
<1>0. /\ DBTypeOK /\ StoreTypeOK /\ HistTyped
      /\ \A w \in Workers : req[w] \in Request /\ GoodRequest(req[w])
  BY DEF Typed, TypeOK, HistTyped, GoodRequest
<1>1. ASSUME NEW w \in Workers, NEW u \in UploadIds, NEW total \in PartNumbers,
             InitProvider(w, u, total)
      PROVE  Goal
  <2>1. faults' \in 0..MaxFaults
    BY <1>1, FaultTyped DEF InitProvider, FaultKinds
  <2> QED
    BY <1>0, <1>1, <2>1
    DEF InitProvider, provider_init_multipart, dbVars, histVars, DBTypeOK, StoreTypeOK, HistTyped
<1>2. ASSUME NEW w \in Workers, InitCreate(w) PROVE Goal
  <2>1. req[w].id \in UploadIds /\ req[w].total \in PartNumbers /\ faults' \in 0..MaxFaults
    BY <1>0, <1>2, FaultTyped DEF InitCreate, At, GoodRequest
  <2>2. req[w].total \in 0..MaxParts
    BY <2>1, MaxPartsAssumption DEF PartNumbers
  <2>3. [status |-> "uploading", total |-> req[w].total] \in UploadRow
    BY <2>1 DEF UploadRow, Statuses
  <2> QED
    BY <1>0, <1>2, <2>1, <2>2, <2>3
    DEF InitCreate, create_multipart_upload, storeVars, DBTypeOK, StoreTypeOK, HistTyped
<1>3. ASSUME NEW w \in Workers, UploadSend(w) \/ UploadTears(w) \/ UploadSendFails(w) PROVE Goal
  <2>1. /\ req[w].id \in UploadIds /\ req[w].data \in Stored /\ Torn \in Stored
        /\ req[w].n \in PartNumbers
    BY <1>0, <1>3 DEF UploadSend, UploadTears, UploadSendFails, At, GoodRequest, Stored
  <2>2. faults' \in 0..MaxFaults
    BY <1>3, FaultTyped DEF UploadSend, UploadTears, UploadSendFails, FaultKinds
  <2>3. UNCHANGED storeVars \/ \E d \in Stored : provider_upload_part(req[w].id, req[w].n, d)
    BY <1>3, <2>1 DEF UploadSend, UploadTears, UploadSendFails
  <2>4. StoreTypeOK'
    <3>1. CASE UNCHANGED storeVars
      BY <1>0, <3>1 DEF StoreTypeOK, storeVars
    <3>2. ASSUME NEW d \in Stored, provider_upload_part(req[w].id, req[w].n, d)
          PROVE  StoreTypeOK'
      <4> DEFINE row == [partData[req[w].id] EXCEPT ![req[w].n] = d]
      <4>1. partData' = [partData EXCEPT ![req[w].id] = row]
        BY <3>2 DEF provider_upload_part
      <4>2. row \in Content
        BY <1>0, <2>1 DEF StoreTypeOK, Content
      <4> HIDE DEF row
      <4> QED
        BY <1>0, <3>2, <4>1, <4>2 DEF StoreTypeOK, provider_upload_part
    <3> QED
      BY <2>3, <3>1, <3>2
  <2>5. spoiled' \in [UploadIds -> SUBSET PartNumbers]
    <3>1. \/ spoiled' = spoiled
          \/ spoiled' = [spoiled EXCEPT ![req[w].id] = @ \ {req[w].n}]
          \/ spoiled' = [spoiled EXCEPT ![req[w].id] = @ \cup {req[w].n}]
      BY <1>3 DEF UploadSend, UploadTears, UploadSendFails, histVars
    <3> QED
      BY <1>0, <2>1, <3>1 DEF HistTyped
  <2> QED
    BY <1>0, <1>3, <2>2, <2>4, <2>5
    DEF UploadSend, UploadTears, UploadSendFails, dbVars, histVars, DBTypeOK, HistTyped
<1>4. ASSUME NEW w \in Workers, UploadRecord(w) PROVE Goal
  <2>1. req[w].id \in UploadIds /\ req[w].data \in Data /\ req[w].n \in PartNumbers
    BY <1>0, <1>4 DEF UploadRecord, At, GoodRequest
  <2>2. faults' \in 0..MaxFaults
    BY <1>4, FaultTyped DEF UploadRecord, FaultKinds
  <2>3. ETag(req[w].data) \in ETags
    BY <2>1 DEF ETag, ETags
  <2>4. DBTypeOK'
    BY <1>0, <1>4, <2>1, <2>3 DEF UploadRecord, record_uploaded_part, DBTypeOK, PartRows
  <2> QED
    BY <1>0, <1>4, <2>1, <2>2, <2>3, <2>4
    DEF UploadRecord, storeVars, StoreTypeOK, HistTyped
<1>5. ASSUME NEW w \in Workers, CompleteSend(w) \/ CompleteSendFails(w) \/ AbortSend(w) PROVE Goal
  <2>1. req[w].id \in UploadIds
    BY <1>0, <1>5 DEF CompleteSend, CompleteSendFails, AbortSend, At, GoodRequest
  <2>2. faults' \in 0..MaxFaults
    BY <1>5, FaultTyped DEF CompleteSend, CompleteSendFails, AbortSend, FaultKinds
  <2>3. Empty \in Content /\ Assembled(req[w].id, req[w].rows) \in Content
    BY <1>0, <2>1 DEF Empty, Content, Assembled, StoreTypeOK, PartNumbers
  <2>4. StoreTypeOK'
    BY <1>0, <1>5, <2>1, <2>3
    DEF CompleteSend, CompleteSendFails, AbortSend, provider_complete_multipart,
        provider_abort_multipart, close_session, storeVars, StoreTypeOK
  <2> QED
    BY <1>0, <1>5, <2>2, <2>4
    DEF CompleteSend, CompleteSendFails, AbortSend, dbVars, histVars, DBTypeOK, HistTyped
<1>6. ASSUME NEW w \in Workers, CompleteStatus(w) \/ AbortStatus(w) PROVE Goal
  <2>1. req[w].id \in UploadIds /\ faults' \in 0..MaxFaults
    BY <1>0, <1>6, FaultTyped DEF CompleteStatus, AbortStatus, At, GoodRequest
  <2>2. PICK s \in Statuses : update_multipart_status(req[w].id, s)
    BY <1>6 DEF CompleteStatus, AbortStatus, Statuses
  <2>3. HasRow(req[w].id) => [uploads[req[w].id] EXCEPT !.status = s] \in UploadRow
    BY <1>0, <2>1 DEF DBTypeOK, HasRow, UploadRow
  <2>4. DBTypeOK'
    BY <1>0, <2>1, <2>2, <2>3 DEF update_multipart_status, DBTypeOK
  <2> QED
    BY <1>0, <1>6, <2>1, <2>4
    DEF CompleteStatus, AbortStatus, storeVars, histVars, StoreTypeOK, HistTyped
<1>7. ASSUME NEW w \in Workers, CompleteFile(w) PROVE Goal
  <2>1. req[w].id \in UploadIds /\ req[w].total \in 0..MaxParts
    BY <1>0, <1>7 DEF CompleteFile, At, GoodRequest, Request
  <2>2. faults' \in 0..MaxFaults
    BY <1>7, FaultTyped DEF CompleteFile, FaultKinds
  <2> QED
    BY <1>0, <1>7, <2>1, <2>2
    DEF CompleteFile, insert_file, dbVars, storeVars, DBTypeOK, StoreTypeOK, HistTyped
<1>8. ASSUME NEW w \in Workers, AbortParts(w) \/ AbortRow(w) PROVE Goal
  <2>1. req[w].id \in UploadIds /\ faults' \in 0..MaxFaults
    BY <1>0, <1>8, FaultTyped DEF AbortParts, AbortRow, At, GoodRequest
  <2>2. NoParts \in PartRows
    BY DEF NoParts, PartRows
  <2>3. DBTypeOK'
    BY <1>0, <1>8, <2>1, <2>2
    DEF AbortParts, AbortRow, delete_part_rows, delete_upload_row, DBTypeOK
  <2> QED
    BY <1>0, <1>8, <2>1, <2>3
    DEF AbortParts, AbortRow, storeVars, histVars, StoreTypeOK, HistTyped
<1>9. ASSUME NEW u \in UploadIds, Age(u) PROVE Goal
  BY <1>0, <1>9 DEF Age, storeVars, histVars, DBTypeOK, StoreTypeOK, HistTyped
<1>10. ASSUME Crash PROVE Goal
  <2>1. faults' \in 0..MaxFaults
    BY <1>10, FaultTyped DEF Crash, FaultKinds
  <2> QED
    BY <1>0, <1>10, <2>1
    DEF Crash, provider_restart, dbVars, histVars, DBTypeOK, StoreTypeOK, HistTyped
<1>11. ASSUME NEW w \in Workers, CrashInComplete(w) PROVE Goal
  <2>1. req[w].id \in UploadIds /\ faults' \in 0..MaxFaults
    BY <1>0, <1>11, FaultTyped DEF CrashInComplete, At, GoodRequest, FaultKinds
  <2>2. Assembled(req[w].id, req[w].rows) \in Content
    BY <1>0, <2>1 DEF Content, Assembled, StoreTypeOK, PartNumbers
  <2> QED
    BY <1>0, <1>11, <2>1, <2>2
    DEF CrashInComplete, dbVars, histVars, DBTypeOK, StoreTypeOK, HistTyped
<1>12. ASSUME UNCHANGED <<dbVars, storeVars, histVars>>, NoFault \/ \E k \in FaultKinds : Fault(k)
       PROVE  Goal
  BY <1>12, QuietTyped
<1>13. ASSUME UNCHANGED vars PROVE Goal
  BY <1>0, <1>13 DEF vars, dbVars, storeVars, histVars, DBTypeOK, StoreTypeOK, HistTyped
<1>14. ASSUME NEW w \in Workers,
              \/ UploadCheck(w) \/ PendingParts(w) \/ CompleteParts(w) \/ CleanupList(w)
              \/ StatementFails(w)
              \/ \E n \in PartNumbers : PickFails(w, n) \/ \E d \in Data : PickPending(w, n, d)
              \/ \E u \in UploadIds : CleanupNext(w, u) \/ PendingBegin(w, u)
                                       \/ CompleteBegin(w, u) \/ AbortBegin(w, u)
              \/ \E u \in UploadIds, n \in 0..MaxParts + 1, d \in Data, t \in Retries :
                    UploadBegin(w, u, n, d, t)
       PROVE  Goal
  BY <1>12, <1>14
  DEF UploadCheck, PendingParts, CompleteParts, CleanupList, StatementFails, PickFails,
      PickPending, CleanupNext, PendingBegin, CompleteBegin, AbortBegin, UploadBegin, FaultKinds
<1> HIDE DEF Goal
<1>15. Goal
  BY <1>1, <1>2, <1>3, <1>4, <1>5, <1>6, <1>7, <1>8, <1>9, <1>10, <1>11, <1>13, <1>14
  DEF Next, Step, Begin
<1> QED
  BY <1>15 DEF Goal

\* The initial states are well typed.
LEMMA TypedInit == Init => Typed
<1> SUFFICES ASSUME Init PROVE Typed
  OBVIOUS
<1>1. Idle \in Request /\ GoodRequest(Idle)
  BY IdleGood DEF GoodRequest
<1>2. req \in [Workers -> Request] /\ \A w \in Workers : GoodRequest(req[w])
  BY <1>1 DEF Init
<1>3. DBTypeOK /\ StoreTypeOK
  BY DEF Init, DBInit, StoreInit, DBTypeOK, StoreTypeOK, PartRows, NoParts, Empty, Content
<1> QED
  BY <1>2, <1>3, FaultsAssumption, MaxPartsAssumption DEF Init, Typed, TypeOK

\* Well-typed states have only well-typed successors.
LEMMA TypedStep == Typed /\ [Next]_vars => Typed'
  BY ReqStep, StateStep DEF Typed, TypeOK, ReqTyped, HistTyped

(***************************************************************************)
(* Type correctness: no interleaving, fault or restart takes a table, a    *)
(* session, an object or a request outside its type.                       *)
(***************************************************************************)
THEOREM TypeCorrect == Spec => []TypeOK
<1>1. Init => Typed
  BY TypedInit
<1>2. Typed /\ [Next]_vars => Typed'
  BY TypedStep
<1>3. Typed => TypeOK
  BY DEF Typed
<1> QED
  BY <1>1, <1>2, <1>3, PTL DEF Spec

----------------------------------------------------------------------------
(* Safety *)

\* An id's row is created once, by one worker, and its total never changes;
\* part rows and requests in flight stay within that total even after the
\* row is gone.
BirthOf(u) ==
    /\ session[u] = "none" => born[u] = 0
    /\ u \in known => session[u] = "open"
    /\ born[u] = 0 => ~HasRow(u)
    /\ HasRow(u) => uploads[u].total = born[u]
    /\ Recorded(parts[u]) \subseteq 1..born[u]

Creating(w, u) == req[w].pc = "init_create" /\ req[w].id = u

RequestOf(w) ==
    /\ req[w].pc = "init_create" => born[req[w].id] = 0 /\ session[req[w].id] # "none"
    /\ req[w].pc \in {"up_send", "up_record"} => req[w].n \in 1..born[req[w].id]
    /\ req[w].pc \in {"co_parts", "co_send", "co_status", "co_file"} =>
          req[w].total = born[req[w].id] /\ born[req[w].id] > 0
    /\ req[w].pc = "co_send" => Recorded(req[w].rows) = 1..req[w].total

OneCreator == \A u \in UploadIds : \A v, w \in Workers : Creating(v, u) /\ Creating(w, u) => v = w

BirthInv ==
    /\ \A u \in UploadIds : BirthOf(u)
    /\ \A w \in Workers : RequestOf(w)
    /\ OneCreator

\* Whoever relies on an upload finds its object whole and its session closed,
\* so that nothing can write the object again.
ReliedSafe == \A u \in UploadIds :
    Relied(u) => born[u] > 0 /\ Whole(objects[u], born[u], spoiled[u]) /\ session[u] = "closed"

CompletionInv == ReliedSafe /\ OneCompletion

\* A half-written part file belongs to the local provider, and to a part that
\* does not count yet or is known to be spoiled.
TornInv == \A u \in UploadIds, n \in PartNumbers :
    partData[u][n] = Torn => ~Cloud /\ (Counted(u, n) => n \in spoiled[u])

IInv == Typed /\ BirthInv /\ CompletionInv /\ TornInv

\* A worker's step touches no other worker's request.
Frame(w) == \A v \in Workers \ {w} : req'[v] = req[v]

\* Program points at which a request holds nothing the invariant speaks of.
Harmless == {"idle", "pick", "up_check", "pe_parts", "ab_pick", "ab_send", "ab_status",
             "ab_parts", "ab_row"}

Calm(w) == Frame(w) /\ req'[w].pc \in Harmless

\* A move of one worker that does not enter the completion changes nobody's
\* reliance on an object.
LEMMA CalmMoves ==
  ASSUME Typed, NEW w \in Workers
  PROVE  /\ Return(w) => Calm(w)
         /\ PartDone(w) => Calm(w)
         /\ \A b \in BOOLEAN : PartFailed(w, b) => Calm(w)
         /\ AbortDone(w) => Calm(w)
         /\ \A p \in Harmless : Goto(w, p) => Calm(w)
<1>0. req \in [Workers -> Request] /\ req[w] \in Request
  BY DEF Typed, TypeOK
<1>1. Return(w) => Calm(w)
  BY <1>0 DEF Return, Calm, Frame, Harmless, Idle
<1>2. PartDone(w) => Calm(w)
  BY <1>0 DEF PartDone, Calm, Frame, Harmless, Idle
<1>3. ASSUME NEW b \in BOOLEAN, PartFailed(w, b) PROVE Calm(w)
  <2>1. CASE b /\ req[w].tries > 0
    BY <1>0, <1>3, <2>1 DEF PartFailed, Calm, Frame, Harmless, Request
  <2>2. CASE ~(b /\ req[w].tries > 0)
    BY <1>2, <1>3, <2>2 DEF PartFailed
  <2> QED
    BY <2>1, <2>2
<1>4. AbortDone(w) => Calm(w)
  BY <1>0 DEF AbortDone, Calm, Frame, Harmless, Idle
<1>5. ASSUME NEW p \in Harmless, Goto(w, p) PROVE Calm(w)
  BY <1>0, <1>5 DEF Goto, Calm, Frame, Request
<1> QED
  BY <1>1, <1>2, <1>3, <1>4, <1>5

\* The part of the state the invariant depends on, besides the requests.
core == <<uploads, parts, files, session, known, objects, born, confirmed, spoiled>>

\* A step that leaves tables, provider and histories alone, and only moves
\* workers calmly, keeps the invariant.
LEMMA CalmStep ==
  ASSUME IInv, NEW w \in Workers, Calm(w), UNCHANGED core
  PROVE  BirthInv' /\ CompletionInv'
<1> USE DEF IInv, Calm, Frame, Harmless, core
<1>1. BirthInv'
  BY DEF BirthInv, BirthOf, RequestOf, OneCreator, Creating, HasRow
<1>2. \A u \in UploadIds : \A v \in Workers : Completing(v, u)' => Completing(v, u)
  BY DEF Completing
<1>3. CompletionInv'
  BY <1>2 DEF CompletionInv, ReliedSafe, Relied, OneCompletion, HasRow
<1> QED
  BY <1>1, <1>3

\* A step that leaves every request alone keeps what the requests promise.
LEMMA SameRequests ==
  ASSUME IInv, UNCHANGED req, UNCHANGED core
  PROVE  BirthInv' /\ CompletionInv'
  BY DEF IInv, core, BirthInv, BirthOf, RequestOf, OneCreator, Creating, HasRow,
         CompletionInv, ReliedSafe, Relied, OneCompletion, Completing

\* init_multipart: a fresh session, then the one row it ever gets.
LEMMA InitProviderInv ==
  ASSUME IInv, NEW w \in Workers, NEW u \in UploadIds, NEW total \in PartNumbers,
         InitProvider(w, u, total)
  PROVE  BirthInv' /\ CompletionInv'
<1>0. /\ req \in [Workers -> Request] /\ session \in [UploadIds -> {"none", "open", "closed"}]
      /\ known \subseteq UploadIds
      /\ BirthInv /\ CompletionInv
  BY DEF IInv, Typed, TypeOK, StoreTypeOK
<1>1. /\ session[u] = "none" /\ session' = [session EXCEPT ![u] = "open"]
      /\ known' = known \cup {u}
      /\ UNCHANGED <<uploads, parts, files, objects, born, confirmed, spoiled>>
      /\ Frame(w)
      /\ req'[w] = req[w] \/ Creating(w, u)'
  BY <1>0 DEF InitProvider, provider_init_multipart, dbVars, histVars, Frame, Creating, Idle
<1>2. \A v \in Workers : ~Creating(v, u)
  BY <1>0, <1>1 DEF BirthInv, RequestOf, Creating
<1>3. \A x \in UploadIds : \A v \in Workers : Completing(v, x)' => Completing(v, x)
  BY <1>1 DEF Completing, Creating, Frame
<1>4. BirthInv'
  <2>1. ASSUME NEW x \in UploadIds PROVE BirthOf(x)'
    BY <1>0, <1>1 DEF BirthInv, BirthOf, HasRow
  <2>2. ASSUME NEW v \in Workers PROVE RequestOf(v)'
    <3>1. CASE req'[v] = req[v]
      BY <1>0, <1>1, <3>1 DEF BirthInv, RequestOf
    <3>2. CASE v = w /\ Creating(w, u)'
      BY <1>0, <1>1, <3>2 DEF BirthInv, BirthOf, RequestOf, Creating
    <3> QED
      BY <1>1, <3>1, <3>2 DEF Frame
  <2>3. OneCreator'
    BY <1>0, <1>1, <1>2 DEF BirthInv, OneCreator, Creating, Frame
  <2> QED
    BY <2>1, <2>2, <2>3 DEF BirthInv
<1>5. CompletionInv'
  BY <1>0, <1>1, <1>3 DEF CompletionInv, ReliedSafe, Relied, OneCompletion, HasRow
<1> QED
  BY <1>4, <1>5

\* The one row of an upload is created with its total, before anybody relies on it.
LEMMA InitCreateInv ==
  ASSUME IInv, NEW w \in Workers, InitCreate(w)
  PROVE  BirthInv' /\ CompletionInv'
<1> DEFINE u == req[w].id
<1>0. /\ uploads \in [UploadIds -> UploadRow \cup {None}] /\ born \in [UploadIds -> 0..MaxParts]
      /\ BirthInv /\ CompletionInv /\ Typed
  BY DEF IInv, Typed, TypeOK, DBTypeOK
<1>1. /\ uploads' = [uploads EXCEPT ![u] = [status |-> "uploading", total |-> req[w].total]]
      /\ born' = [born EXCEPT ![u] = req[w].total]
      /\ UNCHANGED <<parts, files, session, known, objects, confirmed, spoiled>>
      /\ Calm(w) /\ Creating(w, u)
  BY <1>0, CalmMoves DEF InitCreate, create_multipart_upload, storeVars, Creating, At
<1>2. u \in UploadIds /\ req[w].total \in PartNumbers
  BY <1>0, <1>1 DEF Typed, GoodRequest, Creating
<1>3. born[u] = 0 /\ session[u] # "none" /\ ~HasRow(u) /\ Recorded(parts[u]) = {}
  <2>1. born[u] = 0 /\ session[u] # "none"
    BY <1>0, <1>1 DEF BirthInv, RequestOf, Creating
  <2>2. ~HasRow(u) /\ Recorded(parts[u]) \subseteq 1..0
    BY <1>0, <1>2, <2>1 DEF BirthInv, BirthOf
  <2>3. 1..0 = {}
    OBVIOUS
  <2> QED
    BY <2>1, <2>2, <2>3
<1>4. req[w].total > 0 /\ req[w].total \in Nat
  BY <1>2, MaxPartsAssumption DEF PartNumbers
<1>5. \A v \in Workers \ {w} : ~Creating(v, u)
  BY <1>0, <1>1, <1>2 DEF BirthInv, OneCreator
<1>6. BirthInv'
  <2>1. ASSUME NEW x \in UploadIds PROVE BirthOf(x)'
    <3>1. CASE x = u
      BY <1>0, <1>1, <1>2, <1>3, <1>4, <3>1 DEF BirthInv, BirthOf, HasRow
    <3>2. CASE x # u
      BY <1>0, <1>1, <3>2 DEF BirthInv, BirthOf, HasRow
    <3> QED
      BY <3>1, <3>2
  <2>2. ASSUME NEW v \in Workers PROVE RequestOf(v)'
    <3>1. CASE v = w
      BY <1>1, <3>1 DEF RequestOf, Calm, Harmless
    <3>2. CASE v # w
      <4>1. req'[v] = req[v]
        BY <1>1, <3>2 DEF Calm, Frame
      <4>2. req[v].pc \in {"init_create", "up_send", "up_record", "co_parts", "co_send",
                            "co_status", "co_file"} => req[v].id \in UploadIds /\ req[v].id # u
        BY <1>0, <1>3, <1>5, <3>2 DEF BirthInv, RequestOf, Creating, Typed, GoodRequest
      <4> QED
        BY <1>0, <1>1, <4>1, <4>2 DEF BirthInv, RequestOf
    <3> QED
      BY <3>1, <3>2
  <2>3. OneCreator'
    BY <1>0, <1>1 DEF BirthInv, OneCreator, Creating, Calm, Frame, Harmless
  <2> QED
    BY <2>1, <2>2, <2>3 DEF BirthInv
<1>7. CompletionInv'
  <2>1. \A x \in UploadIds : \A v \in Workers : Completing(v, x)' => Completing(v, x)
    BY <1>1 DEF Completing, Calm, Frame, Harmless
  <2>2. ~Relied(u)
    BY <1>0, <1>2, <1>3 DEF CompletionInv, ReliedSafe
  <2>3. ASSUME NEW x \in UploadIds, Relied(x)' PROVE Relied(x) /\ x # u
    BY <1>0, <1>1, <1>2, <2>1, <2>2, <2>3 DEF Relied, HasRow
  <2>4. ReliedSafe'
    BY <1>0, <1>1, <2>3 DEF CompletionInv, ReliedSafe
  <2> QED
    BY <1>0, <1>1, <2>1, <2>4 DEF CompletionInv, OneCompletion
<1> QED
  BY <1>6, <1>7

\* A step of w that only moves it to another program point, with what that
\* point requires of the request.
LEMMA MoveStep ==
  ASSUME IInv, NEW w \in Workers, Frame(w), UNCHANGED core, RequestOf(w)',
         req'[w].pc \notin {"init_create", "co_status", "co_file"}
  PROVE  BirthInv' /\ CompletionInv'
<1>1. \A u \in UploadIds : BirthOf(u)'
  BY DEF IInv, core, BirthInv, BirthOf, HasRow
<1>2. \A v \in Workers : RequestOf(v)'
  BY DEF IInv, core, BirthInv, RequestOf, Frame
<1>3. OneCreator'
  BY DEF IInv, BirthInv, OneCreator, Creating, Frame
<1>4. \A u \in UploadIds : \A v \in Workers : Completing(v, u)' => Completing(v, u)
  BY DEF Completing, Frame
<1>5. CompletionInv'
  BY <1>4 DEF IInv, core, CompletionInv, ReliedSafe, Relied, OneCompletion, HasRow
<1> QED
  BY <1>1, <1>2, <1>3, <1>5 DEF BirthInv

\* upload_part's checks: a part number that passes them lies within the total.
LEMMA UploadCheckInv ==
  ASSUME IInv, NEW w \in Workers, UploadCheck(w)
  PROVE  BirthInv' /\ CompletionInv'
<1> DEFINE u == req[w].id
<1>0. Typed /\ BirthInv /\ req[w] \in Request /\ u \in UploadIds /\ UNCHANGED core
  BY DEF IInv, Typed, GoodRequest, UploadCheck, At, dbVars, storeVars, histVars, core
<1>1. CASE IsUploading(u) /\ req[w].n >= 1 /\ req[w].n <= uploads[u].total
  <2>1. Frame(w) /\ req'[w].pc = "up_send" /\ req'[w].id = u /\ req'[w].n = req[w].n
    BY <1>0, <1>1 DEF UploadCheck, Goto, Frame, Typed, TypeOK, Request
  <2>2. req[w].n \in Int /\ uploads[u].total = born[u] /\ born[u] \in Nat
    BY <1>0, <1>1, MaxPartsAssumption
    DEF BirthInv, BirthOf, IsUploading, Request, Typed, TypeOK
  <2>3. RequestOf(w)'
    BY <1>0, <1>1, <2>1, <2>2 DEF RequestOf, core
  <2> QED
    BY <1>0, <2>1, <2>3, MoveStep
<1>2. CASE ~(IsUploading(u) /\ req[w].n >= 1 /\ req[w].n <= uploads[u].total)
  BY <1>0, <1>2, CalmMoves, CalmStep DEF UploadCheck
<1> QED
  BY <1>1, <1>2

\* A part row is recorded only for a part number within the total.
LEMMA UploadRecordInv ==
  ASSUME IInv, NEW w \in Workers, UploadRecord(w)
  PROVE  BirthInv' /\ CompletionInv'
<1> DEFINE u == req[w].id
           n == req[w].n
<1>0. /\ Typed /\ BirthInv /\ CompletionInv
      /\ parts \in [UploadIds -> PartRows] /\ parts' \in [UploadIds -> PartRows]
      /\ u \in UploadIds /\ n \in 1..born[u]
  <2>1. Typed' /\ req[w].pc = "up_record"
    BY TypedStep DEF IInv, Next, Step, UploadRecord, At
  <2> QED
    BY <2>1 DEF IInv, Typed, TypeOK, DBTypeOK, GoodRequest, BirthInv, RequestOf
<1>1. /\ \E e : parts' = [parts EXCEPT ![u][n] = e]
      /\ Calm(w)
      /\ UNCHANGED <<uploads, files, session, known, objects, born, confirmed, spoiled>>
  BY <1>0, CalmMoves DEF UploadRecord, record_uploaded_part, storeVars
<1>2. \A x \in UploadIds : Recorded(parts'[x]) \subseteq 1..born[x]
  <2> SUFFICES ASSUME NEW x \in UploadIds, NEW m \in Recorded(parts'[x])
               PROVE  m \in 1..born[x]
    OBVIOUS
  <2>1. CASE x = u /\ m = n
    BY <1>0, <2>1
  <2>2. CASE ~(x = u /\ m = n)
    <3>1. m \in PartNumbers /\ parts'[x][m] # None
      BY DEF Recorded
    <3>2. parts'[x][m] = parts[x][m]
      BY <1>0, <1>1, <2>2, <3>1 DEF PartRows
    <3>3. m \in Recorded(parts[x])
      BY <3>1, <3>2 DEF Recorded
    <3> QED
      BY <1>0, <3>3 DEF BirthInv, BirthOf
  <2> QED
    BY <2>1, <2>2
<1>3. BirthInv'
  BY <1>0, <1>1, <1>2
  DEF BirthInv, BirthOf, RequestOf, OneCreator, Creating, HasRow, Calm, Frame, Harmless
<1>4. \A x \in UploadIds : \A v \in Workers : Completing(v, x)' => Completing(v, x)
  BY <1>1 DEF Completing, Calm, Frame, Harmless
<1>5. CompletionInv'
  BY <1>0, <1>1, <1>4 DEF CompletionInv, ReliedSafe, Relied, OneCompletion, HasRow
<1> QED
  BY <1>3, <1>5

\* complete_multipart takes over the total of an upload that has its row.
LEMMA CompleteBeginInv ==
  ASSUME IInv, NEW w \in Workers, NEW u \in UploadIds, CompleteBegin(w, u)
  PROVE  BirthInv' /\ CompletionInv'
<1>0. Typed /\ BirthInv /\ UNCHANGED core /\ HasRow(u)
  BY DEF IInv, CompleteBegin, IsUploading, dbVars, storeVars, histVars, core
<1>1. /\ Frame(w) /\ req'[w].pc = "co_parts" /\ req'[w].id = u
      /\ req'[w].total = uploads[u].total
  BY <1>0 DEF CompleteBegin, Frame, Idle, Typed, TypeOK
<1>2. uploads[u].total = born[u] /\ born[u] # 0 /\ born[u] \in Nat
  BY <1>0, MaxPartsAssumption DEF BirthInv, BirthOf, Typed, TypeOK
<1>3. RequestOf(w)'
  BY <1>0, <1>1, <1>2 DEF RequestOf, core
<1> QED
  BY <1>0, <1>1, <1>3, MoveStep

\* As many part rows as parts, all within 1..total: every part is there.
LEMMA CountIsWhole ==
  ASSUME NEW total \in Nat, NEW S \in SUBSET (1..total), Cardinality(S) = total
  PROVE  S = 1..total
<1>1. IsFiniteSet(1..total) /\ Cardinality(1..total) = total
  BY FS_Interval
<1> QED
  BY <1>1, FS_Subset

\* The count of part rows passes only when the rows read are all of them.
LEMMA CompletePartsInv ==
  ASSUME IInv, NEW w \in Workers, CompleteParts(w)
  PROVE  BirthInv' /\ CompletionInv'
<1> DEFINE u == req[w].id
           rows == parts[u]
<1>0. /\ Typed /\ BirthInv /\ UNCHANGED core /\ req[w] \in Request
      /\ u \in UploadIds /\ req[w].pc = "co_parts"
  BY DEF IInv, Typed, GoodRequest, CompleteParts, At, dbVars, storeVars, histVars, core
<1>1. CASE ~AllRecorded(rows, req[w].total)
  BY <1>0, <1>1, CalmMoves, CalmStep DEF CompleteParts
<1>2. CASE AllRecorded(rows, req[w].total)
  <2>1. req[w].total = born[u] /\ born[u] > 0 /\ born[u] \in Nat
    BY <1>0, MaxPartsAssumption DEF BirthInv, RequestOf, Typed, TypeOK
  <2>2. Recorded(rows) = 1..req[w].total
    BY <1>0, <1>2, <2>1, CountIsWhole DEF AllRecorded, BirthInv, BirthOf
  <2>3. /\ Frame(w) /\ req'[w].pc = "co_send" /\ req'[w].id = u
        /\ req'[w].total = req[w].total /\ req'[w].rows = rows
    BY <1>0, <1>2 DEF CompleteParts, Frame, Typed, TypeOK, Request
  <2>4. RequestOf(w)'
    BY <1>0, <2>1, <2>2, <2>3 DEF RequestOf, core
  <2> QED
    BY <1>0, <2>3, <2>4, MoveStep
<1> QED
  BY <1>1, <1>2

\* Only an upload nobody relies on yet can be accepted by the provider.
LEMMA AcceptedNotRelied ==
  ASSUME IInv, NEW u \in UploadIds, Accepts(u)
  PROVE  session[u] = "open" /\ ~Relied(u)
<1>1. session[u] = "open"
  BY DEF IInv, BirthInv, BirthOf, Accepts
<1> QED
  BY <1>1 DEF IInv, CompletionInv, ReliedSafe

\* What a step of the provider may do to the invariant's state: it closes or
\* rewrites only an upload that it accepts, and only a completion that
\* assembled every part moves its worker on.
Touches(w, u) ==
    /\ Accepts(u)
    /\ Frame(w)
    /\ \/ session' = [session EXCEPT ![u] = "closed"] /\ known' = known \ {u}
       \/ session' = session /\ known' = known
    /\ \A x \in UploadIds \ {u} : objects'[x] = objects[x]
    /\ \A x \in UploadIds \ {u} : spoiled'[x] = spoiled[x]
    /\ UNCHANGED <<uploads, parts, files, born, confirmed>>
    /\ \/ req'[w].pc \in Harmless
       \/ req'[w].pc \in {"up_send", "up_record"} /\ req'[w].id = u /\ req'[w].n \in 1..born[u]
       \/ /\ req'[w].pc = "co_status" /\ req'[w].id = u
          /\ req'[w].total = born[u] /\ born[u] > 0
          /\ session'[u] = "closed" /\ Whole(objects'[u], born[u], spoiled'[u])

\* A provider call on an open session changes nothing of other uploads, and
\* nothing anybody relies on.
LEMMA ProviderStep ==
  ASSUME IInv, NEW w \in Workers, NEW u \in UploadIds, Touches(w, u)
  PROVE  BirthInv' /\ CompletionInv'
<1> USE DEF Touches
<1>0. /\ session \in [UploadIds -> {"none", "open", "closed"}]
      /\ BirthInv /\ CompletionInv /\ session[u] = "open" /\ ~Relied(u)
  BY AcceptedNotRelied DEF IInv, Typed, TypeOK, StoreTypeOK
<1>1. BirthInv'
  <2>1. \A x \in UploadIds : BirthOf(x)'
    BY <1>0 DEF BirthInv, BirthOf, HasRow
  <2>2. ASSUME NEW v \in Workers PROVE RequestOf(v)'
    <3>1. CASE v = w
      BY <1>0, <3>1 DEF RequestOf, Harmless
    <3>2. CASE v # w
      <4>1. req'[v] = req[v] /\ RequestOf(v)
        BY <1>0, <3>2 DEF Frame, BirthInv
      <4>2. req[v].pc = "init_create" => req[v].id \in UploadIds
        BY DEF IInv, Typed, GoodRequest
      <4> QED
        BY <1>0, <4>1, <4>2 DEF RequestOf
    <3> QED
      BY <3>1, <3>2
  <2>3. OneCreator'
    BY <1>0 DEF BirthInv, OneCreator, Creating, Frame, Harmless
  <2> QED
    BY <2>1, <2>2, <2>3 DEF BirthInv
<1>2. \A v \in Workers : ~Completing(v, u)
  BY <1>0 DEF Relied
<1>3. ASSUME NEW x \in UploadIds \ {u}, Relied(x)' PROVE Relied(x)
  BY <1>3 DEF Relied, HasRow, Completing, Frame, Harmless
<1>4. Relied(u)' => born[u] > 0 /\ Whole(objects'[u], born[u], spoiled'[u]) /\ session'[u] = "closed"
  BY <1>0, <1>2 DEF Relied, HasRow, Completing, Frame, Harmless
<1>5. ReliedSafe'
  BY <1>0, <1>3, <1>4 DEF CompletionInv, ReliedSafe
<1>6. OneCompletion'
  <2>0. ~(confirmed[u] > 0) /\ confirmed[u] \in Nat
    BY <1>0, MaxPartsAssumption DEF Relied, IInv, Typed, TypeOK
  <2> QED
    BY <1>0, <1>2, <2>0 DEF CompletionInv, OneCompletion, Completing, Frame, Harmless
<1> QED
  BY <1>1, <1>5, <1>6 DEF CompletionInv

\* Storing a part at the provider touches no object anybody relies on.
LEMMA UploadSendInv ==
  ASSUME IInv, NEW w \in Workers, UploadSend(w) \/ UploadTears(w) \/ UploadSendFails(w)
  PROVE  BirthInv' /\ CompletionInv'
<1> DEFINE u == req[w].id
<1>0. /\ Typed /\ BirthInv /\ req[w] \in Request /\ u \in UploadIds /\ req[w].pc = "up_send"
      /\ req[w].n \in 1..born[u] /\ spoiled \in [UploadIds -> SUBSET PartNumbers]
  BY DEF IInv, Typed, TypeOK, GoodRequest, UploadSend, UploadTears, UploadSendFails, At,
         BirthInv, RequestOf
<1>1. CASE UploadSendFails(w)
  <2>1. UNCHANGED core /\ Calm(w)
    BY <1>0, <1>1, CalmMoves
    DEF UploadSendFails, provider_upload_part, dbVars, storeVars, histVars, core
  <2> QED
    BY <2>1, CalmStep
<1>2. CASE UploadSend(w) \/ UploadTears(w)
  <2>1. /\ Accepts(u) /\ UNCHANGED <<uploads, parts, files, session, known, objects, born, confirmed>>
        /\ \A x \in UploadIds \ {u} : spoiled'[x] = spoiled[x]
    BY <1>0, <1>2 DEF UploadSend, UploadTears, provider_upload_part, dbVars
  <2>2. CASE UploadSend(w)
    <3>1. Frame(w) /\ req'[w].pc = "up_record" /\ req'[w].id = u /\ req'[w].n = req[w].n
      BY <1>0, <2>2 DEF UploadSend, Goto, Frame, Typed, TypeOK, Request
    <3>2. Touches(w, u)
      BY <1>0, <2>1, <3>1 DEF Touches
    <3> QED
      BY <1>0, <3>2, ProviderStep
  <2>3. CASE UploadTears(w)
    <3>1. UNCHANGED req \/ Calm(w)
      BY <1>0, <2>3, CalmMoves DEF UploadTears
    <3>2. Touches(w, u)
      BY <1>0, <2>1, <3>1 DEF Touches, Calm, Frame
    <3> QED
      BY <1>0, <3>2, ProviderStep
  <2> QED
    BY <1>2, <2>2, <2>3
<1> QED
  BY <1>1, <1>2

\* The provider's completion makes a whole object and closes the session, so
\* that no second request follows.
LEMMA CompleteSendInv ==
  ASSUME IInv, NEW w \in Workers, CompleteSend(w)
  PROVE  BirthInv' /\ CompletionInv'
<1> DEFINE u == req[w].id
           o == Assembled(u, req[w].rows)
<1>0. /\ Typed /\ BirthInv /\ req[w] \in Request /\ u \in UploadIds /\ req[w].pc = "co_send"
      /\ objects \in [UploadIds -> Content \cup {None, Torn}]
      /\ session \in [UploadIds -> {"none", "open", "closed"}]
  BY DEF IInv, Typed, TypeOK, StoreTypeOK, GoodRequest, CompleteSend, At
<1>1. /\ CanAssemble(u, req[w].rows)
      /\ objects' = [objects EXCEPT ![u] = o]
      /\ session' = [session EXCEPT ![u] = "closed"] /\ known' = known \ {u}
      /\ UNCHANGED <<uploads, parts, files, born, confirmed, spoiled>>
  BY DEF CompleteSend, provider_complete_multipart, close_session, dbVars, histVars
<1>2. req[w].total = born[u] /\ born[u] > 0 /\ Recorded(req[w].rows) = 1..born[u]
  BY <1>0 DEF BirthInv, RequestOf
<1>3. Whole(o, born[u], spoiled[u])
  <2>1. o \in Content
    <3>1. partData[u] \in Content
      BY <1>0 DEF Typed, TypeOK, StoreTypeOK
    <3>2. \A n \in PartNumbers : partData[u][n] \in Stored \cup {None}
      BY <3>1 DEF Content
    <3> QED
      BY <3>2 DEF Content, Assembled
  <2>2. \A n \in 1..born[u] : n \in PartNumbers /\ partData[u][n] # None
    BY <1>1, <1>2 DEF CanAssemble, PartMatches, Recorded
  <2>3. ASSUME NEW n \in 1..born[u], o[n] \notin Data PROVE ~Cloud /\ n \in spoiled[u]
    <3>1. n \in PartNumbers /\ n \in Recorded(req[w].rows) /\ o[n] = partData[u][n]
      BY <1>2, <2>2 DEF Assembled
    <3>2. partData[u][n] = Torn
      BY <1>0, <2>2, <2>3, <3>1 DEF Typed, TypeOK, StoreTypeOK, Content, Stored
    <3>3. Counted(u, n)
      BY <1>0, <3>1 DEF Counted, At, Recorded
    <3> QED
      BY <1>0, <3>1, <3>2, <3>3 DEF IInv, TornInv
  <2> HIDE DEF o
  <2> QED
    BY <2>1, <2>3 DEF Whole
<1>4. objects'[u] = o /\ session'[u] = "closed"
  BY <1>0, <1>1
<1>5. Accepts(u) /\ \A x \in UploadIds \ {u} : objects'[x] = objects[x]
  BY <1>0, <1>1 DEF CanAssemble
<1>6. CASE Goto(w, "co_status")
  <2>1. /\ Frame(w) /\ req'[w].pc = "co_status" /\ req'[w].id = u
        /\ req'[w].total = req[w].total
    BY <1>0, <1>6 DEF Goto, Frame, Typed, TypeOK, Request
  <2> HIDE DEF o
  <2> QED
    <3>1. Touches(w, u)
      BY <1>0, <1>1, <1>2, <1>3, <1>4, <1>5, <2>1 DEF Touches
    <3> QED
      BY <1>0, <3>1, ProviderStep
<1>7. CASE Return(w)
  <2>1. Calm(w)
    BY <1>0, <1>7, CalmMoves
  <2> QED
    <3>1. Touches(w, u)
      BY <1>0, <1>1, <1>5, <2>1 DEF Touches, Calm
    <3> QED
      BY <1>0, <3>1, ProviderStep
<1> QED
  BY <1>6, <1>7 DEF CompleteSend

\* A failed completion leaves at most a torn object nobody relies on.
LEMMA CompleteSendFailsInv ==
  ASSUME IInv, NEW w \in Workers, CompleteSendFails(w)
  PROVE  BirthInv' /\ CompletionInv'
<1>0. /\ Typed /\ req[w].id \in UploadIds /\ Calm(w)
      /\ objects \in [UploadIds -> Content \cup {None, Torn}]
  BY CalmMoves DEF IInv, Typed, TypeOK, StoreTypeOK, GoodRequest, CompleteSendFails, At
<1>1. CASE UNCHANGED storeVars
  BY <1>0, <1>1, CalmStep DEF CompleteSendFails, dbVars, storeVars, histVars, core
<1>2. CASE ~UNCHANGED storeVars
  <2>1. /\ Accepts(req[w].id)
        /\ objects' = [objects EXCEPT ![req[w].id] = Torn]
        /\ UNCHANGED <<session, known, uploads, parts, files, born, confirmed, spoiled>>
    BY <1>2 DEF CompleteSendFails, CanAssemble, dbVars, histVars
  <2> QED
    <3>1. Touches(w, req[w].id)
      BY <1>0, <2>1 DEF Touches, Calm
    <3> QED
      BY <1>0, <3>1, ProviderStep
<1> QED
  BY <1>1, <1>2

\* The provider's abort closes the session and keeps the objects.
LEMMA AbortSendInv ==
  ASSUME IInv, NEW w \in Workers, AbortSend(w)
  PROVE  BirthInv' /\ CompletionInv'
<1>0. Typed /\ req[w].id \in UploadIds /\ Calm(w)
  <2>1. "ab_status" \in Harmless
    BY DEF Harmless
  <2> QED
    BY <2>1, CalmMoves DEF IInv, Typed, GoodRequest, AbortSend, At
<1>1. CASE UNCHANGED storeVars
  BY <1>0, <1>1, CalmStep DEF AbortSend, dbVars, storeVars, histVars, core
<1>2. CASE ~UNCHANGED storeVars
  <2>1. /\ Accepts(req[w].id)
        /\ session' = [session EXCEPT ![req[w].id] = "closed"]
        /\ known' = known \ {req[w].id}
        /\ UNCHANGED <<objects, uploads, parts, files, born, confirmed, spoiled>>
    BY <1>2 DEF AbortSend, provider_abort_multipart, close_session, dbVars, histVars
  <2> QED
    <3>1. Touches(w, req[w].id)
      BY <1>0, <2>1 DEF Touches, Calm
    <3> QED
      BY <1>0, <3>1, ProviderStep
<1> QED
  BY <1>1, <1>2

\* update_multipart_status keeps the row's existence and total.
LEMMA UpdatedRow ==
  ASSUME NEW u \in UploadIds, NEW s \in Statuses, update_multipart_status(u, s),
         uploads \in [UploadIds -> UploadRow \cup {None}]
  PROVE  /\ \A x \in UploadIds \ {u} : uploads'[x] = uploads[x]
         /\ HasRow(u)' <=> HasRow(u)
         /\ HasRow(u) => uploads'[u].total = uploads[u].total /\ uploads'[u].status = s
<1>1. CASE HasRow(u)
  <2> DEFINE row == [uploads[u] EXCEPT !.status = s]
  <2>1. uploads[u] \in UploadRow /\ uploads' = [uploads EXCEPT ![u] = row]
    BY <1>1 DEF HasRow, update_multipart_status
  <2>2. row \in UploadRow /\ row.total = uploads[u].total /\ row.status = s
    BY <2>1 DEF UploadRow
  <2> HIDE DEF row
  <2> QED
    BY <1>1, <2>1, <2>2, NoneAssumption DEF HasRow
<1>2. CASE ~HasRow(u)
  BY <1>2 DEF HasRow, update_multipart_status
<1> QED
  BY <1>1, <1>2

\* The row is marked completed only after the object is whole.
LEMMA CompleteStatusInv ==
  ASSUME IInv, NEW w \in Workers, CompleteStatus(w)
  PROVE  BirthInv' /\ CompletionInv'
<1>a. PICK u \in UploadIds : req[w].id = u
  BY DEF IInv, Typed, GoodRequest, CompleteStatus, At
<1> USE <1>a
<1>0. /\ Typed /\ BirthInv /\ CompletionInv /\ req[w] \in Request /\ u \in UploadIds
      /\ uploads \in [UploadIds -> UploadRow \cup {None}]
      /\ req[w].pc = "co_status"
  BY DEF IInv, Typed, TypeOK, DBTypeOK, GoodRequest, CompleteStatus, At
<1>1. /\ Frame(w) /\ req'[w].pc = "co_file" /\ req'[w].id = u /\ req'[w].total = req[w].total
      /\ UNCHANGED <<parts, files, session, known, objects, born, confirmed, spoiled>>
  BY <1>0 DEF CompleteStatus, Goto, Frame, update_multipart_status, storeVars, histVars,
              Typed, TypeOK, Request
<1>2. /\ \A x \in UploadIds \ {u} : uploads'[x] = uploads[x]
      /\ HasRow(u)' <=> HasRow(u)
      /\ HasRow(u) => uploads'[u].total = uploads[u].total
  BY <1>0, UpdatedRow DEF CompleteStatus, Statuses
<1>3. BirthInv'
  <2>1. \A x \in UploadIds : BirthOf(x)'
    BY <1>0, <1>1, <1>2 DEF BirthInv, BirthOf, HasRow
  <2>2. \A v \in Workers : RequestOf(v)'
    BY <1>0, <1>1 DEF BirthInv, RequestOf, Frame
  <2>3. OneCreator'
    BY <1>0, <1>1 DEF BirthInv, OneCreator, Creating, Frame
  <2> QED
    BY <2>1, <2>2, <2>3 DEF BirthInv
<1>4. \A x \in UploadIds : \A v \in Workers : Completing(v, x)' <=> Completing(v, x)
  BY <1>0, <1>1 DEF Completing, Frame
<1>5. Relied(u)
  BY <1>0 DEF Relied, Completing
<1>6. \A x \in UploadIds : Relied(x)' => Relied(x)
  BY <1>1, <1>2, <1>4, <1>5 DEF Relied, HasRow
<1>7. CompletionInv'
  BY <1>0, <1>1, <1>4, <1>6 DEF CompletionInv, ReliedSafe, OneCompletion
<1> QED
  BY <1>3, <1>7

\* The file row and the successful answer follow the whole object.
LEMMA CompleteFileInv ==
  ASSUME IInv, NEW w \in Workers, CompleteFile(w)
  PROVE  BirthInv' /\ CompletionInv'
<1>a. PICK u \in UploadIds : req[w].id = u
  BY DEF IInv, Typed, GoodRequest, CompleteFile, At
<1> USE <1>a
<1>0. /\ Typed /\ BirthInv /\ CompletionInv /\ u \in UploadIds /\ req[w].pc = "co_file"
      /\ confirmed \in [UploadIds -> 0..MaxParts] /\ Calm(w)
  BY CalmMoves DEF IInv, Typed, TypeOK, GoodRequest, CompleteFile, At
<1>1. /\ files' \subseteq files \cup {u}
      /\ confirmed' = [confirmed EXCEPT ![u] = req[w].total]
      /\ UNCHANGED <<uploads, parts, session, known, objects, born, spoiled>>
  BY DEF CompleteFile, insert_file, dbVars, storeVars
<1>2. BirthInv'
  BY <1>0, <1>1
  DEF BirthInv, BirthOf, RequestOf, OneCreator, Creating, HasRow, Calm, Frame, Harmless
<1>3. \A x \in UploadIds : \A v \in Workers : Completing(v, x)' => Completing(v, x)
  BY <1>0 DEF Completing, Calm, Frame, Harmless
<1>4. Completing(w, u) /\ Relied(u)
  BY <1>0 DEF Relied, Completing
<1>5. \A x \in UploadIds : Relied(x)' => Relied(x)
  BY <1>0, <1>1, <1>3, <1>4 DEF Relied, HasRow
<1>6. ReliedSafe'
  BY <1>0, <1>1, <1>5 DEF CompletionInv, ReliedSafe
<1>7. \A v \in Workers : ~Completing(v, u)'
  BY <1>0, <1>3, <1>4 DEF CompletionInv, OneCompletion, Completing, Calm, Frame, Harmless
<1>8. OneCompletion'
  BY <1>0, <1>1, <1>3, <1>7 DEF CompletionInv, OneCompletion
<1> QED
  BY <1>2, <1>6, <1>8 DEF CompletionInv

\* The statements of an abort delete rows and make nobody rely on anything new.
LEMMA AbortTablesInv ==
  ASSUME IInv, NEW w \in Workers, AbortStatus(w) \/ AbortParts(w) \/ AbortRow(w)
  PROVE  BirthInv' /\ CompletionInv'
<1>a. PICK u \in UploadIds : req[w].id = u
  BY DEF IInv, Typed, GoodRequest, AbortStatus, AbortParts, AbortRow, At
<1> USE <1>a
<1>0. /\ Typed /\ BirthInv /\ CompletionInv /\ u \in UploadIds
      /\ uploads \in [UploadIds -> UploadRow \cup {None}]
      /\ parts \in [UploadIds -> PartRows]
  BY DEF IInv, Typed, TypeOK, DBTypeOK, GoodRequest, AbortStatus, AbortParts, AbortRow, At
<1>1. Calm(w) /\ UNCHANGED <<files, session, known, objects, born, confirmed, spoiled>>
  <2>1. {"ab_parts", "ab_row"} \subseteq Harmless
    BY DEF Harmless
  <2> QED
    BY <1>0, <2>1, CalmMoves
    DEF AbortStatus, AbortParts, AbortRow, update_multipart_status, delete_part_rows,
        delete_upload_row, storeVars, histVars
<1>2. /\ \A x \in UploadIds \ {u} : uploads'[x] = uploads[x]
      /\ HasRow(u)' => HasRow(u) /\ uploads'[u].total = uploads[u].total
      /\ HasRow(u)' /\ uploads'[u].status = "completed" => uploads[u].status = "completed"
  <2>1. CASE AbortStatus(w)
    BY <1>0, <2>1, UpdatedRow DEF AbortStatus, Statuses
  <2>2. CASE AbortParts(w) \/ AbortRow(w)
    BY <1>0, <2>2 DEF AbortParts, AbortRow, delete_part_rows, delete_upload_row, HasRow
  <2> QED
    BY <2>1, <2>2
<1>3. \A x \in UploadIds : Recorded(parts'[x]) \subseteq Recorded(parts[x])
  <2>1. Recorded(NoParts) = {}
    BY DEF Recorded, NoParts
  <2>2. \A x \in UploadIds : parts'[x] = parts[x] \/ parts'[x] = NoParts
    BY <1>0 DEF AbortStatus, AbortParts, AbortRow, update_multipart_status, delete_part_rows,
                delete_upload_row
  <2> QED
    BY <2>1, <2>2
<1>4. BirthInv'
  <2>1. \A x \in UploadIds : BirthOf(x)'
    BY <1>0, <1>1, <1>2, <1>3 DEF BirthInv, BirthOf, HasRow
  <2>2. \A v \in Workers : RequestOf(v)'
    BY <1>0, <1>1 DEF BirthInv, RequestOf, Calm, Frame, Harmless
  <2>3. OneCreator'
    BY <1>0, <1>1 DEF BirthInv, OneCreator, Creating, Calm, Frame, Harmless
  <2> QED
    BY <2>1, <2>2, <2>3 DEF BirthInv
<1>5. \A x \in UploadIds : \A v \in Workers : Completing(v, x)' => Completing(v, x)
  BY <1>1 DEF Completing, Calm, Frame, Harmless
<1>6. \A x \in UploadIds : Relied(x)' => Relied(x)
  BY <1>1, <1>2, <1>5 DEF Relied, HasRow
<1>7. CompletionInv'
  BY <1>0, <1>1, <1>5, <1>6 DEF CompletionInv, ReliedSafe, OneCompletion
<1> QED
  BY <1>4, <1>7

\* After a crash every worker is idle; what was relied on still is.
LEMMA CrashInv ==
  ASSUME IInv, Crash \/ \E w \in Workers : CrashInComplete(w)
  PROVE  BirthInv' /\ CompletionInv'
<1>0. BirthInv /\ CompletionInv /\ Typed
  BY DEF IInv
<1>1. /\ \A v \in Workers : req'[v].pc = "idle"
      /\ known' = {} /\ UNCHANGED <<uploads, parts, files, session, born, confirmed, spoiled>>
  BY DEF Crash, CrashInComplete, provider_restart, dbVars, histVars, Idle
<1>2. \A u \in UploadIds : objects'[u] # objects[u] => Accepts(u)
  <2>1. CASE Crash
    BY <2>1 DEF Crash, provider_restart
  <2>2. ASSUME NEW w \in Workers, CrashInComplete(w)
        PROVE  \A u \in UploadIds : objects'[u] # objects[u] => Accepts(u)
    BY <1>0, <2>2 DEF CrashInComplete, CanAssemble, Typed, TypeOK, StoreTypeOK
  <2> QED
    BY <2>1, <2>2
<1>3. BirthInv'
  BY <1>0, <1>1 DEF BirthInv, BirthOf, RequestOf, OneCreator, Creating, HasRow
<1>4. \A u \in UploadIds : Relied(u)' => Relied(u)
  BY <1>1 DEF Relied, HasRow, Completing
<1>5. \A u \in UploadIds : Relied(u) => objects'[u] = objects[u]
  BY <1>2, AcceptedNotRelied
<1>6. CompletionInv'
  BY <1>0, <1>1, <1>4, <1>5 DEF CompletionInv, ReliedSafe, OneCompletion, Completing
<1> QED
  BY <1>3, <1>6

\* Steps that only read, or only end a request, and leave the core alone.
LEMMA QuietMoves ==
  ASSUME Typed, NEW w \in Workers,
         \/ PendingParts(w) \/ CleanupList(w) \/ StatementFails(w)
         \/ \E n \in PartNumbers : PickFails(w, n) \/ \E d \in Data : PickPending(w, n, d)
         \/ \E u \in UploadIds : CleanupNext(w, u) \/ PendingBegin(w, u) \/ AbortBegin(w, u)
         \/ \E u \in UploadIds, n \in 0..MaxParts + 1, d \in Data, t \in Retries :
                    UploadBegin(w, u, n, d, t)
  PROVE  Calm(w) /\ UNCHANGED core
<1>0. /\ Typed /\ req \in [Workers -> Request] /\ req[w] \in Request
      /\ UNCHANGED core
  BY DEF Typed, TypeOK, PendingParts, CleanupList, StatementFails, PickFails, PickPending,
         CleanupNext, PendingBegin, AbortBegin, UploadBegin, dbVars, storeVars, histVars, core
<1>1. CASE StatementFails(w)
  <2>1. Calm(w)
    BY <1>0, <1>1, CalmMoves DEF StatementFails
  <2> QED
    BY <1>0, <2>1
<1>2. CASE \/ PendingParts(w) \/ CleanupList(w)
           \/ \E n \in PartNumbers : PickFails(w, n) \/ \E d \in Data : PickPending(w, n, d)
           \/ \E u \in UploadIds : CleanupNext(w, u) \/ PendingBegin(w, u) \/ AbortBegin(w, u)
           \/ \E u \in UploadIds, n \in 0..MaxParts + 1, d \in Data, t \in Retries :
                    UploadBegin(w, u, n, d, t)
  <2>1. Frame(w)
    BY <1>0, <1>2
    DEF PendingParts, CleanupList, PickFails, PickPending, CleanupNext, PendingBegin,
        AbortBegin, UploadBegin, Frame
  <2>2. req'[w].pc \in Harmless
    <3>1. CASE PendingParts(w)
      <4> DEFINE pending == get_pending_parts(req[w].total, parts[req[w].id])
      <4>1. \/ req'[w] = Idle
            \/ req'[w] = [Idle EXCEPT !.pc = "pick", !.id = req[w].id, !.todo = pending]
        BY <1>0, <3>1 DEF PendingParts
      <4> HIDE DEF pending
      <4>2. /\ Idle.pc = "idle"
            /\ [Idle EXCEPT !.pc = "pick", !.id = req[w].id, !.todo = pending].pc = "pick"
        BY DEF Idle
      <4> QED
        BY <4>1, <4>2 DEF Harmless
    <3>2. CASE CleanupList(w)
      BY <1>0, <3>2 DEF CleanupList, Harmless, Idle
    <3>3. ASSUME NEW n \in PartNumbers, PickFails(w, n)
          PROVE  req'[w].pc \in Harmless
      <4>1. req'[w] = Idle \/ req'[w] = [req[w] EXCEPT !.todo = req[w].todo \ {n}]
        BY <1>0, <3>3 DEF PickFails
      <4>2. req[w].pc = "pick" /\ Idle.pc = "idle"
        BY <3>3 DEF PickFails, At, Idle
      <4> QED
        BY <1>0, <4>1, <4>2 DEF Harmless, Request
    <3>4. ASSUME NEW n \in PartNumbers, NEW d \in Data, PickPending(w, n, d)
          PROVE  req'[w].pc \in Harmless
      <4>1. req'[w].pc = "up_check"
        BY <1>0, <3>4 DEF PickPending, Request
      <4> QED
        BY <4>1 DEF Harmless
    <3>5. ASSUME NEW u \in UploadIds, CleanupNext(w, u) PROVE req'[w].pc \in Harmless
      <4> DEFINE rest == req[w].victims \ {u}
      <4>1. \/ req'[w] = [req[w] EXCEPT !.pc = "ab_send", !.id = u, !.victims = rest]
            \/ req'[w] = Idle
            \/ req'[w] = [req[w] EXCEPT !.victims = rest]
        BY <1>0, <3>5 DEF CleanupNext
      <4>2. req[w].pc = "ab_pick" /\ Idle.pc = "idle"
        BY <3>5 DEF CleanupNext, At, Idle
      <4> QED
        BY <1>0, <4>1, <4>2 DEF Harmless, Request
    <3>6. ASSUME NEW u \in UploadIds, PendingBegin(w, u) \/ AbortBegin(w, u)
          PROVE  req'[w].pc \in Harmless
      BY <1>0, <3>6 DEF PendingBegin, AbortBegin, Harmless, Idle
    <3>7. ASSUME NEW u \in UploadIds, NEW n \in 0..MaxParts + 1, NEW d \in Data,
                 NEW t \in Retries, UploadBegin(w, u, n, d, t)
          PROVE  req'[w].pc \in Harmless
      BY <1>0, <3>7 DEF UploadBegin, Harmless, Idle
    <3> QED
      BY <1>2, <3>1, <3>2, <3>3, <3>4, <3>5, <3>6, <3>7
  <2> QED
    BY <1>0, <2>1, <2>2 DEF Calm
<1> QED
  BY <1>1, <1>2

\* Such steps keep the invariant.
LEMMA QuietInv ==
  ASSUME IInv, NEW w \in Workers,
         \/ PendingParts(w) \/ CleanupList(w) \/ StatementFails(w)
         \/ \E n \in PartNumbers : PickFails(w, n) \/ \E d \in Data : PickPending(w, n, d)
         \/ \E u \in UploadIds : CleanupNext(w, u) \/ PendingBegin(w, u) \/ AbortBegin(w, u)
         \/ \E u \in UploadIds, n \in 0..MaxParts + 1, d \in Data, t \in Retries :
                    UploadBegin(w, u, n, d, t)
  PROVE  BirthInv' /\ CompletionInv'
<1>1. Calm(w) /\ UNCHANGED core
  BY QuietMoves DEF IInv
<1> QED
  BY <1>1, CalmStep

(* Half-written parts *)

\* No request begins to record a part or to complete an upload.
NoNewCount == \A v \in Workers : req'[v] = req[v] \/ req'[v].pc \notin {"up_record", "co_send"}

\* A step that tears no file, spoils or mends no part, and adds rows only of
\* parts that count.
LEMMA TornKept ==
  ASSUME TornInv, NoNewCount, UNCHANGED spoiled,
         \A u \in UploadIds, n \in PartNumbers :
            /\ partData'[u][n] = Torn => partData[u][n] = Torn
            /\ parts'[u][n] # None => Counted(u, n)
  PROVE  TornInv'
<1>1. \A u \in UploadIds, n \in PartNumbers : Counted(u, n)' => Counted(u, n)
  BY DEF Counted, At, NoNewCount
<1> QED
  BY <1>1 DEF TornInv

\* Moves after which no more parts count.
LEMMA CountMoves ==
  ASSUME Typed, NEW w \in Workers
  PROVE  /\ Calm(w) => NoNewCount
         /\ \A p \in PCs \ {"up_record", "co_send"} : Goto(w, p) => NoNewCount
<1>0. req \in [Workers -> Request] /\ req[w] \in Request
  BY DEF Typed, TypeOK
<1>1. Calm(w) => NoNewCount
  BY DEF Calm, Frame, Harmless, NoNewCount
<1>2. ASSUME NEW p \in PCs \ {"up_record", "co_send"}, Goto(w, p) PROVE NoNewCount
  <2>1. req'[w].pc = p /\ \A v \in Workers \ {w} : req'[v] = req[v]
    BY <1>0, <1>2 DEF Goto, Request
  <2> QED
    BY <2>1 DEF NoNewCount
<1> QED
  BY <1>1, <1>2

\* Every step keeps the half-written parts known.
LEMMA TornStep == Typed /\ TornInv /\ [Next]_vars => TornInv'
<1> SUFFICES ASSUME Typed, TornInv, [Next]_vars PROVE TornInv'
  OBVIOUS
<1>0. /\ req \in [Workers -> Request] /\ parts \in [UploadIds -> PartRows]
      /\ partData \in [UploadIds -> Content] /\ spoiled \in [UploadIds -> SUBSET PartNumbers]
      /\ \A w \in Workers : req[w] \in Request /\ GoodRequest(req[w])
  BY DEF Typed, TypeOK, DBTypeOK, StoreTypeOK
<1>1. ASSUME NoNewCount, UNCHANGED <<parts, partData, spoiled>> PROVE TornInv'
  BY <1>1, TornKept DEF Counted
<1>2. ASSUME NEW w \in Workers, NEW u \in UploadIds,
             \/ \E total \in PartNumbers : InitProvider(w, u, total)
             \/ CompleteBegin(w, u)
      PROVE  TornInv'
  <2>1. UNCHANGED <<parts, partData, spoiled>>
    BY <1>2 DEF InitProvider, provider_init_multipart, CompleteBegin, dbVars, storeVars, histVars
  <2>2. /\ \A v \in Workers \ {w} : req'[v] = req[v]
        /\ req'[w] = req[w] \/ req'[w].pc \in {"init_create", "co_parts"}
    BY <1>0, <1>2 DEF InitProvider, CompleteBegin, Idle
  <2> QED
    BY <1>1, <2>1, <2>2 DEF NoNewCount
<1>3. ASSUME NEW w \in Workers,
             \/ PendingParts(w) \/ CleanupList(w) \/ StatementFails(w)
             \/ \E n \in PartNumbers : PickFails(w, n) \/ \E d \in Data : PickPending(w, n, d)
             \/ \E u \in UploadIds : CleanupNext(w, u) \/ PendingBegin(w, u) \/ AbortBegin(w, u)
             \/ \E u \in UploadIds, n \in 0..MaxParts + 1, d \in Data, t \in Retries :
                        UploadBegin(w, u, n, d, t)
      PROVE  TornInv'
  <2>1. Calm(w) /\ UNCHANGED core
    BY <1>3, QuietMoves
  <2>2. UNCHANGED partData
    BY <1>3 DEF PendingParts, CleanupList, StatementFails, PickFails, PickPending,
         CleanupNext, PendingBegin, AbortBegin, UploadBegin, storeVars
  <2> QED
    BY <1>1, <2>1, <2>2, CountMoves DEF core
<1>4. ASSUME NEW w \in Workers,
             \/ InitCreate(w) \/ UploadCheck(w) \/ CompleteSendFails(w) \/ CompleteStatus(w)
             \/ CompleteFile(w) \/ AbortStatus(w) \/ AbortRow(w)
      PROVE  TornInv'
  <2>1. UNCHANGED <<parts, partData, spoiled>>
    BY <1>4
    DEF InitCreate, UploadCheck, CompleteSendFails, CompleteStatus, CompleteFile, AbortStatus,
        AbortRow, create_multipart_upload, update_multipart_status, insert_file,
        delete_upload_row, dbVars, storeVars, histVars
  <2>2. NoNewCount
    <3>1. {"up_send", "co_file", "ab_parts"} \subseteq PCs \ {"up_record", "co_send"}
      BY DEF PCs
    <3>2. \/ Return(w) \/ PartDone(w) \/ AbortDone(w) \/ \E b \in BOOLEAN : PartFailed(w, b)
          \/ \E p \in PCs \ {"up_record", "co_send"} : Goto(w, p)
      BY <1>4, <3>1
      DEF InitCreate, UploadCheck, CompleteSendFails, CompleteStatus, CompleteFile, AbortStatus,
          AbortRow
    <3> QED
      BY <3>2, CalmMoves, CountMoves
  <2> QED
    BY <1>1, <2>1, <2>2
<1>5. ASSUME NEW w \in Workers, CompleteSend(w) \/ AbortSend(w) PROVE TornInv'
  <2>1. req[w].id \in UploadIds
    BY <1>0, <1>5 DEF CompleteSend, AbortSend, At, GoodRequest
  <2>2. /\ UNCHANGED <<parts, spoiled>>
        /\ partData' = partData \/ partData' = [partData EXCEPT ![req[w].id] = Empty]
    BY <1>5 DEF CompleteSend, AbortSend, provider_complete_multipart, provider_abort_multipart,
                close_session, dbVars, storeVars, histVars
  <2>3. \A u \in UploadIds, n \in PartNumbers : partData'[u][n] = Torn => partData[u][n] = Torn
    BY <1>0, <2>1, <2>2, TornAssumption DEF Empty
  <2>4. NoNewCount
    <3>1. {"co_status", "ab_status"} \subseteq PCs \ {"up_record", "co_send"}
      BY DEF PCs
    <3>2. Return(w) \/ \E p \in PCs \ {"up_record", "co_send"} : Goto(w, p)
      BY <1>5, <3>1 DEF CompleteSend, AbortSend
    <3> QED
      BY <3>2, CalmMoves, CountMoves
  <2> QED
    BY <2>2, <2>3, <2>4, TornKept DEF Counted
<1>6. ASSUME NEW w \in Workers, UploadSendFails(w) PROVE TornInv'
  <2>1. req[w].id \in UploadIds /\ req[w].n \in PartNumbers /\ req[w].data # Torn
    BY <1>0, <1>6, TornAssumption DEF UploadSendFails, At, GoodRequest
  <2>2. /\ UNCHANGED <<parts, spoiled>>
        /\ \/ partData' = partData
           \/ partData' = [partData EXCEPT ![req[w].id][req[w].n] = req[w].data]
    BY <1>6 DEF UploadSendFails, provider_upload_part, dbVars, storeVars, histVars
  <2>3. \A u \in UploadIds, n \in PartNumbers : partData'[u][n] = Torn => partData[u][n] = Torn
    BY <1>0, <2>1, <2>2 DEF Content
  <2>4. NoNewCount
    BY <1>6, CalmMoves, CountMoves DEF UploadSendFails
  <2> QED
    BY <2>2, <2>3, <2>4, TornKept DEF Counted
<1>7. ASSUME NEW w \in Workers, UploadSend(w) \/ UploadTears(w) PROVE TornInv'
  <2> DEFINE u == req[w].id
             n == req[w].n
  <2>1. u \in UploadIds /\ n \in PartNumbers /\ req[w].data # Torn /\ req[w].pc = "up_send"
    BY <1>0, <1>7, TornAssumption DEF UploadSend, UploadTears, At, GoodRequest
  <2>2. PICK d : partData' = [partData EXCEPT ![u][n] = d] /\ UNCHANGED parts
    BY <1>7 DEF UploadSend, UploadTears, provider_upload_part, dbVars
  <2>3. \A x \in UploadIds, m \in PartNumbers :
          x # u \/ m # n => partData'[x][m] = partData[x][m]
    BY <1>0, <2>1, <2>2 DEF Content
  <2>4. CASE UploadSend(w)
    <3>1. Frame(w) /\ req'[w].pc = "up_record" /\ req'[w].id = u /\ req'[w].n = n
      BY <1>0, <2>1, <2>4 DEF UploadSend, Goto, Frame, Request
    <3>2. /\ spoiled' = [spoiled EXCEPT ![u] = @ \ {n}]
          /\ partData' = [partData EXCEPT ![u][n] = req[w].data]
      BY <2>4 DEF UploadSend, provider_upload_part
    <3>3. partData'[u][n] # Torn
      BY <1>0, <2>1, <3>2 DEF Content
    <3> SUFFICES ASSUME NEW x \in UploadIds, NEW m \in PartNumbers, partData'[x][m] = Torn
                 PROVE  ~Cloud /\ (Counted(x, m)' => m \in spoiled'[x])
      BY DEF TornInv
    <3>4. partData[x][m] = Torn /\ (x # u \/ m # n)
      BY <2>3, <3>3
    <3>5. Counted(x, m)' => Counted(x, m)
      BY <2>2, <3>1, <3>4 DEF Counted, At, Frame
    <3>6. m \in spoiled[x] => m \in spoiled'[x]
      BY <1>0, <2>1, <3>2, <3>4
    <3> QED
      BY <3>4, <3>5, <3>6 DEF TornInv
  <2>5. CASE UploadTears(w)
    <3>1. ~Cloud /\ (UNCHANGED req \/ Calm(w))
      BY <2>5, CalmMoves DEF UploadTears
    <3>2. \A x \in UploadIds, m \in PartNumbers : Counted(x, m)' => Counted(x, m)
      BY <2>2, <3>1 DEF Counted, At, Calm, Frame, Harmless
    <3>3. /\ \A x \in UploadIds : spoiled[x] \subseteq spoiled'[x]
          /\ Counted(u, n) => n \in spoiled'[u]
      BY <1>0, <2>1, <2>5 DEF UploadTears
    <3> QED
      BY <2>1, <2>3, <3>1, <3>2, <3>3 DEF TornInv
  <2> QED
    BY <1>7, <2>4, <2>5
<1>8. ASSUME NEW w \in Workers, UploadRecord(w) PROVE TornInv'
  <2> DEFINE u == req[w].id
             n == req[w].n
  <2>1. u \in UploadIds /\ n \in PartNumbers /\ Counted(u, n)
    BY <1>0, <1>8 DEF UploadRecord, At, GoodRequest, Counted
  <2>2. PICK e : parts' = [parts EXCEPT ![u][n] = e]
    BY <1>8 DEF UploadRecord, record_uploaded_part
  <2>3. \A x \in UploadIds, m \in PartNumbers : parts'[x][m] # None => Counted(x, m)
    BY <1>0, <2>1, <2>2 DEF PartRows, Counted
  <2>4. UNCHANGED <<partData, spoiled>> /\ NoNewCount
    BY <1>8, CalmMoves, CountMoves DEF UploadRecord, storeVars
  <2> QED
    BY <2>3, <2>4, TornKept
<1>9. ASSUME NEW w \in Workers, AbortParts(w) PROVE TornInv'
  <2>1. UNCHANGED <<partData, spoiled>> /\ NoNewCount
    BY <1>9, CountMoves DEF AbortParts, PCs, storeVars, histVars
  <2>2. \A x \in UploadIds, m \in PartNumbers : parts'[x][m] = parts[x][m] \/ parts'[x][m] = None
    BY <1>0, <1>9 DEF AbortParts, delete_part_rows, NoParts
  <2> QED
    BY <2>1, <2>2, TornKept DEF Counted
<1>10. ASSUME NEW w \in Workers, CompleteParts(w) PROVE TornInv'
  <2>1. UNCHANGED <<parts, partData, spoiled>>
    BY <1>10 DEF CompleteParts, dbVars, storeVars, histVars
  <2>2. CASE Return(w)
    BY <1>1, <2>1, <2>2, CalmMoves, CountMoves
  <2>3. CASE req' = [req EXCEPT ![w].pc = "co_send", ![w].rows = parts[req[w].id]]
    <3>1. /\ \A v \in Workers \ {w} : req'[v] = req[v]
          /\ req'[w].id = req[w].id /\ req'[w].rows = parts[req[w].id]
          /\ req'[w].pc = "co_send"
      BY <1>0, <2>3 DEF Request
    <3>2. \A x \in UploadIds, m \in PartNumbers : Counted(x, m)' => Counted(x, m)
      BY <2>1, <3>1 DEF Counted, At
    <3> QED
      BY <2>1, <3>2 DEF TornInv
  <2> QED
    BY <1>10, <2>2, <2>3 DEF CompleteParts
<1>11. CASE Crash \/ \E w \in Workers : CrashInComplete(w)
  <2>1. UNCHANGED <<parts, partData, spoiled>> /\ \A v \in Workers : req'[v].pc = "idle"
    BY <1>11 DEF Crash, CrashInComplete, provider_restart, dbVars, histVars, Idle
  <2> QED
    BY <1>1, <2>1 DEF NoNewCount
<1>12. CASE UNCHANGED vars \/ \E u \in UploadIds : Age(u)
  <2>1. UNCHANGED <<parts, partData, spoiled, req>>
    BY <1>12 DEF vars, Age, dbVars, storeVars, histVars
  <2> QED
    BY <1>1, <2>1 DEF NoNewCount
<1>13. ASSUME NEW w \in Workers, Step(w) PROVE TornInv'
  BY <1>3, <1>4, <1>5, <1>6, <1>7, <1>8, <1>9, <1>10, <1>13 DEF Step
<1>14. ASSUME NEW w \in Workers, Begin(w) PROVE TornInv'
  BY <1>2, <1>3, <1>14 DEF Begin
<1> QED
  BY <1>11, <1>12, <1>13, <1>14 DEF Next

\* The inductive invariant holds initially.
LEMMA IInvInit == Init => IInv
<1> SUFFICES ASSUME Init PROVE IInv
  OBVIOUS
<1>1. Typed
  BY TypedInit
<1>2. BirthInv
  BY DEF Init, DBInit, StoreInit, Idle, BirthInv, BirthOf, RequestOf, OneCreator, Creating,
         HasRow, Recorded, NoParts
<1>3. CompletionInv
  BY DEF Init, DBInit, Idle, CompletionInv, ReliedSafe, Relied, OneCompletion, Completing, HasRow
<1>4. TornInv
  BY TornAssumption DEF Init, StoreInit, Empty, TornInv
<1> QED
  BY <1>1, <1>2, <1>3, <1>4 DEF IInv

\* Every step keeps the inductive invariant.
LEMMA IInvStep == IInv /\ [Next]_vars => IInv'
<1> SUFFICES ASSUME IInv, [Next]_vars PROVE BirthInv' /\ CompletionInv'
  BY TypedStep, TornStep DEF IInv
<1>1. ASSUME NEW w \in Workers, Step(w) PROVE BirthInv' /\ CompletionInv'
  BY <1>1, InitCreateInv, UploadCheckInv, UploadSendInv, UploadRecordInv, CompletePartsInv,
     CompleteSendInv, CompleteSendFailsInv, CompleteStatusInv, CompleteFileInv, AbortSendInv,
     AbortTablesInv, QuietInv
  DEF Step
<1>2. ASSUME NEW w \in Workers, Begin(w) PROVE BirthInv' /\ CompletionInv'
  BY <1>2, InitProviderInv, CompleteBeginInv, QuietInv DEF Begin
<1>3. ASSUME Crash \/ \E w \in Workers : CrashInComplete(w) PROVE BirthInv' /\ CompletionInv'
  BY <1>3, CrashInv
<1>4. ASSUME UNCHANGED vars \/ \E u \in UploadIds : Age(u) PROVE BirthInv' /\ CompletionInv'
  BY <1>4, SameRequests DEF vars, dbVars, storeVars, histVars, core, Age
<1> QED
  BY <1>1, <1>2, <1>3, <1>4 DEF Next

\* The inductive invariant holds throughout.
LEMMA Invariant == Spec => []IInv
  BY IInvInit, IInvStep, PTL DEF Spec

(***************************************************************************)
(* A completed row, a file row or a success answer always has its whole    *)
(* object, for any number of concurrent requests and of faults: the count  *)
(* of part rows in complete_multipart suffices because part rows never     *)
(* leave 1..total_chunks, even after an abort has deleted the row.  A part *)
(* of the object is half written only if a failing upload_part tore its    *)
(* file in the local provider after the part already counted.              *)
(***************************************************************************)
THEOREM CompletedObjects == Spec => []CompletedIsWhole
<1>1. IInv => CompletedIsWhole
  BY DEF IInv, CompletionInv, ReliedSafe, CompletedIsWhole
<1> QED
  BY <1>1, Invariant, PTL

(***************************************************************************)
(* At most one complete request of an upload ever gets past the provider.  *)
(***************************************************************************)
THEOREM SingleCompletion == Spec => []OneCompletion
<1>1. IInv => OneCompletion
  BY DEF IInv, CompletionInv
<1> QED
  BY <1>1, Invariant, PTL

(***************************************************************************)
(* No step rewrites an object that somebody relies on: the provider        *)
(* accepts no call for a completed upload, before or after a restart.      *)
(***************************************************************************)
THEOREM StableObjects == Spec => FinalObjectStable
<1> DEFINE Kept == \A u \in UploadIds : Relied(u) => objects'[u] = objects[u]
<1>1. ASSUME IInv, [Next]_vars PROVE Kept
  <2> SUFFICES ASSUME NEW u \in UploadIds, objects'[u] # objects[u] PROVE Accepts(u)
    BY <1>1, AcceptedNotRelied
  <2>0. objects \in [UploadIds -> Content \cup {None, Torn}]
    BY <1>1 DEF IInv, Typed, TypeOK, StoreTypeOK
  <2>1. ASSUME NEW w \in Workers, CompleteSend(w) \/ CompleteSendFails(w) \/ CrashInComplete(w)
        PROVE  Accepts(u)
    BY <2>0, <2>1
    DEF CompleteSend, CompleteSendFails, CrashInComplete, provider_complete_multipart,
        CanAssemble, storeVars
  <2>2. ASSUME NEW w \in Workers, Step(w) PROVE Accepts(u)
    <3>1. CASE \/ InitCreate(w) \/ UploadCheck(w) \/ UploadSend(w) \/ UploadTears(w)
               \/ UploadSendFails(w)
               \/ UploadRecord(w) \/ PendingParts(w) \/ CompleteParts(w) \/ CompleteStatus(w)
               \/ CompleteFile(w)
      BY <3>1
      DEF InitCreate, UploadCheck, UploadSend, UploadTears, UploadSendFails, UploadRecord, PendingParts,
          CompleteParts, CompleteStatus, CompleteFile, storeVars, provider_upload_part
    <3>2. CASE \/ AbortSend(w) \/ AbortStatus(w) \/ AbortParts(w) \/ AbortRow(w)
               \/ StatementFails(w) \/ \E x \in UploadIds : CleanupNext(w, x)
               \/ \E n \in PartNumbers : PickFails(w, n) \/ \E d \in Data : PickPending(w, n, d)
      BY <3>2
      DEF AbortSend, AbortStatus, AbortParts, AbortRow, StatementFails, CleanupNext, PickFails,
          PickPending, storeVars, provider_abort_multipart
    <3> QED
      BY <2>1, <2>2, <3>1, <3>2 DEF Step
  <2>3. ASSUME NEW w \in Workers, Begin(w) PROVE Accepts(u)
    BY <2>3
    DEF Begin, InitProvider, UploadBegin, PendingBegin, CompleteBegin, AbortBegin, CleanupList,
        storeVars, provider_init_multipart
  <2>4. ASSUME UNCHANGED vars \/ Crash \/ \E x \in UploadIds : Age(x) PROVE Accepts(u)
    BY <2>4 DEF vars, Crash, Age, storeVars, provider_restart
  <2> QED
    BY <1>1, <2>1, <2>2, <2>3, <2>4 DEF Next
<1> QED
  BY <1>1, Invariant, PTL DEF Spec, FinalObjectStable

----------------------------------------------------------------------------
(* What a cloud object is made of *)

\* Every row was recorded when it was written.
Listed(u, rows) == \A n \in PartNumbers : rows[n] # None => <<u, n, rows[n]>> \in recorded

\* So were the rows a completion has read, even if they were replaced or
\* deleted since, and the parts of every object.
Ledger ==
    /\ \A u \in UploadIds : Listed(u, parts[u])
    /\ \A w \in Workers : req[w].pc = "co_send" => Listed(req[w].id, req[w].rows)
    /\ ObjectOnlyRecorded

\* No request enters the provider's completion.
NoNewSend == \A v \in Workers : req'[v].pc = "co_send" => req'[v] = req[v]

\* A step that adds only recorded rows and leaves the objects and the requests
\* in completion alone.
LEMMA LedgerKept ==
  ASSUME Ledger, NoNewSend, recorded \subseteq recorded', UNCHANGED objects,
         \A u \in UploadIds, n \in PartNumbers :
            parts'[u][n] = parts[u][n] \/ parts'[u][n] = None \/ <<u, n, parts'[u][n]>> \in recorded'
  PROVE  Ledger'
<1>1. \A u \in UploadIds : Listed(u, parts[u])'
  BY DEF Ledger, Listed
<1>2. \A w \in Workers : (req[w].pc = "co_send" => Listed(req[w].id, req[w].rows))'
  BY DEF Ledger, Listed, NoNewSend
<1>3. ObjectOnlyRecorded'
  BY DEF Ledger, ObjectOnlyRecorded
<1> QED
  BY <1>1, <1>2, <1>3 DEF Ledger

\* Moves that do not enter the provider's completion.
LEMMA OtherMoves ==
  ASSUME Typed, NEW w \in Workers
  PROVE  /\ Calm(w) => NoNewSend
         /\ \A p \in PCs \ {"co_send"} : Goto(w, p) => NoNewSend
<1>0. req \in [Workers -> Request] /\ req[w] \in Request
  BY DEF Typed, TypeOK
<1>1. Calm(w) => NoNewSend
  BY DEF Calm, Frame, Harmless, NoNewSend
<1>2. ASSUME NEW p \in PCs \ {"co_send"}, Goto(w, p) PROVE NoNewSend
  <2>1. req'[w].pc = p /\ \A v \in Workers \ {w} : req'[v] = req[v]
    BY <1>0, <1>2 DEF Goto, Request
  <2> QED
    BY <2>1 DEF NoNewSend
<1> QED
  BY <1>1, <1>2

\* Every step of a manager with a cloud provider keeps the ledger.
LEMMA LedgerStep == Cloud /\ Typed /\ Ledger /\ [Next]_vars => Ledger'
<1> SUFFICES ASSUME Cloud, Typed, Ledger, [Next]_vars PROVE Ledger'
  OBVIOUS
<1>0. /\ req \in [Workers -> Request] /\ parts \in [UploadIds -> PartRows]
      /\ partData \in [UploadIds -> Content] /\ objects \in [UploadIds -> Content \cup {None, Torn}]
      /\ \A w \in Workers : req[w] \in Request /\ GoodRequest(req[w])
  BY DEF Typed, TypeOK, DBTypeOK, StoreTypeOK
<1>1. ASSUME NoNewSend, UNCHANGED <<parts, objects, recorded>> PROVE Ledger'
  BY <1>1, LedgerKept
<1>2. ASSUME NEW w \in Workers, NEW u \in UploadIds,
             \/ \E total \in PartNumbers : InitProvider(w, u, total)
             \/ CompleteBegin(w, u)
      PROVE  Ledger'
  <2>1. UNCHANGED <<parts, objects, recorded>>
    BY <1>2 DEF InitProvider, provider_init_multipart, CompleteBegin, dbVars, storeVars, histVars
  <2>2. /\ \A v \in Workers \ {w} : req'[v] = req[v]
        /\ req'[w] = req[w] \/ req'[w].pc \in {"init_create", "co_parts"}
    BY <1>0, <1>2 DEF InitProvider, CompleteBegin, Idle
  <2> QED
    BY <1>1, <2>1, <2>2 DEF NoNewSend
<1>3. ASSUME NEW w \in Workers,
             \/ PendingParts(w) \/ CleanupList(w) \/ StatementFails(w)
             \/ \E n \in PartNumbers : PickFails(w, n) \/ \E d \in Data : PickPending(w, n, d)
             \/ \E u \in UploadIds : CleanupNext(w, u) \/ PendingBegin(w, u) \/ AbortBegin(w, u)
             \/ \E u \in UploadIds, n \in 0..MaxParts + 1, d \in Data, t \in Retries :
                        UploadBegin(w, u, n, d, t)
      PROVE  Ledger'
  <2>1. Calm(w) /\ UNCHANGED core
    BY <1>3, QuietMoves
  <2>2. UNCHANGED recorded
    BY <1>3 DEF PendingParts, CleanupList, StatementFails, PickFails, PickPending,
         CleanupNext, PendingBegin, AbortBegin, UploadBegin, histVars
  <2> QED
    BY <1>1, <2>1, <2>2, OtherMoves DEF core
<1>4. ASSUME NEW w \in Workers,
             \/ InitCreate(w) \/ UploadCheck(w) \/ UploadSend(w) \/ UploadTears(w)
             \/ UploadSendFails(w) \/ CompleteSendFails(w) \/ CompleteStatus(w) \/ CompleteFile(w)
             \/ AbortSend(w) \/ AbortStatus(w) \/ AbortRow(w)
      PROVE  Ledger'
  <2>1. UNCHANGED <<parts, objects, recorded>>
    BY <1>4
    DEF InitCreate, UploadCheck, UploadSend, UploadTears, UploadSendFails, CompleteSendFails,
        CompleteStatus,
        CompleteFile, AbortSend, AbortStatus, AbortRow, create_multipart_upload,
        update_multipart_status, insert_file, delete_upload_row, provider_upload_part,
        provider_abort_multipart, dbVars, storeVars, histVars
  <2>2. NoNewSend
    <3>1. {"up_send", "up_record", "co_file", "ab_status", "ab_parts"} \subseteq PCs \ {"co_send"}
      BY DEF PCs
    <3>2. \/ Return(w) \/ PartDone(w) \/ AbortDone(w) \/ \E b \in BOOLEAN : PartFailed(w, b)
          \/ \E p \in PCs \ {"co_send"} : Goto(w, p)
      BY <1>4, <3>1
      DEF InitCreate, UploadCheck, UploadSend, UploadTears, UploadSendFails, CompleteSendFails,
        CompleteStatus,
          CompleteFile, AbortSend, AbortStatus, AbortRow
    <3> QED
      BY <3>2, CalmMoves, OtherMoves
  <2> QED
    BY <1>1, <2>1, <2>2
<1>5. ASSUME NEW w \in Workers, UploadRecord(w) PROVE Ledger'
  <2> DEFINE Adds(u, n, e) ==
                 /\ parts' = [parts EXCEPT ![u][n] = e]
                 /\ recorded' = recorded \cup {<<u, n, e>>}
  <2>1. PICK u \in UploadIds, n \in PartNumbers : \E e : Adds(u, n, e)
    BY <1>0, <1>5 DEF UploadRecord, record_uploaded_part, At, GoodRequest
  <2>2. UNCHANGED objects /\ NoNewSend
    BY <1>5, CalmMoves, OtherMoves DEF UploadRecord, storeVars
  <2>3. \A x \in UploadIds, m \in PartNumbers :
          parts'[x][m] = parts[x][m] \/ <<x, m, parts'[x][m]>> \in recorded'
    <3>1. PICK e : Adds(u, n, e)
      BY <2>1
    <3>2. QED
      BY <1>0, <3>1 DEF PartRows
  <2> QED
    BY <2>1, <2>2, <2>3, LedgerKept
<1>6. ASSUME NEW w \in Workers, AbortParts(w) PROVE Ledger'
  <2>1. NoNewSend
    BY <1>6, OtherMoves DEF AbortParts, PCs
  <2>2. UNCHANGED <<objects, recorded>>
    BY <1>6 DEF AbortParts, storeVars, histVars
  <2>3. \A x \in UploadIds, m \in PartNumbers : parts'[x][m] = parts[x][m] \/ parts'[x][m] = None
    BY <1>0, <1>6 DEF AbortParts, delete_part_rows, NoParts
  <2> QED
    BY <2>1, <2>2, <2>3, LedgerKept
<1>7. ASSUME NEW w \in Workers, CompleteParts(w) PROVE Ledger'
  <2>1. UNCHANGED <<parts, objects, recorded>>
    BY <1>7 DEF CompleteParts, dbVars, storeVars, histVars
  <2>2. CASE Return(w)
    BY <1>1, <2>1, <2>2, CalmMoves, OtherMoves
  <2>3. CASE req' = [req EXCEPT ![w].pc = "co_send", ![w].rows = parts[req[w].id]]
    <3>1. /\ \A v \in Workers \ {w} : req'[v] = req[v]
          /\ req'[w].id = req[w].id /\ req'[w].rows = parts[req[w].id]
      BY <1>0, <2>3 DEF Request
    <3>2. req[w].id \in UploadIds
      BY <1>0, <1>7 DEF CompleteParts, At, GoodRequest
    <3>3. \A v \in Workers : (req[v].pc = "co_send" => Listed(req[v].id, req[v].rows))'
      BY <2>1, <3>1, <3>2 DEF Ledger, Listed
    <3> QED
      BY <2>1, <3>3 DEF Ledger, Listed, ObjectOnlyRecorded
  <2> QED
    BY <1>7, <2>2, <2>3 DEF CompleteParts
<1>8. ASSUME NEW w \in Workers, CompleteSend(w) PROVE Ledger'
  <2>1. PICK u \in UploadIds, rows \in PartRows : u = req[w].id /\ rows = req[w].rows
    BY <1>0, <1>8 DEF CompleteSend, At, GoodRequest, Request
  <2>2. /\ CanAssemble(u, rows) /\ objects' = [objects EXCEPT ![u] = Assembled(u, rows)]
        /\ UNCHANGED <<parts, recorded>> /\ Listed(u, rows)
    BY <1>8, <2>1 DEF CompleteSend, provider_complete_multipart, dbVars, histVars, At, Ledger
  <2>3. NoNewSend
    BY <1>8, CalmMoves, OtherMoves DEF CompleteSend, PCs
  <2>4. ASSUME NEW n \in PartNumbers, Assembled(u, rows)[n] # None
        PROVE  <<u, n, ETag(Assembled(u, rows)[n])>> \in recorded
    <3>1. n \in Recorded(rows) /\ Assembled(u, rows)[n] = partData[u][n]
      BY <2>4 DEF Assembled
    <3>2. ETag(partData[u][n]) = rows[n] /\ rows[n] # None
      BY <2>2, <3>1 DEF CanAssemble, PartMatches, Recorded
    <3> QED
      BY <2>2, <3>1, <3>2 DEF Listed
  <2>5. ObjectOnlyRecorded'
    <3> SUFFICES ASSUME NEW x \in UploadIds, NEW n \in PartNumbers,
                        objects'[x] \in Content, objects'[x][n] # None
                 PROVE  <<x, n, ETag(objects'[x][n])>> \in recorded'
      BY DEF ObjectOnlyRecorded, ETag
    <3>1. CASE x = u
      BY <1>0, <2>2, <2>4, <3>1
    <3>2. CASE x # u
      BY <1>0, <2>2, <3>2 DEF Ledger, ObjectOnlyRecorded
    <3> QED
      BY <3>1, <3>2
  <2>6. \A x \in UploadIds : Listed(x, parts[x])'
    BY <2>2 DEF Ledger, Listed
  <2>7. \A v \in Workers : (req[v].pc = "co_send" => Listed(req[v].id, req[v].rows))'
    BY <2>2, <2>3 DEF Ledger, Listed, NoNewSend
  <2> QED
    BY <2>5, <2>6, <2>7 DEF Ledger
<1>9. CASE Crash
  <2>1. UNCHANGED <<parts, objects, recorded>> /\ \A v \in Workers : req'[v].pc = "idle"
    BY <1>9 DEF Crash, provider_restart, dbVars, histVars, Idle
  <2> QED
    BY <1>1, <2>1 DEF NoNewSend
<1>10. CASE UNCHANGED vars \/ \E u \in UploadIds : Age(u)
  <2>1. UNCHANGED <<parts, objects, recorded, req>>
    BY <1>10 DEF vars, Age, dbVars, storeVars, histVars
  <2> QED
    BY <1>1, <2>1 DEF NoNewSend
<1>11. ASSUME NEW w \in Workers, CrashInComplete(w) PROVE FALSE
  BY <1>11 DEF CrashInComplete
<1>12. ASSUME NEW w \in Workers, Step(w) PROVE Ledger'
  BY <1>3, <1>4, <1>5, <1>6, <1>7, <1>8, <1>12 DEF Step
<1>13. ASSUME NEW w \in Workers, Begin(w) PROVE Ledger'
  BY <1>2, <1>3, <1>13 DEF Begin
<1> QED
  BY <1>9, <1>10, <1>11, <1>12, <1>13 DEF Next

(***************************************************************************)
(* With a cloud provider an object is made only of parts whose ETag        *)
(* upload_part had recorded: complete_multipart lists the ETags it read    *)
(* from the database and the service compares them, so a part that was     *)
(* stored but answered with an error, or replaced behind the completion's  *)
(* back, never slips in, whatever is retried, lost or restarted.           *)
(***************************************************************************)
THEOREM RecordedObjects == ASSUME Cloud PROVE Spec => []ObjectOnlyRecorded
<1>1. Init => Typed /\ Ledger
  <2> SUFFICES ASSUME Init PROVE Ledger
    BY TypedInit
  <2>1. \A u \in UploadIds : Listed(u, parts[u])
    BY DEF Init, DBInit, NoParts, Listed
  <2>2. \A w \in Workers : req[w].pc # "co_send"
    BY DEF Init, Idle
  <2>3. \A u \in UploadIds : objects[u] \notin Content
    <3>1. \A u \in UploadIds : objects[u] = None
      BY DEF Init, StoreInit
    <3> QED
      BY <3>1, AbsentAssumption
  <2> QED
    BY <2>1, <2>2, <2>3 DEF Ledger, ObjectOnlyRecorded
<1>2. Typed /\ Ledger /\ [Next]_vars => (Typed /\ Ledger)'
  BY TypedStep, LedgerStep
<1>3. Ledger => ObjectOnlyRecorded
  BY DEF Ledger
<1> QED
  BY <1>1, <1>2, <1>3, PTL DEF Spec
============================================================================
