---------------------------- MODULE ChunkManager ----------------------------
(***************************************************************************)
(* ChunkManager (chunk_manager.v): the life cycle of a multipart upload    *)
(* over a database (MultipartDB) and a storage provider (StorageProvider). *)
(* A worker executes one request at a time; between two of its calls to    *)
(* the database or the provider other workers may run, the call may fail,  *)
(* and the server may crash.  A call of the local provider is one step but *)
(* for the write of a part.  A call that only reads and then returns an    *)
(* error changes nothing and is left out.                                  *)
(***************************************************************************)
EXTENDS StorageProvider

CONSTANTS
    Workers,     \* requests in flight: threads, or processes sharing the database
    RetryCount,  \* config.retry_count
    Faults,      \* the faults that may happen, see FaultKinds
    MaxFaults    \* bound on the number of faults in a behaviour

FaultKinds == {
    "provider",  \* a provider call fails without effect
    "lost",      \* a cloud call takes effect but its answer is lost (timeout)
    "torn",      \* a local file is left half written
    "source",    \* the caller's data_provider fails
    "db",        \* a SQL statement fails
    "crash" }    \* the server process restarts

ASSUME RetryAssumption == RetryCount \in Nat
ASSUME FaultsAssumption == Faults \subseteq FaultKinds /\ MaxFaults \in Nat

VARIABLES
    req,        \* worker -> the request it executes
    faults,     \* faults that may still happen
    born,       \* history: id -> total_chunks its row was created with, or 0
    recorded,   \* history: every <<id, part, etag>> ever stored in uploaded_parts
    confirmed,  \* history: id -> total_chunks of a successful complete answer, or 0
    cancelled,  \* history: ids whose abort was answered with success
    spoiled     \* history: id -> parts an upload_part truncated after they counted

histVars == <<born, recorded, confirmed, cancelled, spoiled>>
vars == <<dbVars, storeVars, req, faults, histVars>>

PCs == {"idle", "init_create", "pe_parts", "pick", "up_check", "up_send",
        "up_record", "co_parts", "co_send", "co_status", "co_file",
        "ab_pick", "ab_send", "ab_status", "ab_parts", "ab_row"}

Request == [
    pc      : PCs,
    id      : UploadIds \cup {None},
    n       : 0..MaxParts + 1,           \* part number
    data    : Data \cup {None},
    total   : 0..MaxParts,               \* upload.total_chunks as read
    rows    : PartRows,                  \* uploaded_parts as read
    todo    : SUBSET PartNumbers,        \* pending parts still to upload
    tries   : 0..RetryCount,             \* retries left for this part
    victims : SUBSET UploadIds,          \* stale uploads still to abort
    sweep   : BOOLEAN ]                  \* inside cleanup_stale_uploads

Idle == [pc |-> "idle", id |-> None, n |-> 0, data |-> None, total |-> 0,
         rows |-> NoParts, todo |-> {}, tries |-> 0, victims |-> {}, sweep |-> FALSE]

TypeOK ==
    /\ DBTypeOK
    /\ StoreTypeOK
    /\ req \in [Workers -> Request]
    /\ faults \in 0..MaxFaults
    /\ born \in [UploadIds -> 0..MaxParts]
    /\ recorded \in SUBSET (UploadIds \X PartNumbers \X ETags)
    /\ confirmed \in [UploadIds -> 0..MaxParts]
    /\ cancelled \in SUBSET UploadIds
    /\ spoiled \in [UploadIds -> SUBSET PartNumbers]

Init ==
    /\ DBInit
    /\ StoreInit
    /\ req = [w \in Workers |-> Idle]
    /\ faults = MaxFaults
    /\ born = [u \in UploadIds |-> 0]
    /\ recorded = {}
    /\ confirmed = [u \in UploadIds |-> 0]
    /\ cancelled = {}
    /\ spoiled = [u \in UploadIds |-> {}]

----------------------------------------------------------------------------
At(w, pc)   == req[w].pc = pc
Goto(w, pc) == req' = [req EXCEPT ![w].pc = pc]
Return(w)   == req' = [req EXCEPT ![w] = Idle]

NoFault     == faults' = faults
Fault(kind) == kind \in Faults /\ faults > 0 /\ faults' = faults - 1

----------------------------------------------------------------------------
(* init_multipart: the provider opens a session, then the row is created.  *)

InitProvider(w, u, total) ==
    /\ At(w, "idle")
    /\ provider_init_multipart(u)
    /\ \/ NoFault /\ req' = [req EXCEPT ![w] = [Idle EXCEPT !.pc = "init_create",
                                                          !.id = u, !.total = total]]
       \/ Cloud /\ Fault("lost") /\ UNCHANGED req
    /\ UNCHANGED <<dbVars, histVars>>

InitCreate(w) ==
    /\ At(w, "init_create")
    /\ create_multipart_upload(req[w].id, req[w].total)
    /\ born' = [born EXCEPT ![req[w].id] = req[w].total]
    /\ Return(w)
    /\ NoFault
    /\ UNCHANGED <<storeVars, recorded, confirmed, cancelled, spoiled>>

----------------------------------------------------------------------------
(* upload_part, alone or inside upload_pending_parts / retry_upload_part.  *)

\* The end of one part: the caller's loop goes on while parts are pending.
PartDone(w) ==
    req' = [req EXCEPT ![w] = IF @.todo = {} THEN Idle
                              ELSE [Idle EXCEPT !.pc = "pick", !.id = req[w].id,
                                                !.todo = req[w].todo]]

\* Mutant: the tries are not counted against the limit.
PartFailedEndless(w, retryable) ==
    IF retryable THEN req' = [req EXCEPT ![w].pc = "up_check", ![w].tries = @ - 1]
    ELSE PartDone(w)

\* The result of a failed attempt: retried while it is retryable and tries remain.
PartFailed(w, retryable) ==
    IF retryable /\ req[w].tries > 0
    THEN req' = [req EXCEPT ![w].pc = "up_check", ![w].tries = @ - 1]
    ELSE PartDone(w)

\* upload_part (no retry) or retry_upload_part (RetryCount retries).
Retries == {0, RetryCount}

UploadBegin(w, u, n, d, tries) ==
    /\ At(w, "idle")
    /\ req' = [req EXCEPT ![w] = [Idle EXCEPT !.pc = "up_check", !.id = u, !.n = n, !.data = d,
                                              !.tries = tries]]
    /\ NoFault
    /\ UNCHANGED <<dbVars, storeVars, histVars>>

UploadCheck(w) ==
    LET u == req[w].id IN
    /\ At(w, "up_check")
    /\ IF IsUploading(u) /\ req[w].n >= 1 /\ req[w].n <= uploads[u].total
       THEN Goto(w, "up_send")
       ELSE PartFailed(w, FALSE)
    /\ NoFault
    /\ UNCHANGED <<dbVars, storeVars, histVars>>

UploadSend(w) ==
    LET u == req[w].id  n == req[w].n IN
    /\ At(w, "up_send")
    /\ provider_upload_part(u, n, req[w].data)
    /\ Goto(w, "up_record")
    /\ spoiled' = [spoiled EXCEPT ![u] = @ \ {n}]
    /\ NoFault
    /\ UNCHANGED <<dbVars, born, recorded, confirmed, cancelled>>

\* Part n counts: a row records it, is about to, or was read by a completion.
Counted(u, n) ==
    \/ parts[u][n] # None
    \/ \E v \in Workers : req[v].id = u /\ \/ At(v, "up_record") /\ req[v].n = n
                                           \/ At(v, "co_send") /\ req[v].rows[n] # None

\* A local write first truncates the part's file, whether it is still under
\* way or has failed there; an earlier row of the part stays.
UploadTears(w) ==
    LET u == req[w].id  n == req[w].n IN
    /\ ~Cloud
    /\ At(w, "up_send")
    /\ provider_upload_part(u, n, Torn)
    /\ spoiled' = IF Counted(u, n) THEN [spoiled EXCEPT ![u] = @ \cup {n}] ELSE spoiled
    /\ \/ NoFault /\ UNCHANGED req
       \/ Fault("torn") /\ PartFailed(w, FALSE)
    /\ UNCHANGED <<dbVars, born, recorded, confirmed, cancelled>>

\* The session is unknown (not retryable), or the call fails without effect,
\* or with the part stored and the answer lost.
UploadSendFails(w) ==
    LET u == req[w].id  n == req[w].n IN
    /\ At(w, "up_send")
    /\ \/ ~Accepts(u) /\ NoFault /\ PartFailed(w, FALSE) /\ UNCHANGED storeVars
       \/ Fault("provider") /\ UNCHANGED storeVars
          /\ \E retryable \in BOOLEAN : PartFailed(w, retryable)
       \/ Cloud /\ Fault("lost") /\ provider_upload_part(u, n, req[w].data)
          /\ PartFailed(w, TRUE)
    /\ UNCHANGED <<dbVars, histVars>>

UploadRecord(w) ==
    LET u == req[w].id  n == req[w].n  etag == ETag(req[w].data) IN
    /\ At(w, "up_record")
    /\ \/ record_uploaded_part(u, n, etag, TRUE) /\ NoFault
       \/ record_uploaded_part(u, n, etag, FALSE) /\ Fault("db")
    /\ recorded' = recorded \cup {<<u, n, etag>>}
    /\ PartDone(w)
    /\ UNCHANGED <<storeVars, born, confirmed, cancelled, spoiled>>

\* upload_pending_parts: the row, then the part rows, then one part at a time.
PendingBegin(w, u) ==
    /\ At(w, "idle")
    /\ HasRow(u)
    /\ req' = [req EXCEPT ![w] = [Idle EXCEPT !.pc = "pe_parts", !.id = u,
                                              !.total = uploads[u].total]]
    /\ NoFault
    /\ UNCHANGED <<dbVars, storeVars, histVars>>

\* Mutant: the last part is never found pending.
get_pending_parts_short(total, rows) == (1..total - 1) \ Recorded(rows)
get_pending_parts(total, rows) == (1..total) \ Recorded(rows)

PendingParts(w) ==
    LET pending == get_pending_parts(req[w].total, parts[req[w].id]) IN
    /\ At(w, "pe_parts")
    /\ req' = [req EXCEPT ![w] = IF pending = {} THEN Idle
                                 ELSE [Idle EXCEPT !.pc = "pick", !.id = req[w].id, !.todo = pending]]
    /\ NoFault
    /\ UNCHANGED <<dbVars, storeVars, histVars>>

\* The pending parts are visited in ascending order.
FirstPending(w, n) == n \in req[w].todo /\ \A m \in req[w].todo : n <= m

PickPending(w, n, d) ==
    /\ At(w, "pick")
    /\ FirstPending(w, n)
    /\ req' = [req EXCEPT ![w].pc = "up_check", ![w].n = n, ![w].data = d,
                          ![w].todo = @ \ {n}, ![w].tries = RetryCount]
    /\ NoFault
    /\ UNCHANGED <<dbVars, storeVars, histVars>>

\* data_provider failed: the loop continues with the next pending part.
PickFails(w, n) ==
    LET rest == req[w].todo \ {n} IN
    /\ At(w, "pick")
    /\ FirstPending(w, n)
    /\ Fault("source")
    /\ req' = [req EXCEPT ![w] = IF rest = {} THEN Idle ELSE [@ EXCEPT !.todo = rest]]
    /\ UNCHANGED <<dbVars, storeVars, histVars>>

----------------------------------------------------------------------------
(* complete_multipart *)

CompleteBegin(w, u) ==
    /\ At(w, "idle")
    /\ IsUploading(u)
    /\ req' = [req EXCEPT ![w] = [Idle EXCEPT !.pc = "co_parts", !.id = u,
                                              !.total = uploads[u].total]]
    /\ NoFault
    /\ UNCHANGED <<dbVars, storeVars, histVars>>

\* The NUMBER of part rows is compared with total_chunks.
\* Mutant: one recorded part is enough.
AllRecordedAny(rows, total) == Recorded(rows) # {}
AllRecorded(rows, total) == Cardinality(Recorded(rows)) = total

CompleteParts(w) ==
    LET rows == parts[req[w].id] IN
    /\ At(w, "co_parts")
    /\ IF AllRecorded(rows, req[w].total)
       THEN req' = [req EXCEPT ![w].pc = "co_send", ![w].rows = rows]
       ELSE Return(w)
    /\ NoFault
    /\ UNCHANGED <<dbVars, storeVars, histVars>>

CompleteSend(w) ==
    /\ At(w, "co_send")
    /\ provider_complete_multipart(req[w].id, req[w].rows)
    /\ \/ Goto(w, "co_status") /\ NoFault
       \/ Return(w) /\ Cloud /\ Fault("lost")
    /\ UNCHANGED <<dbVars, histVars>>

CompleteSendFails(w) ==
    LET u == req[w].id IN
    /\ At(w, "co_send")
    /\ \/ ~CanAssemble(u, req[w].rows) /\ NoFault /\ UNCHANGED storeVars
       \/ Fault("provider") /\ UNCHANGED storeVars
       \/ ~Cloud /\ Fault("torn") /\ CanAssemble(u, req[w].rows)
          /\ objects' = [objects EXCEPT ![u] = Torn]
          /\ UNCHANGED <<session, partData, known>>
    /\ Return(w)
    /\ UNCHANGED <<dbVars, histVars>>

CompleteStatus(w) ==
    /\ At(w, "co_status")
    /\ update_multipart_status(req[w].id, "completed")
    /\ Goto(w, "co_file")
    /\ NoFault
    /\ UNCHANGED <<storeVars, histVars>>

\* The answer is a success whether or not the file row could be inserted.
CompleteFile(w) ==
    LET u == req[w].id IN
    /\ At(w, "co_file")
    /\ \/ insert_file(u) /\ NoFault
       \/ UNCHANGED dbVars /\ Fault("db")
    /\ confirmed' = [confirmed EXCEPT ![u] = req[w].total]
    /\ Return(w)
    /\ UNCHANGED <<storeVars, born, recorded, cancelled, spoiled>>

----------------------------------------------------------------------------
(* abort_multipart, alone or inside cleanup_stale_uploads *)

\* The end of one abort: the sweep goes on while victims remain.
AbortDone(w) ==
    req' = [req EXCEPT ![w] = IF @.victims = {} THEN Idle
                              ELSE [Idle EXCEPT !.pc = "ab_pick", !.victims = req[w].victims,
                                                !.sweep = TRUE]]

AbortBegin(w, u) ==
    /\ At(w, "idle")
    /\ HasRow(u)
    /\ req' = [req EXCEPT ![w] = [Idle EXCEPT !.pc = "ab_send", !.id = u]]
    /\ NoFault
    /\ UNCHANGED <<dbVars, storeVars, histVars>>

\* The pending uploads not updated within max_age_seconds.
stale_uploads == list_pending_multipart_uploads \cap stale

CleanupList(w) ==
    LET victims == stale_uploads IN
    /\ At(w, "idle")
    /\ victims # {}
    /\ req' = [req EXCEPT ![w] = [Idle EXCEPT !.pc = "ab_pick", !.victims = victims,
                                              !.sweep = TRUE]]
    /\ NoFault
    /\ UNCHANGED <<dbVars, storeVars, histVars>>

CleanupNext(w, u) ==
    LET rest == req[w].victims \ {u} IN
    /\ At(w, "ab_pick")
    /\ u \in req[w].victims
    /\ req' = [req EXCEPT ![w] =
                 IF HasRow(u) THEN [@ EXCEPT !.pc = "ab_send", !.id = u, !.victims = rest]
                 ELSE IF rest = {} THEN Idle
                 ELSE [@ EXCEPT !.victims = rest]]
    /\ NoFault
    /\ UNCHANGED <<dbVars, storeVars, histVars>>

\* Whatever the provider answers, the clean-up of the database follows.
AbortSend(w) ==
    LET u == req[w].id IN
    /\ At(w, "ab_send")
    /\ \/ provider_abort_multipart(u) /\ NoFault
       \/ ~Accepts(u) /\ NoFault /\ UNCHANGED storeVars
       \/ Fault("provider") /\ UNCHANGED storeVars
    /\ Goto(w, "ab_status")
    /\ UNCHANGED <<dbVars, histVars>>

AbortStatus(w) ==
    /\ At(w, "ab_status")
    /\ update_multipart_status(req[w].id, "aborted")
    /\ Goto(w, "ab_parts")
    /\ NoFault
    /\ UNCHANGED <<storeVars, histVars>>

AbortParts(w) ==
    /\ At(w, "ab_parts")
    /\ delete_part_rows(req[w].id)
    /\ Goto(w, "ab_row")
    /\ NoFault
    /\ UNCHANGED <<storeVars, histVars>>

AbortRow(w) ==
    /\ At(w, "ab_row")
    /\ delete_upload_row(req[w].id)
    /\ cancelled' = cancelled \cup {req[w].id}
    /\ AbortDone(w)
    /\ NoFault
    /\ UNCHANGED <<storeVars, born, recorded, confirmed, spoiled>>

----------------------------------------------------------------------------
\* A failing statement ends the operation with an error (a sweep goes on
\* with its next victim, a loop over pending parts with its next part).
StatementFails(w) ==
    /\ Fault("db")
    /\ \/ req[w].pc \in {"init_create", "pe_parts", "co_parts", "co_status"} /\ Return(w)
       \/ req[w].pc \in {"up_check", "up_record"} /\ PartFailed(w, FALSE)
       \/ req[w].pc \in {"ab_status", "ab_parts", "ab_row"} /\ AbortDone(w)
    /\ UNCHANGED <<dbVars, storeVars, histVars>>

\* Time passes: an upload has not been updated for longer than max_age_seconds.
Age(u) ==
    /\ IsUploading(u)
    /\ stale' = stale \cup {u}
    /\ UNCHANGED <<uploads, parts, files, storeVars, req, faults, histVars>>

Crash ==
    /\ Fault("crash")
    /\ req' = [w \in Workers |-> Idle]
    /\ provider_restart
    /\ UNCHANGED <<dbVars, histVars>>

\* A local completion interrupted after it began to write the final file.
CrashInComplete(w) ==
    LET u == req[w].id IN
    /\ ~Cloud
    /\ At(w, "co_send")
    /\ CanAssemble(u, req[w].rows)
    /\ Fault("crash")
    /\ \E o \in {Torn, Assembled(u, req[w].rows)} : objects' = [objects EXCEPT ![u] = o]
    /\ known' = {}
    /\ req' = [v \in Workers |-> Idle]
    /\ UNCHANGED <<session, partData, dbVars, histVars>>

Step(w) ==
    \/ InitCreate(w)
    \/ UploadCheck(w) \/ UploadSend(w) \/ UploadTears(w) \/ UploadSendFails(w)
    \/ UploadRecord(w)
    \/ PendingParts(w)
    \/ \E n \in PartNumbers : PickFails(w, n) \/ \E d \in Data : PickPending(w, n, d)
    \/ CompleteParts(w) \/ CompleteSend(w) \/ CompleteSendFails(w)
    \/ CompleteStatus(w) \/ CompleteFile(w)
    \/ \E u \in UploadIds : CleanupNext(w, u)
    \/ AbortSend(w) \/ AbortStatus(w) \/ AbortParts(w) \/ AbortRow(w)
    \/ StatementFails(w)

Begin(w) ==
    \/ \E u \in UploadIds :
          \/ \E total \in PartNumbers : InitProvider(w, u, total)
          \/ \E n \in 0..MaxParts + 1, d \in Data, t \in Retries : UploadBegin(w, u, n, d, t)
          \/ PendingBegin(w, u)
          \/ CompleteBegin(w, u)
          \/ AbortBegin(w, u)
    \/ CleanupList(w)

Next ==
    \/ \E w \in Workers : Step(w) \/ Begin(w) \/ CrashInComplete(w)
    \/ \E u \in UploadIds : Age(u)
    \/ Crash

Spec == Init /\ [][Next]_vars

----------------------------------------------------------------------------
(* What the code promises *)

\* The object o holds every part 1..total as some upload_part sent it, except,
\* with the local provider, the parts of torn.
Whole(o, total, torn) ==
    o \in Content /\ \A n \in 1..total : o[n] \in Data \/ (~Cloud /\ n \in torn)

\* A worker is past the provider's completion of u.
Completing(w, u) == req[w].pc \in {"co_status", "co_file"} /\ req[w].id = u

\* Somebody relies on the object of u: the row says completed, a file row
\* points at it, a client was told so, or a worker is about to tell.
Relied(u) ==
    \/ HasRow(u) /\ uploads[u].status = "completed"
    \/ u \in files
    \/ confirmed[u] > 0
    \/ \E w \in Workers : Completing(w, u)

(***************************************************************************)
(* Whoever relies on a completed upload finds an object with every part,   *)
(* none of them half written: comparing the NUMBER of part rows with       *)
(* total_chunks in complete_multipart is enough, whatever aborts, sweeps,  *)
(* re-uploads, faults and restarts happen between its statements.  With    *)
(* the local provider one kind of part is excepted: an upload_part that    *)
(* fails or is under way has truncated the file of a part recorded before  *)
(* (local_storage.v:433), the row stays, and complete_multipart, which     *)
(* ignores the ETags, joins what is left of it.                            *)
(***************************************************************************)
CompletedIsWhole ==
    \A u \in UploadIds : Relied(u) => born[u] > 0 /\ Whole(objects[u], born[u], spoiled[u])

(***************************************************************************)
(* Two complete requests for one upload never both get past the provider,  *)
(* at the same time or one after the other: the second answers an error.   *)
(***************************************************************************)
OneCompletion ==
    \A u \in UploadIds : \A w \in Workers :
        Completing(w, u) =>
            /\ confirmed[u] = 0
            /\ \A v \in Workers \ {w} : ~Completing(v, u)

(***************************************************************************)
(* The object of a completed upload is never rewritten by a late or        *)
(* repeated multipart operation on the same upload id.                     *)
(***************************************************************************)
FinalObjectStable == [][\A u \in UploadIds : Relied(u) => objects'[u] = objects[u]]_vars

(***************************************************************************)
(* With a cloud provider a completed object is made only of parts whose    *)
(* ETag the database had recorded: a part whose upload_part was answered   *)
(* with an error before it was recorded never slips into the object.       *)
(***************************************************************************)
ObjectOnlyRecorded ==
    \A u \in UploadIds : \A n \in PartNumbers :
        objects[u] \in Content /\ objects[u][n] # None
            => <<u, n, ETag(objects[u][n])>> \in recorded

(***************************************************************************)
(* abort_multipart, chunk_manager.v:255: "cleans all uploaded parts and    *)
(* temporary data": once no request is in flight, an upload whose abort    *)
(* was answered with success has no rows in uploaded_parts.                *)
(***************************************************************************)
AbortFreesPartRows ==
    (\A w \in Workers : At(w, "idle")) => \A u \in cancelled : parts[u] = NoParts

(***************************************************************************)
(* cleanup_stale_uploads, chunk_manager.v:634: "uploads not updated for    *)
(* longer than the given time": the sweep aborts no upload that has been   *)
(* updated within max_age_seconds.                                         *)
(***************************************************************************)
SweepOnlyStale ==
    [][\A w \in Workers : At(w, "ab_send") /\ req[w].sweep /\ req'[w].pc = "ab_status"
           /\ IsUploading(req[w].id) => req[w].id \in stale]_vars

----------------------------------------------------------------------------
(* A client that keeps asking for its pending parts and for completion,    *)
(* and workers that finish what they began.                                *)

Fairness ==
    \A w \in Workers :
        /\ WF_vars(Step(w))
        /\ \A u \in UploadIds : SF_vars(PendingBegin(w, u)) /\ SF_vars(CompleteBegin(w, u))

LiveSpec == Spec /\ Fairness

(***************************************************************************)
(* A resumed upload ends: while the provider keeps its sessions and        *)
(* answers are not lost, an upload in the uploading state is completed     *)
(* sooner or later unless it is aborted.                                   *)
(***************************************************************************)
UploadEnds ==
    \A u \in UploadIds :
        IsUploading(u) ~> (HasRow(u) => uploads[u].status \in {"completed", "aborted"})
============================================================================
