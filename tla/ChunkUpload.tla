---------------------------- MODULE ChunkUpload ----------------------------
(***************************************************************************)
(* ChunkUploadManager of upload.v and the upload of one file through it.   *)
(* Chunks lie in a directory per chunk size, next to a record of the bytes *)
(* received; the record decides when the chunks are merged, the status in  *)
(* memory how many of them.  A request is one step: the manager's server   *)
(* runs a handler to its end.  The manager, with what it keeps on disk, is *)
(* a record, and an operation is a function on it.                         *)
(* A crash inside a handler leaves what a failing step of the handler and  *)
(* the restart after it leave.                                             *)
(***************************************************************************)
EXTENDS Integers, Sequences, FiniteSets

CONSTANTS Bytes,        \* file_size of the file
          Sizes,        \* chunk sizes its clients use
          NoFile,       \* a file that does not exist
          NoStatus,     \* no entry in uploads
          MaxRequests,  \* bound on the chunks sent
          MaxFaults     \* bound on the steps that fail

ASSUME ChunkUploadAssumption ==
    Bytes \in Nat \ {0} /\ Sizes \subseteq Nat \ {0} /\ MaxRequests \in Nat /\ MaxFaults \in Nat

\* A missing file and a missing status are told apart from every other.
ASSUME AbsentAssumption ==
    /\ NoFile \notin Seq(Nat)
    /\ NoStatus \notin [chunk_size : Nat, uploaded_chunks : Seq(Nat), status : {"uploading", "completed"}]

File == [b \in 1 .. Bytes |-> b]

\* The number of chunks of size c, and the bytes of the one with index i.
Count(c) == (Bytes + c - 1) \div c

ChunkOf(c, i) == SubSeq(File, i * c + 1, IF (i + 1) * c < Bytes THEN (i + 1) * c ELSE Bytes)

VARIABLES mgr,       \* the manager and its files
          config,    \* use_file_service and clear_chunks_on_complete
          requests,  \* chunks sent so far
          faults     \* steps that failed so far

vars == <<mgr, config, requests, faults>>

\* new_chunk_upload_manager on empty directories.  "disk" are the chunk files
\* that are whole, "torn" those that a failing write left cut short.
\* "announced", "clean" and "short" are history: some answer said that the
\* file was merged; no chunk was received twice, the status was not lost in
\* the middle, the chunk size was kept and no merge was cut off; some merge
\* copied a chunk only in part and went on.
Fresh ==
    [disk |-> {}, torn |-> {}, record |-> [c \in Sizes |-> 0], status |-> NoStatus, final |-> NoFile,
     row |-> FALSE, stored |-> <<>>, announced |-> FALSE, clean |-> TRUE, short |-> FALSE]

Files(m) == m.disk \cup m.torn
-----------------------------------------------------------------------------
(* The parts of a request.                                                 *)

\* os.write_file of the chunk.
Save(m, c, i) ==
    [m EXCEPT !.disk = @ \cup {<<c, i>>},
              !.torn = @ \ {<<c, i>>},
              !.clean = @ /\ <<c, i>> \notin m.disk
                          /\ (m.status = NoStatus \/ m.status.chunk_size = c)]

\* os.write_file that fails after it has opened the file: a chunk of that name
\* is gone, and a part of the new one is there.
Tear(m, c, i) ==
    [m EXCEPT !.disk = @ \ {<<c, i>>},
              !.torn = @ \cup {<<c, i>>},
              !.clean = @ /\ <<c, i>> \notin m.disk]

update_upload_status(m, c, i) ==
    LET old == IF m.status = NoStatus
                 THEN [chunk_size |-> c, uploaded_chunks |-> <<>>, status |-> "uploading"]
                 ELSE m.status
        known == \E k \in DOMAIN old.uploaded_chunks : old.uploaded_chunks[k] = i
    IN  [m EXCEPT !.status = IF known THEN old
                             ELSE [old EXCEPT !.uploaded_chunks = Append(@, i)]]

\* What the record says after update_chunk_size_record.  A record that cannot
\* be read is begun anew, one that cannot be written is the old one, or holds
\* the first digits of the new one or nothing: always too few bytes.
Recordings(m, c, i, fails) ==
    LET sum == m.record[c] + Len(ChunkOf(c, i))
    IN  IF "record" \in fails THEN 0 .. sum ELSE {sum}

update_chunk_size_record(m, c, r) == [m EXCEPT !.record[c] = r]

\* Mutant: the merge starts when the next chunk would complete the file.
all_chunk_uploaded_early(m, c) == m.record[c] + c >= Bytes

\* Mutant: the record has to exceed the size of the file.
all_chunk_uploaded_beyond(m, c) == m.record[c] > Bytes

all_chunk_uploaded(m, c) == m.record[c] >= Bytes

\* How many bytes of each of the first chunks a merge copies.  The loop takes
\* an error of read for the end of the chunk (or { break }); so a chunk whose
\* reading fails is copied in part, and so is one that is torn.
Copies(m, c, total, failed) ==
    {got \in [0 .. total - 1 -> 0 .. c] :
        \A i \in 0 .. total - 1 :
            \/ got[i] = Len(ChunkOf(c, i))
            \/ got[i] < Len(ChunkOf(c, i)) /\ (<<c, i>> \in m.torn \/ i \in failed)}

Unread(total, fails) == IF "read" \in fails THEN 0 .. total - 1 ELSE {}

Partial(c, got, total) == \E i \in 0 .. total - 1 : got[i] < Len(ChunkOf(c, i))

\* The first chunks, one after the other, as far as they are copied.
Joined(c, got, total) ==
    LET upto[k \in 0 .. total] ==
            IF k = 0 THEN <<>> ELSE upto[k - 1] \o SubSeq(ChunkOf(c, k - 1), 1, got[k - 1])
    IN  upto[total]

Present(m, c, total) == \A i \in 0 .. total - 1 : <<c, i>> \in Files(m)

CanMerge(m, c, total) == m.final # NoFile \/ Present(m, c, total)

\* Mutant: the chunks are joined in the order in which they came.
merge_chunks_arrival(m, c, total, got) ==
    LET came == m.status.uploaded_chunks
        upto[k \in 0 .. total] == IF k = 0 THEN <<>> ELSE upto[k - 1] \o ChunkOf(c, came[k])
    IN  IF m.final # NoFile THEN m ELSE [m EXCEPT !.final = upto[total]]

\* Mutant: a file that exists is written again.
merge_chunks_again(m, c, total, got) ==
    [m EXCEPT !.final = Joined(c, got, total), !.short = @ \/ Partial(c, got, total)]

merge_chunks(m, c, total, got) ==
    IF m.final # NoFile THEN m
    ELSE [m EXCEPT !.final = Joined(c, got, total), !.short = @ \/ Partial(c, got, total)]

\* The final file is left with k chunks, the last of them perhaps in part.
CutOff(m, c, k, got) ==
    [m EXCEPT !.final = Joined(c, got, k), !.clean = FALSE, !.short = @ \/ Partial(c, got, k - 1)]

\* What merge_chunks may leave when it returns an error: the final file cannot
\* be created, or a chunk is missing, cannot be opened or cannot be written,
\* after the chunks before it were; what was written of the final file stays.
merge_chunks_error(m, c, total, fails) ==
    \/ "merge" \in fails /\ mgr' = m
    \/ \E k \in 0 .. total :
           /\ m.final = NoFile /\ Present(m, c, k)
           /\ "merge" \in fails \/ (k < total /\ <<c, k>> \notin Files(m))
           /\ LET failed == Unread(k, fails) \cup (IF "merge" \in fails THEN {k - 1} ELSE {})
              IN  \E got \in Copies(m, c, k, failed) : mgr' = CutOff(m, c, k, got)

cleanup_chunks(m, c, fails) ==
    [m EXCEPT !.record[c] = 0,
              !.disk = IF "remove" \in fails THEN @ ELSE {x \in @ : x[1] # c},
              !.torn = IF "remove" \in fails THEN @ ELSE {x \in @ : x[1] # c}]

\* insert_or_update_file_simple: a failure is logged and passed over.
Recorded(m, fails) == IF "db" \in fails THEN m ELSE [m EXCEPT !.row = TRUE]

\* merge_and_store_to_file_service without an error.
Stored(m, c, total, got) ==
    [m EXCEPT !.stored = Append(@, Joined(c, got, total)), !.short = @ \/ Partial(c, got, total)]

\* The status and the answer, then the chunks go if they are to.
Completed(m, c, clear, fails) ==
    LET done == [m EXCEPT !.status.status = "completed", !.announced = TRUE]
    IN  IF clear THEN cleanup_chunks(done, c, fails) ELSE done

\* Merging m's chunks of size c at the end of a request.
Merge(m, c, clear, fails) ==
    LET total == Len(m.status.uploaded_chunks)
        service == config.use_file_service
        copies == Copies(m, c, total, Unread(total, fails))
    IN  \/ /\ service /\ Present(m, c, total) /\ "store" \notin fails
           /\ \E got \in copies : mgr' = Completed(Stored(m, c, total, got), c, clear, fails)
        \/ /\ service /\ (~Present(m, c, total) \/ "store" \in fails)
           /\ mgr' = m
        \/ /\ ~service /\ CanMerge(m, c, total) /\ "merge" \notin fails
           /\ \E got \in copies :
                  mgr' = Completed(Recorded(merge_chunks(m, c, total, got), fails), c, clear, fails)
        \/ /\ ~service /\ (~CanMerge(m, c, total) \/ "merge" \in fails)
           /\ merge_chunks_error(m, c, total, fails)
-----------------------------------------------------------------------------
Init ==
    /\ mgr = Fresh
    /\ config \in [use_file_service : BOOLEAN, clear_chunks_on_complete : BOOLEAN]
    /\ requests = 0
    /\ faults = 0

\* The steps of a request that fail.
Failing(fails) ==
    /\ faults + Cardinality(fails) <= MaxFaults
    /\ faults' = faults + Cardinality(fails)
    /\ UNCHANGED config

\* handle_chunk_upload of a chunk that cannot be saved.
UploadRefused(c, i) ==
    /\ requests < MaxRequests
    /\ Failing({"save"})
    /\ requests' = requests + 1
    /\ mgr' \in {mgr, Tear(mgr, c, i)}

\* handle_chunk_upload otherwise.  A record that cannot be read back counts for
\* nothing.
handle_chunk_upload(c, i, fails) ==
    /\ requests < MaxRequests
    /\ requests' = requests + 1
    /\ Failing(fails)
    /\ LET n == update_upload_status(Save(mgr, c, i), c, i)
       IN  \E r \in Recordings(n, c, i, fails) :
               LET m == update_chunk_size_record(n, c, r)
               IN  \/ /\ ~all_chunk_uploaded(m, c) \/ "check" \in fails
                      /\ mgr' = m
                   \/ /\ all_chunk_uploaded(m, c) /\ "check" \notin fails
                      /\ Merge(m, c, config.clear_chunks_on_complete, fails)

\* handle_chunk_merge of a client that knows the number of its chunks; the
\* chunk size is the one of the status.
handle_chunk_merge(c, fails) ==
    /\ mgr.status # NoStatus /\ Len(mgr.status.uploaded_chunks) = Count(c)
    /\ Failing(fails)
    /\ LET size == mgr.status.chunk_size
       IN  Merge([mgr EXCEPT !.clean = @ /\ size = c], size, TRUE, fails)
    /\ UNCHANGED requests

\* handle_chunk_merge_internal: the embedding program merges all the chunks.
handle_chunk_merge_internal(c, fails) ==
    /\ Failing(fails)
    /\ \/ /\ CanMerge(mgr, c, Count(c)) /\ "merge" \notin fails
          /\ \E got \in Copies(mgr, c, Count(c), Unread(Count(c), fails)) :
                 mgr' = Recorded(merge_chunks(mgr, c, Count(c), got), fails)
       \/ /\ ~CanMerge(mgr, c, Count(c)) \/ "merge" \in fails
          /\ merge_chunks_error(mgr, c, Count(c), fails)
    /\ UNCHANGED requests

cleanup_chunks_public(c, fails) ==
    /\ Failing(fails)
    /\ mgr' = cleanup_chunks(mgr, c, fails)
    /\ UNCHANGED requests

\* The status of the upload is dropped.
Forgotten(m) == [m EXCEPT !.status = NoStatus, !.clean = @ /\ m.disk = {}]

cleanup_upload_status ==
    /\ mgr.status # NoStatus
    /\ mgr' = Forgotten(mgr)
    /\ UNCHANGED <<config, requests, faults>>

\* cleanup_invalid_status looks for the final file under the name the client
\* gave, while it is kept under its hash, and for the first chunk.
cleanup_invalid_status ==
    /\ mgr.status # NoStatus
    /\ <<mgr.status.chunk_size, 0>> \notin Files(mgr)
    /\ mgr' = Forgotten(mgr)
    /\ UNCHANGED <<config, requests, faults>>

\* A new manager on the directories of the old one.
Restart ==
    /\ mgr' = Forgotten(mgr)
    /\ UNCHANGED <<config, requests, faults>>

Steps == {"record", "check", "read", "merge", "store", "db", "remove"}

\* The combinations of failures that the bound admits.
Failures == {fails \in SUBSET Steps : Cardinality(fails) <= MaxFaults}

Next ==
    \/ \E c \in Sizes : \E i \in 0 .. Count(c) - 1 : UploadRefused(c, i)
    \/ \E c \in Sizes, fails \in Failures :
           \/ \E i \in 0 .. Count(c) - 1 : handle_chunk_upload(c, i, fails)
           \/ handle_chunk_merge(c, fails)
           \/ handle_chunk_merge_internal(c, fails)
    \/ \E c \in Sizes, fails \in SUBSET {"remove"} : cleanup_chunks_public(c, fails)
    \/ cleanup_upload_status \/ cleanup_invalid_status \/ Restart

Spec == Init /\ [][Next]_vars
-----------------------------------------------------------------------------
(* Properties.                                                             *)

TypeOK ==
    /\ Files(mgr) \subseteq {<<c, i>> : c \in Sizes, i \in 0 .. Bytes - 1}
    /\ mgr.disk \cap mgr.torn = {}
    /\ mgr.record \in [Sizes -> 0 .. MaxRequests * Bytes]
    /\ mgr.status # NoStatus =>
           /\ mgr.status.chunk_size \in Sizes
           /\ mgr.status.status \in {"uploading", "completed"}
           /\ \A k \in DOMAIN mgr.status.uploaded_chunks :
                  mgr.status.uploaded_chunks[k] \in 0 .. Bytes - 1
    /\ {mgr.row, mgr.announced, mgr.clean, mgr.short} \subseteq BOOLEAN
    /\ requests \in 0 .. MaxRequests /\ faults \in 0 .. MaxFaults

IsPrefixOfFile(content) == content = SubSeq(File, 1, Len(content))

\* Bytes of the file, none twice and none before one that precedes it.
InOrder(content) ==
    \A a, b \in DOMAIN content : content[a] \in 1 .. Bytes /\ (a < b => content[a] < content[b])

\* Whatever chunks arrive, in whatever order, sizes and repetitions, whatever
\* fails and is restarted: the final file and every file stored by the file
\* service hold bytes of the file in their order, none twice; and they hold
\* the first bytes with no gap, unless a merge went on behind a chunk that it
\* could not read to the end (upload.v:475 and 520 take an error for the end).
FinalIsPrefix ==
    LET contents == {mgr.stored[k] : k \in DOMAIN mgr.stored} \cup ({mgr.final} \ {NoFile})
    IN  \A content \in contents : InOrder(content) /\ (~mgr.short => IsPrefixOfFile(content))

\* A file that was announced as merged is the whole file, also when chunks are
\* sent again: docs/README_CHUNK_UPLOAD.md:327 promises resumed uploads and
\* retries of failed requests.  The size record counts a chunk that is sent
\* again a second time, so this does not hold.
RetriedIsWhole ==
    /\ mgr.announced /\ ~config.use_file_service => mgr.final = File
    /\ \A k \in DOMAIN mgr.stored : mgr.stored[k] = File

\* A file that was announced as merged is the whole file, as long as no chunk
\* was received twice, the status was not lost between two chunks, the chunk
\* size was kept, no merge was cut off and none copied a chunk in part.
\* (Without one of these the size record counts bytes that the status does not
\* know, and the merge comes too early, joins too few chunks or leaves a gap.)
AnnouncedIsWhole == mgr.clean /\ ~mgr.short => RetriedIsWhole

\* All the chunks of a size are there and whole.
Complete(m, c) == \A i \in 0 .. Count(c) - 1 : <<c, i>> \in m.disk

\* When all the chunks are there the file has been merged: the record of the
\* bytes received has not fallen behind them.
MergedWhenAllThere ==
    mgr.clean /\ faults = 0 /\ (\E c \in Sizes : Complete(mgr, c)) =>
        mgr.final # NoFile \/ mgr.stored # <<>>

\* A final file is never replaced, by whatever is sent again.
FinalIsKept == [][mgr.final # NoFile => mgr'.final = mgr.final]_vars
=============================================================================
