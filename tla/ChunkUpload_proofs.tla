------------------------- MODULE ChunkUpload_proofs -------------------------
(***************************************************************************)
(* The file that an upload leaves, for files of any size, any sizes of     *)
(* chunks, any number of requests and any failures.  A final file is kept: *)
(* every part of a request keeps one that exists.  What is joined is in    *)
(* order, and a prefix of the file if every chunk is copied in full, which *)
(* is shown of the recursive function that joins the chunks.  In a clean   *)
(* upload the size record equals the bytes of the whole chunks on disk as  *)
(* long as nothing fails and is never above them; so when it reaches the   *)
(* size of the file every chunk is there, the status has seen each once,   *)
(* and the merge joins all of them.                                        *)
(***************************************************************************)
EXTENDS ChunkUpload, FiniteSetTheorems, SequenceTheorems, WellFoundedInduction, TLAPS

Whole(m) ==
    m = [disk |-> m.disk, torn |-> m.torn, record |-> m.record, status |-> m.status, final |-> m.final,
         row |-> m.row, stored |-> m.stored, announced |-> m.announced, clean |-> m.clean, short |-> m.short]

\* A part of a request leads from m to n and keeps a final file.
Keeps(m, n) == Whole(n) /\ (m.final # NoFile => n.final = m.final)

\* Writing a chunk.
LEMMA SaveKeeps ==
    ASSUME NEW m, Whole(m), NEW c, NEW i
    PROVE  Keeps(m, Save(m, c, i))
<1>1. PICK d, t, b : Save(m, c, i) = [m EXCEPT !.disk = d, !.torn = t, !.clean = b]
  BY DEF Save
<1>2. QED
  BY <1>1 DEF Whole, Keeps

\* Writing it in part.
LEMMA TearKeeps ==
    ASSUME NEW m, Whole(m), NEW c, NEW i
    PROVE  Keeps(m, Tear(m, c, i))
<1>1. PICK d, t, b : Tear(m, c, i) = [m EXCEPT !.disk = d, !.torn = t, !.clean = b]
  BY DEF Tear
<1>2. QED
  BY <1>1 DEF Whole, Keeps

\* Noting it in the status.
LEMMA StatusKeeps ==
    ASSUME NEW m, Whole(m), NEW c, NEW i
    PROVE  Keeps(m, update_upload_status(m, c, i))
<1> DEFINE n == update_upload_status(m, c, i)
<1>1. PICK s : n = [m EXCEPT !.status = s]
  BY DEF update_upload_status
<1>2. QED
  BY <1>1 DEF Whole, Keeps

\* Counting its bytes.
LEMMA RecordKeeps ==
    ASSUME NEW m, Whole(m), NEW c, NEW r
    PROVE  Keeps(m, update_chunk_size_record(m, c, r))
<1>1. PICK f : update_chunk_size_record(m, c, r) = [m EXCEPT !.record = f]
  BY DEF update_chunk_size_record
<1>2. QED
  BY <1>1 DEF Whole, Keeps

\* merge_chunks returns at once when there is a final file.
LEMMA MergeChunksKeeps ==
    ASSUME NEW m, Whole(m), NEW c, NEW total, NEW got
    PROVE  Keeps(m, merge_chunks(m, c, total, got))
<1>1. PICK f, b : merge_chunks(m, c, total, got) =
                    IF m.final # NoFile THEN m ELSE [m EXCEPT !.final = f, !.short = b]
  BY DEF merge_chunks
<1>2. QED
  BY <1>1 DEF Whole, Keeps

\* What a merge that fails leaves: nothing new, or some of the first chunks.
LEMMA MergeErrorForm ==
    ASSUME NEW m, NEW c, NEW total, NEW fails, merge_chunks_error(m, c, total, fails)
    PROVE  \/ mgr' = m
           \/ /\ m.final = NoFile
              /\ \E k \in 0 .. total : \E failed : \E got \in Copies(m, c, k, failed) :
                    mgr' = CutOff(m, c, k, got)
  BY Zenon DEF merge_chunks_error

\* A merge that fails writes only where there is no final file.
LEMMA MergeErrorKeeps ==
    ASSUME NEW m, Whole(m), NEW c, NEW total, NEW fails, merge_chunks_error(m, c, total, fails)
    PROVE  Keeps(m, mgr')
<1>1. ASSUME NEW k, NEW got PROVE Whole(CutOff(m, c, k, got))
  <2>1. PICK f, b : CutOff(m, c, k, got) = [m EXCEPT !.final = f, !.clean = FALSE, !.short = b]
    BY Zenon DEF CutOff
  <2>2. QED
    BY <2>1 DEF Whole
<1>2. QED
  BY <1>1, MergeErrorForm DEF Keeps

\* Removing chunks and size record.
LEMMA CleanupKeeps ==
    ASSUME NEW m, Whole(m), NEW c, NEW fails
    PROVE  Keeps(m, cleanup_chunks(m, c, fails))
<1>1. PICK r, d, t : cleanup_chunks(m, c, fails) = [m EXCEPT !.record = r, !.disk = d, !.torn = t]
  BY DEF cleanup_chunks
<1>2. QED
  BY <1>1 DEF Whole, Keeps

\* The row in the database.
LEMMA RecordedKeeps ==
    ASSUME NEW m, Whole(m), NEW fails
    PROVE  Keeps(m, Recorded(m, fails))
  BY DEF Whole, Keeps, Recorded

\* A file given to the file service.
LEMMA StoredKeeps ==
    ASSUME NEW m, Whole(m), NEW c, NEW total, NEW got
    PROVE  Keeps(m, Stored(m, c, total, got))
<1>1. PICK s, b : Stored(m, c, total, got) = [m EXCEPT !.stored = s, !.short = b]
  BY DEF Stored
<1>2. QED
  BY <1>1 DEF Whole, Keeps

\* The end of a merge, with the clean-up behind it.
LEMMA CompletedKeeps ==
    ASSUME NEW m, Whole(m), NEW c, NEW clear, NEW fails
    PROVE  Keeps(m, Completed(m, c, clear, fails))
<1> DEFINE done == [m EXCEPT !.status.status = "completed", !.announced = TRUE]
<1>1. PICK s : done = [m EXCEPT !.status = s, !.announced = TRUE]
  OBVIOUS
<1> HIDE DEF done
<1>2. Keeps(m, done)
  BY <1>1 DEF Whole, Keeps
<1>3. Keeps(done, cleanup_chunks(done, c, fails))
  BY <1>2, CleanupKeeps DEF Keeps
<1>4. Completed(m, c, clear, fails) = IF clear THEN cleanup_chunks(done, c, fails) ELSE done
  BY DEF Completed, done
<1>5. QED
  BY <1>2, <1>3, <1>4 DEF Keeps

\* Dropping the status.
LEMMA ForgottenKeeps ==
    ASSUME NEW m, Whole(m)
    PROVE  Keeps(m, Forgotten(m))
<1>1. PICK b : Forgotten(m) = [m EXCEPT !.status = NoStatus, !.clean = b]
  BY DEF Forgotten
<1>2. QED
  BY <1>1 DEF Whole, Keeps

\* The parts of a request follow each other.
LEMMA KeepsTransitive ==
    ASSUME NEW m, NEW n, NEW o, Keeps(m, n), Keeps(n, o)
    PROVE  Keeps(m, o)
  BY DEF Keeps

\* A merge of either kind, with any outcome.
LEMMA MergeKeeps ==
    ASSUME NEW m, Whole(m), NEW c, NEW clear, NEW fails, Merge(m, c, clear, fails)
    PROVE  Keeps(m, mgr')
<1> DEFINE total == Len(m.status.uploaded_chunks)
<1>1. ASSUME NEW got, mgr' = Completed(Stored(m, c, total, got), c, clear, fails) PROVE Keeps(m, mgr')
  <2>1. Keeps(m, Stored(m, c, total, got))
    BY StoredKeeps
  <2>2. Keeps(Stored(m, c, total, got), mgr')
    BY <1>1, <2>1, CompletedKeeps DEF Keeps
  <2>3. QED
    BY <2>1, <2>2, KeepsTransitive
<1>2. CASE mgr' = m
  BY <1>2 DEF Keeps
<1>3. ASSUME NEW got, mgr' = Completed(Recorded(merge_chunks(m, c, total, got), fails), c, clear, fails)
      PROVE  Keeps(m, mgr')
  <2> DEFINE n == merge_chunks(m, c, total, got)
             o == Recorded(n, fails)
  <2>1. Keeps(m, n)
    BY MergeChunksKeeps
  <2>2. Keeps(n, o)
    BY <2>1, RecordedKeeps DEF Keeps
  <2>3. Keeps(o, mgr')
    BY <1>3, <2>2, CompletedKeeps DEF Keeps
  <2> HIDE DEF n, o
  <2>4. QED
    BY <2>1, <2>2, <2>3, KeepsTransitive
<1>4. CASE merge_chunks_error(m, c, total, fails)
  BY <1>4, MergeErrorKeeps
<1>5. QED
  BY <1>1, <1>2, <1>3, <1>4 DEF Merge
-----------------------------------------------------------------------------
\* Every request, clean-up and restart.
LEMMA NextKeeps == ASSUME Whole(mgr), [Next]_vars PROVE Keeps(mgr, mgr')
<1>1. ASSUME NEW c, NEW i, UploadRefused(c, i) PROVE Keeps(mgr, mgr')
  BY <1>1, TearKeeps DEF UploadRefused, Keeps
<1>2. ASSUME NEW c, NEW i, NEW fails, handle_chunk_upload(c, i, fails) PROVE Keeps(mgr, mgr')
  <2> DEFINE m1 == Save(mgr, c, i)
             m2 == update_upload_status(m1, c, i)
  <2>0. PICK r : LET m == update_chunk_size_record(m2, c, r)
                 IN  mgr' = m \/ Merge(m, c, config.clear_chunks_on_complete, fails)
    BY <1>2 DEF handle_chunk_upload
  <2> DEFINE m == update_chunk_size_record(m2, c, r)
  <2>1. Keeps(mgr, m1)
    BY SaveKeeps
  <2>2. Keeps(m1, m2)
    BY <2>1, StatusKeeps DEF Keeps
  <2>3. Keeps(m2, m)
    BY <2>2, RecordKeeps DEF Keeps
  <2>4. mgr' = m \/ Merge(m, c, config.clear_chunks_on_complete, fails)
    BY <2>0
  <2> HIDE DEF m1, m2, m
  <2>5. Keeps(mgr, m)
    BY <2>1, <2>2, <2>3, KeepsTransitive
  <2>6. Keeps(m, mgr')
    BY <2>4, <2>5, MergeKeeps DEF Keeps
  <2>7. QED
    BY <2>5, <2>6, KeepsTransitive
<1>3. ASSUME NEW c, NEW fails, handle_chunk_merge(c, fails) PROVE Keeps(mgr, mgr')
  <2> DEFINE size == mgr.status.chunk_size
             m == [mgr EXCEPT !.clean = mgr.clean /\ size = c]
  <2>1. Merge(m, size, TRUE, fails)
    BY <1>3 DEF handle_chunk_merge
  <2>2. Keeps(mgr, m)
    BY DEF Whole, Keeps
  <2> HIDE DEF m
  <2>3. Keeps(m, mgr')
    BY <2>1, <2>2, MergeKeeps DEF Keeps
  <2>4. QED
    BY <2>2, <2>3, KeepsTransitive
<1>4. ASSUME NEW c, NEW fails, handle_chunk_merge_internal(c, fails) PROVE Keeps(mgr, mgr')
  <2>1. CASE merge_chunks_error(mgr, c, Count(c), fails)
    BY <2>1, MergeErrorKeeps
  <2>2. ASSUME NEW got, mgr' = Recorded(merge_chunks(mgr, c, Count(c), got), fails) PROVE Keeps(mgr, mgr')
    <3> DEFINE n == merge_chunks(mgr, c, Count(c), got)
    <3>1. Keeps(mgr, n)
      BY MergeChunksKeeps
    <3>2. Keeps(n, Recorded(n, fails))
      BY <3>1, RecordedKeeps DEF Keeps
    <3>3. mgr' = Recorded(n, fails)
      BY <2>2
    <3> HIDE DEF n
    <3>4. QED
      BY <3>1, <3>2, <3>3, KeepsTransitive
  <2>3. QED
    BY <1>4, <2>1, <2>2 DEF handle_chunk_merge_internal
<1>5. ASSUME NEW c, NEW fails, cleanup_chunks_public(c, fails) PROVE Keeps(mgr, mgr')
  BY <1>5, CleanupKeeps DEF cleanup_chunks_public
<1>6. CASE cleanup_upload_status \/ cleanup_invalid_status \/ Restart
  BY <1>6, ForgottenKeeps DEF cleanup_upload_status, cleanup_invalid_status, Restart
<1>7. CASE UNCHANGED vars
  BY <1>7 DEF vars, Keeps
<1>8. QED
  BY <1>1, <1>2, <1>3, <1>4, <1>5, <1>6, <1>7 DEF Next

\* A final file is never replaced, whatever chunks are sent again, whatever
\* fails and however often the manager is restarted (merge_chunks).
THEOREM FinalFilesKept == Spec => FinalIsKept
<1> DEFINE Step == mgr.final # NoFile => mgr'.final = mgr.final
<1>1. Init => Whole(mgr)
  BY DEF Init, Fresh, Whole
<1>2. Whole(mgr) /\ [Next]_vars => Whole(mgr)'
  BY NextKeeps DEF Keeps, Whole
<1>3. Whole(mgr) /\ [Next]_vars => [Step]_vars
  BY NextKeeps DEF Keeps
<1>4. QED
  BY <1>1, <1>2, <1>3, PTL DEF Spec, FinalIsKept
-----------------------------------------------------------------------------
(* Chunks and what they join to.                                           *)

\* The first n bytes of the file.
Prefix(n) == [b \in 1 .. n |-> b]
Prefixes == {Prefix(n) : n \in 0 .. Bytes}

\* Where the chunk with index k begins, or the file ends.
Cut(c, k) == IF c * k < Bytes THEN c * k ELSE Bytes

\* The chunks cover the file, and without the last one they do not.
LEMMA CountFacts ==
    ASSUME NEW c \in Sizes
    PROVE  /\ c \in Nat \ {0} /\ Bytes \in Nat \ {0}
           /\ Count(c) \in Nat \ {0} /\ c * Count(c) >= Bytes /\ c * Count(c) - c < Bytes
<1>1. c \in Nat \ {0} /\ Bytes \in Nat \ {0}
  BY ChunkUploadAssumption
<1>2. PICK a \in Nat : a = Bytes + c - 1
  BY <1>1
<1>3. PICK q \in Int : q = a \div c
  BY <1>1, <1>2
<1>4. c * q <= a /\ a < c * q + c
  BY <1>1, <1>2, <1>3
<1>5. q > 0
  BY <1>1, <1>2, <1>3, <1>4
<1>6. Count(c) = q
  BY <1>2, <1>3 DEF Count
<1>7. c * q \in Int
  BY <1>1, <1>3
<1>8. QED
  BY <1>1, <1>2, <1>3, <1>4, <1>5, <1>6, <1>7

\* A piece of the file.
LEMMA FilePiece ==
    ASSUME NEW x \in 0 .. Bytes, NEW y \in x .. Bytes
    PROVE  /\ SubSeq(File, x + 1, y) \in Seq(Nat)
           /\ Len(SubSeq(File, x + 1, y)) = y - x
           /\ \A j \in 1 .. y - x : SubSeq(File, x + 1, y)[j] = x + j
<1>1. Bytes \in Nat
  BY ChunkUploadAssumption
<1>2. File \in Seq(Nat) /\ Len(File) = Bytes /\ \A b \in 1 .. Bytes : File[b] = b
  BY <1>1 DEF File
<1>3. QED
  BY <1>1, <1>2

\* The bytes of a chunk.
LEMMA ChunkBytes ==
    ASSUME NEW c \in Sizes, NEW k \in Nat
    PROVE  /\ Cut(c, k) \in 0 .. Bytes /\ Cut(c, k + 1) \in Cut(c, k) .. Bytes
           /\ ChunkOf(c, k) \in Seq(Nat)
           /\ Len(ChunkOf(c, k)) = Cut(c, k + 1) - Cut(c, k)
           /\ \A j \in 1 .. Len(ChunkOf(c, k)) : ChunkOf(c, k)[j] = Cut(c, k) + j
<1>1. c \in Nat \ {0} /\ Bytes \in Nat \ {0}
  BY ChunkUploadAssumption
<1>2. PICK a \in Nat : a = c * k /\ c * (k + 1) = a + c /\ k * c = a /\ (k + 1) * c = a + c
  BY <1>1
<1>3. PICK x \in 0 .. Bytes : x = Cut(c, k) /\ (a < Bytes => x = a) /\ (a >= Bytes => x = Bytes)
  BY <1>1, <1>2 DEF Cut
<1>4. PICK y \in x .. Bytes : y = Cut(c, k + 1) /\ (a + c < Bytes => y = a + c) /\ (a + c >= Bytes => y = Bytes)
  BY <1>1, <1>2, <1>3 DEF Cut
<1>5. PICK s : s = ChunkOf(c, k)
  OBVIOUS
<1>6. s \in Seq(Nat) /\ Len(s) = y - x /\ \A j \in 1 .. y - x : s[j] = x + j
  <2>1. CASE a < Bytes
    <3>1. s = SubSeq(File, x + 1, y)
      BY <1>1, <1>2, <1>3, <1>4, <1>5, <2>1 DEF ChunkOf
    <3>2. QED
      BY <3>1, FilePiece
  <2>2. CASE a >= Bytes
    <3>1. s = SubSeq(File, a + 1, Bytes) /\ x = Bytes /\ y = Bytes
      BY <1>1, <1>2, <1>3, <1>4, <1>5, <2>2 DEF ChunkOf
    <3>2. s = <<>>
      BY <1>1, <2>2, <3>1 DEF File
    <3>3. QED
      BY <1>1, <3>1, <3>2
  <2>3. QED
    BY <1>1, <1>2, <2>1, <2>2
<1>7. QED
  BY <1>3, <1>4, <1>5, <1>6

\* Bytes up to the n-th, in their order and none twice.
Below(n) ==
    {q \in Seq(Nat) : /\ \A a \in DOMAIN q : q[a] \in 1 .. n
                      /\ \A a, b \in DOMAIN q : a < b => q[a] < q[b]}

\* The beginning of a chunk, as far as it is copied, continues what was joined
\* before it: in order always, and without a gap if there was none.
LEMMA PieceContinues ==
    ASSUME NEW c \in Sizes, NEW k \in Nat, NEW g \in 0 .. Len(ChunkOf(c, k))
    PROVE  LET piece == SubSeq(ChunkOf(c, k), 1, g)
           IN  /\ Cut(c, k) + g \in 0 .. Bytes
               /\ Prefix(Cut(c, k)) \o piece = Prefix(Cut(c, k) + g)
               /\ \A q \in Below(Cut(c, k)) : q \o piece \in Below(Cut(c, k + 1))
<1> DEFINE piece == SubSeq(ChunkOf(c, k), 1, g)
<1>1. Bytes \in Nat
  BY ChunkUploadAssumption
<1>2. PICK x \in 0 .. Bytes : x = Cut(c, k)
  BY ChunkBytes
<1>3. PICK y \in x .. Bytes : y = Cut(c, k + 1)
  BY <1>2, ChunkBytes
<1>4. x \in Nat /\ y \in Nat /\ g \in Nat /\ x + g <= y
  <2>1. x \in Nat /\ y \in Nat /\ x <= y
    BY <1>1, <1>2, <1>3
  <2>2. Len(ChunkOf(c, k)) = y - x
    BY <1>2, <1>3, ChunkBytes, Zenon
  <2>3. QED
    BY <2>1, <2>2
<1>5. piece \in Seq(Nat) /\ Len(piece) = g /\ \A j \in 1 .. g : piece[j] = x + j
  <2>1. PICK s \in Seq(Nat) : s = ChunkOf(c, k)
    BY ChunkBytes
  <2>2. g \in 0 .. Len(s) /\ \A j \in 1 .. Len(s) : s[j] = x + j
    BY <1>2, <2>1, ChunkBytes
  <2>3. QED
    BY <2>1, <2>2
<1>6. PICK s : s = piece
  OBVIOUS
<1>7. s \in Seq(Nat) /\ Len(s) = g /\ DOMAIN s = 1 .. g /\ \A j \in 1 .. g : s[j] = x + j
  BY <1>4, <1>5, <1>6
<1> HIDE DEF piece
<1>8. ASSUME NEW q \in Seq(Nat), NEW n \in Nat, n = Len(q)
      PROVE  /\ q \o s \in Seq(Nat) /\ Len(q \o s) = n + g
             /\ \A j \in 1 .. n + g : (q \o s)[j] = IF j <= n THEN q[j] ELSE x + (j - n)
  <2>1. /\ q \o s \in Seq(Nat) /\ Len(q \o s) = Len(q) + Len(s)
        /\ \A j \in 1 .. Len(q) + Len(s) : (q \o s)[j] = IF j <= Len(q) THEN q[j] ELSE s[j - Len(q)]
    BY <1>7, ConcatProperties, Zenon
  <2>2. ASSUME NEW j \in 1 .. n + g PROVE (q \o s)[j] = IF j <= n THEN q[j] ELSE x + (j - n)
    <3>1. (q \o s)[j] = IF j <= n THEN q[j] ELSE s[j - n]
      BY <1>7, <1>8, <2>1
    <3>2. ~(j <= n) => j - n \in 1 .. g
      BY <1>4
    <3>3. QED
      BY <1>7, <3>1, <3>2
  <2>3. QED
    BY <1>7, <1>8, <2>1, <2>2
<1>9. Prefix(x) \o s = Prefix(x + g)
  <2>1. PICK q : q = Prefix(x)
    OBVIOUS
  <2>2. q \in Seq(Nat) /\ Len(q) = x /\ \A j \in 1 .. x : q[j] = j
    BY <1>2, <2>1 DEF Prefix
  <2>3. PICK r : r = q \o s
    OBVIOUS
  <2>4. r \in Seq(Nat) /\ Len(r) = x + g /\ \A j \in 1 .. x + g : r[j] = IF j <= x THEN q[j] ELSE x + (j - x)
    BY <1>4, <1>8, <2>2, <2>3
  <2>5. \A j \in 1 .. x + g : r[j] = j
    BY <1>2, <1>4, <2>2, <2>4
  <2>6. r = Prefix(x + g)
    BY <1>2, <1>4, <2>4, <2>5 DEF Prefix
  <2>7. QED
    BY <2>1, <2>3, <2>6
<1>10. ASSUME NEW q \in Below(x) PROVE q \o s \in Below(y)
  <2>1. PICK n \in Nat : n = Len(q) /\ DOMAIN q = 1 .. n
    BY DEF Below
  <2>2. /\ q \in Seq(Nat) /\ \A a \in 1 .. n : q[a] \in 1 .. x
        /\ \A a, b \in 1 .. n : a < b => q[a] < q[b]
    BY <2>1 DEF Below
  <2>3. PICK r : r = q \o s
    OBVIOUS
  <2>4. r \in Seq(Nat) /\ Len(r) = n + g /\ \A j \in 1 .. n + g : r[j] = IF j <= n THEN q[j] ELSE x + (j - n)
    BY <1>8, <2>1, <2>2, <2>3
  <2>5. DOMAIN r = 1 .. n + g
    BY <1>4, <2>4
  <2>6. ASSUME NEW a \in 1 .. n + g PROVE r[a] \in 1 .. y
    <3>1. CASE a <= n
      <4>1. a \in 1 .. n /\ r[a] = q[a]
        BY <1>4, <2>4, <3>1
      <4>2. q[a] \in 1 .. x
        BY <2>2, <4>1
      <4>3. QED
        BY <1>4, <1>3, <4>1, <4>2
    <3>2. CASE ~(a <= n)
      <4>1. r[a] = x + (a - n) /\ a - n \in 1 .. g
        BY <1>4, <2>4, <3>2
      <4>2. QED
        BY <1>2, <1>3, <1>4, <4>1
    <3>3. QED
      BY <3>1, <3>2
  <2>7. ASSUME NEW a \in 1 .. n + g, NEW b \in 1 .. n + g, a < b PROVE r[a] < r[b]
    <3>1. CASE b <= n
      <4>1. a \in 1 .. n /\ b \in 1 .. n /\ r[a] = q[a] /\ r[b] = q[b]
        BY <1>4, <2>4, <2>7, <3>1
      <4>2. QED
        BY <2>2, <2>7, <4>1
    <3>2. CASE a <= n /\ ~(b <= n)
      <4>1. r[a] = q[a] /\ q[a] \in 1 .. x /\ r[b] = x + (b - n) /\ b - n >= 1
        BY <1>4, <2>2, <2>4, <3>2
      <4>2. QED
        BY <1>2, <4>1
    <3>3. CASE ~(a <= n)
      <4>1. r[a] = x + (a - n) /\ r[b] = x + (b - n)
        BY <1>4, <2>4, <2>7, <3>3
      <4>2. QED
        BY <1>2, <2>7, <4>1
    <3>4. QED
      BY <1>4, <2>7, <3>1, <3>2, <3>3
  <2>8. QED
    BY <2>3, <2>4, <2>5, <2>6, <2>7 DEF Below
<1>11. x + g \in 0 .. Bytes
  BY <1>1, <1>2, <1>3, <1>4
<1>12. QED
  BY <1>2, <1>3, <1>6, <1>9, <1>10, <1>11 DEF piece

\* A set of numbers has a least one.
LEMMA LeastNumber ==
    ASSUME NEW T, T \subseteq Nat, T # {}
    PROVE  \E f \in T : \A j \in T : f <= j
<1>1. PICK less : less = OpToRel(<, Nat)
  BY Zenon
<1>2. IsWellFoundedOn(less, Nat)
  BY <1>1, NatLessThanWellFounded, Zenon
<1>3. PICK f \in T : \A y \in T : <<y, f>> \notin less
  BY <1>2, WFMin, Zenon
<1>4. \A y \in T : ~(y < f)
  BY <1>1, <1>3 DEF OpToRel
<1>5. QED
  BY <1>4

\* What is joined is the last of these contents.
Joins(c, got, total, upto) ==
    /\ Joined(c, got, total) = upto[total] /\ upto[0] = <<>>
    /\ \A k \in 0 .. total - 1 : upto[k + 1] = upto[k] \o SubSeq(ChunkOf(c, k), 1, got[k])

\* The recursive function that joins the chunks: there is a solution of its
\* equation up to every number of chunks, since the least number without one
\* would have a solution below it, which one more chunk extends.
LEMMA JoinedSteps ==
    ASSUME NEW c, NEW got, NEW total \in Nat
    PROVE  \E upto : Joins(c, got, total, upto)
<1> DEFINE Piece(k) == SubSeq(ChunkOf(c, k), 1, got[k])
           Solves(f, n) == f = [k \in 0 .. n |-> IF k = 0 THEN <<>> ELSE f[k - 1] \o Piece(k - 1)]
<1> HIDE DEF Piece, Solves
<1>1. PICK T : T = {n \in 0 .. total : ~\E f : Solves(f, n)}
  OBVIOUS
<1>2. ASSUME T # {} PROVE FALSE
  <2>1. T \subseteq Nat
    BY <1>1
  <2>2. PICK n \in T : \A j \in T : n <= j
    BY <1>2, <2>1, LeastNumber
  <2>3. n \in 0 .. total /\ ~\E f : Solves(f, n)
    BY <1>1
  <2>4. CASE n = 0
    <3>1. PICK f : f = [k \in 0 .. 0 |-> <<>>]
      OBVIOUS
    <3>2. \A k \in 0 .. 0 : k = 0
      OBVIOUS
    <3>3. f = [k \in 0 .. 0 |-> IF k = 0 THEN <<>> ELSE f[k - 1] \o Piece(k - 1)]
      BY <3>1, <3>2
    <3>4. QED
      BY <2>3, <2>4, <3>3 DEF Solves
  <2>5. CASE n # 0
    <3>1. PICK p \in Nat : n = p + 1 /\ p \in 0 .. total /\ p \notin T
      <4>1. n - 1 \in Nat /\ n = (n - 1) + 1 /\ n - 1 \in 0 .. total /\ ~(n <= n - 1)
        BY <2>3, <2>5
      <4>2. QED
        BY <2>2, <4>1
    <3>2. PICK f : Solves(f, p)
      BY <1>1, <3>1
    <3>3. PICK g : g = [k \in 0 .. n |-> IF k = n THEN f[p] \o Piece(p) ELSE f[k]]
      OBVIOUS
    <3>4. \A k \in 0 .. p : f[k] = IF k = 0 THEN <<>> ELSE f[k - 1] \o Piece(k - 1)
      BY <3>2 DEF Solves
    <3>5. \A k \in 0 .. p : g[k] = f[k]
      BY <3>1, <3>3
    <3>6. ASSUME NEW k \in 0 .. n PROVE g[k] = IF k = 0 THEN <<>> ELSE g[k - 1] \o Piece(k - 1)
      <4>1. CASE k = n
        <5>1. k - 1 = p /\ p \in 0 .. p /\ k # 0
          BY <3>1, <4>1
        <5>2. g[k] = f[p] \o Piece(p)
          BY <3>3, <4>1
        <5>3. QED
          BY <3>5, <5>1, <5>2
      <4>2. CASE k # n
        <5>1. k \in 0 .. p /\ (k # 0 => k - 1 \in 0 .. p)
          BY <3>1, <4>2
        <5>2. QED
          BY <3>4, <3>5, <5>1
      <4>3. QED
        BY <4>1, <4>2
    <3>7. g = [k \in 0 .. n |-> IF k = 0 THEN <<>> ELSE g[k - 1] \o Piece(k - 1)]
      BY <3>3, <3>6
    <3>8. QED
      BY <2>3, <3>7 DEF Solves
  <2>6. QED
    BY <2>4, <2>5
<1>3. \E f : Solves(f, total)
  BY <1>1, <1>2
<1>4. PICK upto : upto = CHOOSE f : Solves(f, total)
  OBVIOUS
<1>5. Solves(upto, total)
  BY <1>3, <1>4, Zenon
<1>6. Joined(c, got, total) = upto[total]
  BY <1>4, Zenon DEF Joined, Piece, Solves
<1>7. \A k \in 0 .. total : upto[k] = IF k = 0 THEN <<>> ELSE upto[k - 1] \o Piece(k - 1)
  BY <1>5 DEF Solves
<1>8. ASSUME NEW k \in 0 .. total - 1 PROVE upto[k + 1] = upto[k] \o Piece(k)
  <2>1. k + 1 \in 0 .. total /\ k + 1 # 0 /\ (k + 1) - 1 = k
    OBVIOUS
  <2>2. QED
    BY <1>7, <2>1
<1>9. upto[0] = <<>>
  BY <1>7
<1>10. QED
  BY <1>6, <1>8, <1>9 DEF Piece, Joins

\* Chunks that are copied as far as they can be read.
LEMMA CopiesFacts ==
    ASSUME NEW m, NEW c \in Sizes, NEW total \in Nat, NEW failed, NEW got \in Copies(m, c, total, failed),
           NEW k \in 0 .. total - 1
    PROVE  /\ got[k] \in 0 .. Len(ChunkOf(c, k))
           /\ ~Partial(c, got, k + 1) => ~Partial(c, got, k) /\ got[k] = Len(ChunkOf(c, k))
<1>1. c \in Nat /\ k \in Nat
  BY ChunkUploadAssumption
<1>2. Len(ChunkOf(c, k)) \in Nat
  BY <1>1, ChunkBytes
<1>3. got[k] \in 0 .. c /\ (got[k] = Len(ChunkOf(c, k)) \/ got[k] < Len(ChunkOf(c, k)))
  BY DEF Copies
<1>4. k \in 0 .. (k + 1) - 1 /\ \A i \in 0 .. k - 1 : i \in 0 .. (k + 1) - 1
  BY <1>1
<1>5. QED
  BY <1>1, <1>2, <1>3, <1>4 DEF Partial

\* What is joined is in order, and the first chunks in full are a prefix of the
\* file: a number of chunks for which this fails would have a least one.
LEMMA JoinedFacts ==
    ASSUME NEW m, NEW c \in Sizes, NEW total \in Nat, NEW failed, NEW got \in Copies(m, c, total, failed)
    PROVE  /\ Joined(c, got, total) \in Below(Cut(c, total))
           /\ ~Partial(c, got, total) => Joined(c, got, total) = Prefix(Cut(c, total))
           /\ ~Partial(c, got, total - 1) => Joined(c, got, total) \in Prefixes
<1>1. PICK upto : Joins(c, got, total, upto)
  BY JoinedSteps
<1>2. /\ Joined(c, got, total) = upto[total] /\ upto[0] = <<>>
      /\ \A k \in 0 .. total - 1 : upto[k + 1] = upto[k] \o SubSeq(ChunkOf(c, k), 1, got[k])
  BY <1>1 DEF Joins
<1> DEFINE Good(k) == /\ upto[k] \in Below(Cut(c, k))
                      /\ ~Partial(c, got, k) => upto[k] = Prefix(Cut(c, k))
<1>3. Cut(c, 0) = 0 /\ Prefix(Cut(c, 0)) = <<>> /\ 0 \in 0 .. Bytes
  <2>1. c * 0 = 0 /\ Bytes \in Nat \ {0}
    BY ChunkUploadAssumption
  <2>2. Cut(c, 0) = 0
    BY <2>1 DEF Cut
  <2>3. QED
    BY <2>1, <2>2 DEF Prefix
<1>4. Good(0)
  <2>1. <<>> \in Seq(Nat) /\ DOMAIN <<>> = {}
    OBVIOUS
  <2>2. QED
    BY <1>2, <1>3, <2>1 DEF Below
<1>5. ASSUME NEW k \in 0 .. total - 1, Good(k)
      PROVE  Good(k + 1) /\ (~Partial(c, got, k) => upto[k + 1] \in Prefixes)
  <2>1. k \in Nat /\ got[k] \in 0 .. Len(ChunkOf(c, k))
    <3>1. got[k] \in 0 .. Len(ChunkOf(c, k))
      BY CopiesFacts, Zenon
    <3>2. QED
      BY <3>1
  <2>2. PICK g \in 0 .. Len(ChunkOf(c, k)) : g = got[k]
    BY <2>1
  <2>3. PICK s : s = SubSeq(ChunkOf(c, k), 1, g)
    OBVIOUS
  <2>4. /\ Cut(c, k) + g \in 0 .. Bytes
        /\ Prefix(Cut(c, k)) \o s = Prefix(Cut(c, k) + g)
        /\ \A q \in Below(Cut(c, k)) : q \o s \in Below(Cut(c, k + 1))
    BY <2>1, <2>3, PieceContinues
  <2>5. upto[k + 1] = upto[k] \o s
    BY <1>2, <2>2, <2>3
  <2>6. upto[k + 1] \in Below(Cut(c, k + 1))
    BY <1>5, <2>4, <2>5
  <2>7. ~Partial(c, got, k) => upto[k + 1] = Prefix(Cut(c, k) + g)
    BY <1>5, <2>4, <2>5
  <2>8. ~Partial(c, got, k) => upto[k + 1] \in Prefixes
    BY <2>4, <2>7 DEF Prefixes
  <2>9. ASSUME ~Partial(c, got, k + 1) PROVE upto[k + 1] = Prefix(Cut(c, k + 1))
    <3>1. ~Partial(c, got, k) /\ g = Len(ChunkOf(c, k))
      <4>1. ~Partial(c, got, k + 1) => ~Partial(c, got, k) /\ got[k] = Len(ChunkOf(c, k))
        BY CopiesFacts
      <4>2. QED
        BY <2>2, <2>9, <4>1
    <3>2. Cut(c, k) + g = Cut(c, k + 1)
      <4>1. PICK x \in 0 .. Bytes : x = Cut(c, k)
        BY <2>1, ChunkBytes
      <4>2. PICK y \in x .. Bytes : y = Cut(c, k + 1)
        BY <2>1, <4>1, ChunkBytes
      <4>3. g = y - x
        BY <2>1, <3>1, <4>1, <4>2, ChunkBytes, Zenon
      <4>4. QED
        BY <4>1, <4>2, <4>3, ChunkUploadAssumption
    <3>3. QED
      BY <2>7, <3>1, <3>2
  <2>10. QED
    BY <2>6, <2>8, <2>9
<1> HIDE DEF Good
<1>6. PICK T : T = {k \in 0 .. total : ~Good(k)}
  OBVIOUS
<1>7. ASSUME T # {} PROVE FALSE
  <2>1. T \subseteq Nat
    BY <1>6
  <2>2. PICK k \in T : \A j \in T : k <= j
    BY <1>7, <2>1, LeastNumber
  <2>3. k \in 0 .. total /\ ~Good(k)
    BY <1>6
  <2>4. k # 0
    BY <1>4, <2>3
  <2>5. k - 1 \in 0 .. total - 1 /\ k - 1 \in 0 .. total /\ (k - 1) + 1 = k /\ ~(k <= k - 1)
    BY <2>3, <2>4
  <2>6. Good(k - 1)
    BY <1>6, <2>2, <2>5
  <2>7. QED
    BY <1>5, <2>3, <2>5, <2>6
<1>8. Good(total)
  BY <1>6, <1>7
<1>9. ASSUME ~Partial(c, got, total - 1) PROVE upto[total] \in Prefixes
  <2>1. CASE total = 0
    <3>1. upto[total] = Prefix(0)
      BY <1>2, <1>3, <2>1
    <3>2. QED
      BY <1>3, <3>1 DEF Prefixes
  <2>2. CASE total # 0
    <3>1. total - 1 \in 0 .. total - 1 /\ total - 1 \in 0 .. total /\ (total - 1) + 1 = total
      BY <2>2
    <3>2. Good(total - 1)
      BY <1>6, <1>7, <3>1
    <3>3. QED
      BY <1>5, <1>9, <3>1, <3>2
  <2>3. QED
    BY <2>1, <2>2
<1>10. QED
  BY <1>2, <1>8, <1>9 DEF Good

\* What a file may hold: bytes of it in their order.
Sorted == Below(Bytes)

\* A prefix is a part of the file in order.
LEMMA PrefixSorted == Prefixes \subseteq Sorted
<1>1. SUFFICES ASSUME NEW n \in 0 .. Bytes PROVE Prefix(n) \in Sorted
  BY DEF Prefixes
<1>2. Bytes \in Nat
  BY ChunkUploadAssumption
<1>3. QED
  BY <1>2 DEF Prefix, Sorted, Below

\* What is joined is such a content, and so is not the file that does not
\* exist; all the chunks in full are the file.
LEMMA JoinedTyped ==
    ASSUME NEW m, NEW c \in Sizes, NEW k \in Nat, NEW failed, NEW got \in Copies(m, c, k, failed)
    PROVE  /\ Joined(c, got, k) \in Sorted /\ Joined(c, got, k) # NoFile
           /\ ~Partial(c, got, k) => Joined(c, got, k) \in Prefixes
           /\ ~Partial(c, got, k) /\ k = Count(c) => Joined(c, got, k) = File
<1>1. PICK n \in 0 .. Bytes : n = Cut(c, k)
  BY ChunkBytes
<1>2. Bytes \in Nat /\ n <= Bytes
  BY ChunkUploadAssumption
<1>3. PICK q : q = Joined(c, got, k)
  OBVIOUS
<1>4. q \in Below(n) /\ (~Partial(c, got, k) => q = Prefix(n))
  BY <1>1, <1>3, JoinedFacts
<1>5. q \in Sorted /\ q \in Seq(Nat)
  BY <1>1, <1>2, <1>4 DEF Sorted, Below
<1>6. ~Partial(c, got, k) => q \in Prefixes
  BY <1>4 DEF Prefixes
<1>7. k = Count(c) => n = Bytes
  BY <1>1, CountFacts DEF Cut
<1>8. Prefix(Bytes) = File
  BY DEF Prefix, File
<1>9. QED
  BY <1>3, <1>4, <1>5, <1>6, <1>7, <1>8, AbsentAssumption
-----------------------------------------------------------------------------
(* The bytes of a set of chunks.                                           *)

Indices(c) == 0 .. Count(c) - 1
OnDisk(m, c) == {i \in Indices(c) : <<c, i>> \in m.disk}

\* Every chunk has c bytes but for the last one.
Weight(c, D) == c * Cardinality(D) - (IF Count(c) - 1 \in D THEN c * Count(c) - Bytes ELSE 0)

\* A set of chunks is finite and no larger than the set of all.
LEMMA IndexFacts ==
    ASSUME NEW c \in Sizes, NEW D, D \subseteq Indices(c)
    PROVE  /\ IsFiniteSet(D) /\ Cardinality(D) \in 0 .. Count(c)
           /\ Cardinality(D) = Count(c) => D = Indices(c)
<1>1. Count(c) \in Nat \ {0}
  BY CountFacts
<1>2. IsFiniteSet(Indices(c)) /\ Cardinality(Indices(c)) = Count(c)
  <2>1. 0 \in Int /\ Count(c) - 1 \in Int /\ ~(0 > Count(c) - 1)
    BY <1>1
  <2>2. IsFiniteSet(Indices(c))
    BY <2>1, FS_Interval DEF Indices
  <2>3. Cardinality(Indices(c)) = Count(c) - 1 - 0 + 1
    BY <2>1, FS_Interval DEF Indices
  <2>4. QED
    BY <1>1, <2>2, <2>3
<1>3. IsFiniteSet(D) /\ Cardinality(D) <= Count(c)
  BY <1>2, FS_Subset
<1>4. Cardinality(D) = Count(c) => D = Indices(c)
  BY <1>2, FS_Subset
<1>5. Cardinality(D) \in Nat
  BY <1>3, FS_CardinalityType
<1>6. QED
  BY <1>1, <1>3, <1>4, <1>5

\* The weight of all the chunks, of none, and of those that are not all.
LEMMA WeightFacts ==
    ASSUME NEW c \in Sizes, NEW D, D \subseteq Indices(c)
    PROVE  /\ Weight(c, D) \in Nat
           /\ D = {} => Weight(c, D) = 0
           /\ D = Indices(c) <=> Weight(c, D) >= Bytes
<1>1. PICK n \in Nat \ {0} : n = Count(c)
  BY CountFacts
<1>2. PICK w \in Nat : w = c * n
  BY <1>1, CountFacts
<1>3. c \in Nat \ {0} /\ Bytes \in Nat \ {0} /\ w >= Bytes /\ w - c < Bytes
  BY <1>1, <1>2, CountFacts
<1>4. PICK d \in 0 .. n : d = Cardinality(D)
  BY <1>1, IndexFacts
<1>5. PICK v \in Nat : v = c * d
  BY <1>3, <1>4
<1>6. /\ d = n => v = w
      /\ d # n => v <= w - c
      /\ d # 0 => v >= c
      /\ d = 0 => v = 0
  <2>1. d = n => v = w
    BY <1>2, <1>5
  <2>2. ASSUME d # n PROVE v <= w - c
    <3>1. PICK e \in Nat : e = n - d - 1 /\ n = d + 1 + e
      BY <1>1, <1>4, <2>2
    <3>2. c * n = c * d + c + c * e /\ c * e \in Nat
      BY <1>3, <3>1
    <3>3. QED
      BY <1>2, <1>3, <1>5, <3>2
  <2>3. ASSUME d # 0 PROVE v >= c
    <3>1. PICK e \in Nat : d = 1 + e
      BY <1>4, <2>3
    <3>2. c * d = c + c * e /\ c * e \in Nat
      BY <1>3, <3>1
    <3>3. QED
      BY <1>3, <1>5, <3>2
  <2>4. d = 0 => v = 0
    BY <1>3, <1>5
  <2>5. QED
    BY <2>1, <2>2, <2>3, <2>4
<1>7. Weight(c, D) = v - (IF n - 1 \in D THEN w - Bytes ELSE 0)
  BY <1>1, <1>2, <1>4, <1>5 DEF Weight
<1>8. n - 1 \in D => d # 0
  BY <1>4, IndexFacts, FS_EmptySet
<1>9. D = {} => d = 0
  BY <1>4, FS_EmptySet
<1>10. D = Indices(c) => n - 1 \in D /\ d = n
  <2>1. Indices(c) = 0 .. n - 1
    BY <1>1 DEF Indices
  <2>2. Cardinality(0 .. n - 1) = n
    <3>1. 0 \in Int /\ n - 1 \in Int /\ ~(0 > n - 1)
      OBVIOUS
    <3>2. Cardinality(0 .. n - 1) = n - 1 - 0 + 1
      BY <3>1, FS_Interval
    <3>3. QED
      BY <3>2
  <2>3. QED
    BY <1>4, <2>1, <2>2
<1>11. d = n => D = Indices(c)
  BY <1>1, <1>4, IndexFacts
<1>12. QED
  BY <1>1, <1>2, <1>3, <1>4, <1>5, <1>6, <1>7, <1>8, <1>9, <1>10, <1>11

\* A chunk that was not there adds its bytes.
LEMMA WeightAdds ==
    ASSUME NEW c \in Sizes, NEW D, D \subseteq Indices(c), NEW i \in Indices(c), i \notin D
    PROVE  Weight(c, D \cup {i}) = Weight(c, D) + Len(ChunkOf(c, i))
<1>1. PICK n \in Nat \ {0} : n = Count(c)
  BY CountFacts
<1>2. PICK w \in Nat : w = c * n
  BY <1>1, CountFacts
<1>3. c \in Nat \ {0} /\ Bytes \in Nat \ {0} /\ w >= Bytes /\ w - c < Bytes
  BY <1>1, <1>2, CountFacts
<1>4. PICK E : E = D \cup {i}
  OBVIOUS
<1>5. PICK d \in Nat : d = Cardinality(D) /\ Cardinality(E) = d + 1
  BY <1>4, IndexFacts, FS_AddElement
<1>6. PICK v \in Nat : v = c * d /\ c * (d + 1) = v + c
  BY <1>3, <1>5
<1>7. /\ Weight(c, D) = v - (IF n - 1 \in D THEN w - Bytes ELSE 0)
      /\ Weight(c, E) = v + c - (IF n - 1 \in E THEN w - Bytes ELSE 0)
  <2>1. Weight(c, D) = v - (IF n - 1 \in D THEN w - Bytes ELSE 0)
    BY <1>1, <1>2, <1>5, <1>6 DEF Weight
  <2>2. c * Cardinality(E) = v + c
    BY <1>5, <1>6
  <2>3. Weight(c, E) = c * Cardinality(E) - (IF n - 1 \in E THEN c * n - Bytes ELSE 0)
    BY <1>1 DEF Weight
  <2>4. QED
    BY <1>1, <1>2, <1>3, <2>1, <2>2, <2>3
<1>8. Len(ChunkOf(c, i)) = IF i = n - 1 THEN c - (w - Bytes) ELSE c
  <2>1. i \in 0 .. n - 1
    BY <1>1 DEF Indices
  <2>2. PICK a \in Nat : a = c * i /\ c * (i + 1) = a + c
    BY <1>3, <2>1
  <2>3. Len(ChunkOf(c, i)) = Cut(c, i + 1) - Cut(c, i)
    BY <2>1, ChunkBytes
  <2>4. CASE i = n - 1
    <3>1. c * (i + 1) = w
      BY <1>2, <1>3, <2>4
    <3>2. a = w - c
      BY <1>3, <2>2, <3>1
    <3>3. QED
      BY <1>3, <2>2, <2>3, <2>4, <3>2 DEF Cut
  <2>5. CASE i # n - 1
    <3>1. PICK e \in Nat : n = i + 2 + e
      BY <2>1, <2>5
    <3>2. w = a + c + c + c * e /\ c * e \in Nat
      BY <1>2, <1>3, <2>1, <2>2, <3>1
    <3>3. a < Bytes /\ a + c < Bytes
      BY <1>3, <2>2, <3>2
    <3>4. QED
      BY <1>3, <2>2, <2>3, <2>5, <3>3 DEF Cut
  <2>6. QED
    BY <2>4, <2>5
<1>9. /\ n - 1 \in E <=> n - 1 \in D \/ i = n - 1
      /\ i = n - 1 => n - 1 \notin D
  BY <1>4
<1>10. Weight(c, E) = Weight(c, D) + Len(ChunkOf(c, i))
  <2>1. CASE i = n - 1
    <3>1. Weight(c, E) = v + c - (w - Bytes) /\ Weight(c, D) = v - 0
      BY <1>7, <1>9, <2>1
    <3>2. Len(ChunkOf(c, i)) = c - (w - Bytes)
      BY <1>8, <2>1
    <3>3. QED
      BY <1>2, <1>3, <1>6, <3>1, <3>2
  <2>2. CASE i # n - 1 /\ n - 1 \in D
    <3>1. Weight(c, E) = v + c - (w - Bytes) /\ Weight(c, D) = v - (w - Bytes)
      BY <1>7, <1>9, <2>2
    <3>2. QED
      BY <1>2, <1>3, <1>6, <1>8, <2>2, <3>1
  <2>3. CASE i # n - 1 /\ n - 1 \notin D
    <3>1. Weight(c, E) = v + c - 0 /\ Weight(c, D) = v - 0
      BY <1>7, <1>9, <2>3
    <3>2. QED
      BY <1>3, <1>6, <1>8, <2>3, <3>1
  <2>4. QED
    BY <2>1, <2>2, <2>3
<1>11. QED
  BY <1>4, <1>10
-----------------------------------------------------------------------------
(* The inductive invariant.                                                *)

Status == [chunk_size : Sizes, uploaded_chunks : Seq(Nat), status : {"uploading", "completed"}]

Typed(m) ==
    /\ Whole(m)
    /\ m.disk \subseteq Sizes \X Nat
    /\ m.record \in [Sizes -> Nat]
    /\ m.status = NoStatus \/ m.status \in Status
    /\ m.final = NoFile \/ m.final \in Sorted
    /\ m.stored \in Seq(Sorted)
    /\ m.announced \in BOOLEAN /\ m.clean \in BOOLEAN /\ m.short \in BOOLEAN
    /\ ~m.short => /\ m.final = NoFile \/ m.final \in Prefixes
                   /\ \A k \in DOMAIN m.stored : m.stored[k] \in Prefixes

\* The chunks that the status has seen.
Arrived(s) == {s.uploaded_chunks[k] : k \in DOMAIN s.uploaded_chunks}

\* The status knows the whole chunks on disk, has seen no other chunk than those of
\* the file, and none twice.
Known(m) ==
    /\ m.status = NoStatus => m.disk = {}
    /\ m.status # NoStatus =>
           /\ \A x \in m.disk : x[1] = m.status.chunk_size /\ x[2] \in Arrived(m.status)
           /\ Arrived(m.status) \subseteq Indices(m.status.chunk_size)
           /\ \A j, k \in DOMAIN m.status.uploaded_chunks :
                  m.status.uploaded_chunks[j] = m.status.uploaded_chunks[k] => j = k

\* The size record counts no byte that is not on disk.
Counted(m) == \A c \in Sizes : m.record[c] <= Weight(c, OnDisk(m, c))

\* What was merged, stored and announced is the whole file.
Entire(m) ==
    /\ m.final # NoFile => m.final = File
    /\ m.announced /\ ~config.use_file_service => m.final = File
    /\ \A k \in DOMAIN m.stored : m.stored[k] = File

Tidy(m) == m.clean => Known(m) /\ Counted(m) /\ (~m.short => Entire(m))

\* While nothing fails the size record counts every byte that is on disk, and
\* a file that is there has been merged.
Current(m) == m.clean => \A c \in Sizes : m.record[c] >= Weight(c, OnDisk(m, c))

Merged(m) == m.final # NoFile \/ m.stored # <<>>

Prompt(m) == m.clean => \A c \in Sizes : Complete(m, c) => Merged(m)

UInv ==
    /\ Typed(mgr) /\ Tidy(mgr)
    /\ faults \in Nat
    /\ faults = 0 => Current(mgr) /\ Prompt(mgr)

\* Every chunk of the file is on disk.
LEMMA CompleteIsAll ==
    ASSUME NEW m, NEW c \in Sizes
    PROVE  /\ Complete(m, c) <=> OnDisk(m, c) = Indices(c)
           /\ Complete(m, c) => Present(m, c, Count(c))
  BY DEF Complete, Present, Files, OnDisk, Indices

\* When the size record of a clean upload reaches the size of the file, all
\* the chunks are there and the status has seen as many.
LEMMA FullStatus ==
    ASSUME NEW m, Typed(m), Known(m), Counted(m), NEW c \in Sizes, m.record[c] >= Bytes
    PROVE  /\ Present(m, c, Count(c))
           /\ m.status # NoStatus /\ m.status.chunk_size = c
           /\ Len(m.status.uploaded_chunks) = Count(c)
<1>1. Count(c) \in Nat \ {0} /\ Bytes \in Nat
  BY CountFacts
<1>2. OnDisk(m, c) = Indices(c)
  <2>1. PICK D : D = OnDisk(m, c) /\ D \subseteq Indices(c)
    BY DEF OnDisk
  <2>2. m.record[c] \in Nat /\ m.record[c] <= Weight(c, D)
    BY <2>1 DEF Typed, Counted
  <2>3. Weight(c, D) \in Nat /\ (D = Indices(c) <=> Weight(c, D) >= Bytes)
    BY <2>1, WeightFacts
  <2>4. QED
    BY <1>1, <2>1, <2>2, <2>3
<1>3. Complete(m, c) /\ Present(m, c, Count(c))
  BY <1>2, CompleteIsAll
<1>4. <<c, 0>> \in m.disk
  BY <1>1, <1>3 DEF Complete
<1>5. m.status # NoStatus /\ m.status \in Status
  BY <1>4 DEF Known, Typed
<1>6. m.status.chunk_size = c
  BY <1>4, <1>5 DEF Known
<1>7. PICK u \in Seq(Nat) : u = m.status.uploaded_chunks
  BY <1>5 DEF Status
<1>8. Indices(c) = {u[k] : k \in DOMAIN u}
  <2>1. Indices(c) \subseteq Arrived(m.status)
    <3>1. SUFFICES ASSUME NEW i \in Indices(c) PROVE i \in Arrived(m.status)
      OBVIOUS
    <3>2. <<c, i>> \in m.disk
      BY <1>2 DEF OnDisk
    <3>3. QED
      BY <1>5, <3>2 DEF Known
  <2>2. Arrived(m.status) \subseteq Indices(c)
    BY <1>5, <1>6 DEF Known
  <2>3. QED
    BY <1>7, <2>1, <2>2 DEF Arrived
<1>9. PICK L \in Nat : L = Len(u) /\ DOMAIN u = 1 .. L
  BY <1>7
<1>10. u \in [1 .. L -> Indices(c)] /\ \A i \in Indices(c) : \E k \in 1 .. L : u[k] = i
  BY <1>7, <1>8, <1>9
<1>11. \A j, k \in 1 .. L : u[j] = u[k] => j = k
  BY <1>5, <1>7, <1>9 DEF Known
<1>12. u \in Bijection(1 .. L, Indices(c))
  BY <1>10, <1>11 DEF Bijection, Injection, Surjection, IsInjective
<1>13. IsFiniteSet(1 .. L) /\ Cardinality(1 .. L) = L
  <2>1. 1 \in Int /\ L \in Int
    OBVIOUS
  <2>2. CASE L = 0
    <3>1. 1 .. L = {}
      BY <2>2
    <3>2. QED
      BY <2>2, <3>1, FS_EmptySet
  <2>3. CASE L # 0
    <3>1. ~(1 > L)
      BY <2>3
    <3>2. IsFiniteSet(1 .. L)
      BY <2>1, FS_Interval
    <3>3. Cardinality(1 .. L) = L - 1 + 1
      BY <2>1, <3>1, FS_Interval
    <3>4. QED
      BY <3>2, <3>3
  <2>4. QED
    BY <2>2, <2>3
<1>14. Cardinality(Indices(c)) = L
  BY <1>12, <1>13, FS_Bijection DEF ExistsBijection
<1>15. Cardinality(Indices(c)) = Count(c)
  <2>1. 0 \in Int /\ Count(c) - 1 \in Int /\ ~(0 > Count(c) - 1)
    BY <1>1
  <2>2. Cardinality(Indices(c)) = Count(c) - 1 - 0 + 1
    BY <2>1, FS_Interval DEF Indices
  <2>3. QED
    BY <1>1, <2>2
<1>16. QED
  BY <1>3, <1>5, <1>6, <1>7, <1>9, <1>14, <1>15
-----------------------------------------------------------------------------
(* A chunk that is accepted: written, noted and counted.                   *)

Accepted(m, c, i) == update_upload_status(Save(m, c, i), c, i)

\* A status tells itself apart from none.
LEMMA StatusThere == ASSUME NEW s \in Status PROVE s # NoStatus
<1>1. Sizes \subseteq Nat
  BY ChunkUploadAssumption
<1>2. QED
  BY <1>1, AbsentAssumption DEF Status

\* The status that notes the chunk.
Noted(m, n, c, i) ==
    \E u \in Seq(Nat) :
        /\ m.status = NoStatus => u = <<>> /\ n.status.chunk_size = c
        /\ m.status # NoStatus => u = m.status.uploaded_chunks /\ n.status.chunk_size = m.status.chunk_size
        /\ \/ n.status.uploaded_chunks = u /\ \E k \in DOMAIN u : u[k] = i
           \/ n.status.uploaded_chunks = Append(u, i) /\ \A k \in DOMAIN u : u[k] # i

LEMMA StatusNoted ==
    ASSUME NEW m, NEW c \in Sizes, NEW i \in Nat, Whole(m), m.status = NoStatus \/ m.status \in Status
    PROVE  LET n == update_upload_status(m, c, i) IN n.status \in Status /\ Noted(m, n, c, i)
<1>1. PICK old \in Status : old = IF m.status = NoStatus
                 THEN [chunk_size |-> c, uploaded_chunks |-> <<>>, status |-> "uploading"]
                 ELSE m.status
  <2>1. <<>> \in Seq(Nat)
    OBVIOUS
  <2>2. [chunk_size |-> c, uploaded_chunks |-> <<>>, status |-> "uploading"] \in Status
    BY <2>1 DEF Status
  <2>3. QED
    BY <2>2
<1>2. PICK u \in Seq(Nat) : u = old.uploaded_chunks
  BY <1>1 DEF Status
<1>3. PICK n : n = update_upload_status(m, c, i)
  OBVIOUS
<1>4. n = [m EXCEPT !.status = IF \E k \in DOMAIN u : u[k] = i THEN old
                             ELSE [old EXCEPT !.uploaded_chunks = Append(u, i)]]
  BY <1>1, <1>2, <1>3 DEF update_upload_status
<1>5. n.status = IF \E k \in DOMAIN u : u[k] = i THEN old
                 ELSE [old EXCEPT !.uploaded_chunks = Append(u, i)]
  BY <1>4 DEF Whole
<1>6. Append(u, i) \in Seq(Nat)
  BY <1>2
<1>7. CASE \E k \in DOMAIN u : u[k] = i
  <2>1. n.status = old
    BY <1>5, <1>7
  <2>2. QED
    BY <1>1, <1>2, <1>3, <1>7, <2>1 DEF Noted
<1>8. CASE ~\E k \in DOMAIN u : u[k] = i
  <2>1. n.status = [old EXCEPT !.uploaded_chunks = Append(u, i)]
    BY <1>5, <1>8
  <2>2. /\ n.status \in Status
        /\ n.status.uploaded_chunks = Append(u, i)
        /\ n.status.chunk_size = old.chunk_size
    BY <1>1, <1>6, <2>1 DEF Status
  <2>3. QED
    BY <1>1, <1>2, <1>3, <1>8, <2>2 DEF Noted
<1>9. QED
  BY <1>7, <1>8

\* The fields of the manager n after the chunk.
Accepts(m, n, c, i, fails) ==
    /\ Whole(n)
    /\ n.disk = m.disk \cup {<<c, i>>}
    /\ \E r \in 0 .. m.record[c] + Len(ChunkOf(c, i)) :
           /\ n.record = [m.record EXCEPT ![c] = r]
           /\ "record" \notin fails => r = m.record[c] + Len(ChunkOf(c, i))
    /\ n.status \in Status /\ Noted(m, n, c, i)
    /\ n.final = m.final /\ n.stored = m.stored /\ n.announced = m.announced /\ n.short = m.short
    /\ n.clean = (m.clean /\ <<c, i>> \notin m.disk
                          /\ (m.status = NoStatus \/ m.status.chunk_size = c))

LEMMA AcceptedFields ==
    ASSUME NEW m, Typed(m), NEW c \in Sizes, NEW i \in Nat, NEW fails,
           NEW r \in Recordings(Accepted(m, c, i), c, i, fails),
           NEW n, n = update_chunk_size_record(Accepted(m, c, i), c, r)
    PROVE  Accepts(m, n, c, i, fails)
<1> DEFINE clean == m.clean /\ <<c, i>> \notin m.disk
                            /\ (m.status = NoStatus \/ m.status.chunk_size = c)
<1>1. PICK m1 : m1 = Save(m, c, i)
  OBVIOUS
<1>2. PICK m2 : m2 = update_upload_status(m1, c, i)
  OBVIOUS
<1>3. m2 = Accepted(m, c, i)
  BY <1>1, <1>2 DEF Accepted
<1>4. PICK b, t : b = clean /\ t = m.torn \ {<<c, i>>}
  OBVIOUS
<1>5. m1 = [m EXCEPT !.disk = m.disk \cup {<<c, i>>}, !.torn = t, !.clean = b]
  BY <1>1, <1>4 DEF Save
<1>6. /\ Whole(m1) /\ m1.disk = m.disk \cup {<<c, i>>} /\ m1.clean = b
      /\ m1.record = m.record /\ m1.status = m.status /\ m1.final = m.final
      /\ m1.stored = m.stored /\ m1.announced = m.announced /\ m1.short = m.short
  BY <1>5 DEF Typed, Whole
<1>7. m2.status \in Status /\ Noted(m1, m2, c, i)
  BY <1>2, <1>6, StatusNoted DEF Typed
<1>8. PICK s : m2 = [m1 EXCEPT !.status = s]
  BY <1>2 DEF update_upload_status
<1>9. /\ Whole(m2) /\ m2.disk = m1.disk /\ m2.clean = m1.clean
      /\ m2.record = m1.record /\ m2.final = m1.final
      /\ m2.stored = m1.stored /\ m2.announced = m1.announced /\ m2.short = m1.short
  BY <1>6, <1>8 DEF Whole
<1>10. PICK f : f = [m2.record EXCEPT ![c] = r]
  OBVIOUS
<1>11. n = [m2 EXCEPT !.record = f]
  BY <1>3, <1>10 DEF update_chunk_size_record
<1>12. /\ Whole(n) /\ n.disk = m2.disk /\ n.clean = m2.clean
       /\ n.record = f /\ n.final = m2.final /\ n.status = m2.status
       /\ n.stored = m2.stored /\ n.announced = m2.announced /\ n.short = m2.short
  BY <1>9, <1>11 DEF Whole
<1>13. Noted(m, n, c, i)
  BY <1>6, <1>7, <1>12 DEF Noted
<1>14. m.record[c] \in Nat /\ Len(ChunkOf(c, i)) \in Nat
  BY ChunkBytes DEF Typed
<1>15. /\ r \in 0 .. m.record[c] + Len(ChunkOf(c, i))
       /\ "record" \notin fails => r = m.record[c] + Len(ChunkOf(c, i))
  BY <1>3, <1>6, <1>9, <1>14 DEF Recordings
<1>16. QED
  BY <1>4, <1>6, <1>7, <1>9, <1>10, <1>12, <1>13, <1>15 DEF Accepts

\* An index is a number, and a chunk has a number of bytes.
LEMMA IndexIsNat ==
    ASSUME NEW c \in Sizes, NEW i \in Indices(c)
    PROVE  i \in Nat /\ Len(ChunkOf(c, i)) \in Nat
<1>1. i \in Nat
  BY CountFacts DEF Indices
<1>2. QED
  BY <1>1, ChunkBytes, ChunkUploadAssumption

LEMMA AcceptedTyped ==
    ASSUME NEW m, Typed(m), NEW c \in Sizes, NEW i \in Indices(c), NEW fails, NEW n, Accepts(m, n, c, i, fails)
    PROVE  Typed(n) /\ n.status \in Status /\ (n.clean => m.clean)
<1>1. i \in Nat /\ Len(ChunkOf(c, i)) \in Nat
  BY IndexIsNat
<1>2. n.record \in [Sizes -> Nat]
  <2>1. m.record \in [Sizes -> Nat]
    BY DEF Typed
  <2>2. PICK r \in 0 .. m.record[c] + Len(ChunkOf(c, i)) : n.record = [m.record EXCEPT ![c] = r]
    BY DEF Accepts
  <2>3. r \in Nat
    BY <1>1, <2>1, <2>2
  <2>4. QED
    BY <2>1, <2>2, <2>3
<1>3. n.disk \subseteq Sizes \X Nat
  BY <1>1 DEF Typed, Accepts
<1>4. n.clean \in BOOLEAN /\ (n.clean => m.clean)
  BY <1>1 DEF Typed, Accepts
<1>5. QED
  BY <1>1, <1>2, <1>3, <1>4 DEF Typed, Accepts

\* The status of a clean upload goes on knowing the chunks.
LEMMA AcceptedKnown ==
    ASSUME NEW m, Typed(m), Known(m), NEW c \in Sizes, NEW i \in Indices(c), NEW fails,
           NEW n, Accepts(m, n, c, i, fails), n.clean
    PROVE  Known(n)
<1>1. i \in Nat
  BY IndexIsNat
<1>2. n.status \in Status /\ n.status # NoStatus /\ n.disk = m.disk \cup {<<c, i>>}
  BY <1>1, StatusThere DEF Accepts
<1>3. m.status = NoStatus \/ m.status.chunk_size = c
  BY <1>1 DEF Accepts
<1>4. PICK u \in Seq(Nat) :
        /\ m.status = NoStatus => u = <<>> /\ n.status.chunk_size = c
        /\ m.status # NoStatus => u = m.status.uploaded_chunks /\ n.status.chunk_size = m.status.chunk_size
        /\ \/ n.status.uploaded_chunks = u /\ \E k \in DOMAIN u : u[k] = i
           \/ n.status.uploaded_chunks = Append(u, i) /\ \A k \in DOMAIN u : u[k] # i
  BY <1>1 DEF Noted, Accepts
<1>5. n.status.chunk_size = c
  BY <1>3, <1>4
<1>6. /\ \A k \in DOMAIN u : u[k] \in Indices(c)
      /\ \A j, k \in DOMAIN u : u[j] = u[k] => j = k
      /\ \A x \in m.disk : x[1] = c /\ \E k \in DOMAIN u : u[k] = x[2]
  <2>1. CASE m.status = NoStatus
    BY <1>4, <2>1 DEF Known
  <2>2. CASE m.status # NoStatus
    BY <1>3, <1>4, <2>2 DEF Known, Arrived
  <2>3. QED
    BY <2>1, <2>2
<1>7. PICK v \in Seq(Nat) : v = n.status.uploaded_chunks
  BY <1>2 DEF Status
<1>8. /\ \A k \in DOMAIN v : v[k] \in Indices(c)
      /\ \A j, k \in DOMAIN v : v[j] = v[k] => j = k
      /\ \A k \in DOMAIN u : k \in DOMAIN v /\ v[k] = u[k]
      /\ \E k \in DOMAIN v : v[k] = i
  <2>1. CASE v = u /\ \E k \in DOMAIN u : u[k] = i
    BY <1>6, <2>1
  <2>2. CASE v = Append(u, i) /\ \A k \in DOMAIN u : u[k] # i
    <3>1. PICK L \in Nat : L = Len(u) /\ DOMAIN u = 1 .. L
      BY <1>4
    <3>2. DOMAIN v = 1 .. L + 1 /\ v[L + 1] = i /\ \A k \in 1 .. L : v[k] = u[k]
      BY <1>1, <1>4, <2>2, <3>1
    <3>3. QED
      BY <1>6, <2>2, <3>1, <3>2
  <2>3. QED
    BY <1>4, <1>7, <2>1, <2>2
<1>9. \A x \in n.disk : x[1] = c /\ \E k \in DOMAIN v : v[k] = x[2]
  <2>1. SUFFICES ASSUME NEW x \in n.disk PROVE x[1] = c /\ \E k \in DOMAIN v : v[k] = x[2]
    OBVIOUS
  <2>2. CASE x \in m.disk
    <3>1. PICK k \in DOMAIN u : u[k] = x[2]
      BY <1>6, <2>2
    <3>2. k \in DOMAIN v /\ v[k] = x[2]
      BY <1>8, <3>1
    <3>3. QED
      BY <1>6, <2>2, <3>2
  <2>3. CASE x = <<c, i>>
    <3>1. x[1] = c /\ x[2] = i
      BY <2>3
    <3>2. QED
      BY <1>8, <3>1
  <2>4. QED
    BY <1>2, <2>1, <2>2, <2>3
<1>10. QED
  BY <1>2, <1>5, <1>7, <1>8, <1>9 DEF Known, Arrived

\* The bytes on disk of every size, before and after.
LEMMA AcceptedWeight ==
    ASSUME NEW m, Typed(m), NEW c \in Sizes, NEW i \in Indices(c), NEW fails,
           NEW n, Accepts(m, n, c, i, fails), n.clean
    PROVE  /\ Weight(c, OnDisk(n, c)) = Weight(c, OnDisk(m, c)) + Len(ChunkOf(c, i))
           /\ \A d \in Sizes : d # c => OnDisk(n, d) = OnDisk(m, d)
<1>1. i \in Nat
  BY IndexIsNat
<1>2. n.disk = m.disk \cup {<<c, i>>} /\ <<c, i>> \notin m.disk
  BY <1>1 DEF Accepts
<1>3. OnDisk(n, c) = OnDisk(m, c) \cup {i} /\ i \notin OnDisk(m, c)
  BY <1>2 DEF OnDisk
<1>4. OnDisk(m, c) \subseteq Indices(c)
  BY DEF OnDisk
<1>5. Weight(c, OnDisk(n, c)) = Weight(c, OnDisk(m, c)) + Len(ChunkOf(c, i))
  BY <1>3, <1>4, WeightAdds
<1>6. \A d \in Sizes : d # c => OnDisk(n, d) = OnDisk(m, d)
  BY <1>2 DEF OnDisk
<1>7. QED
  BY <1>5, <1>6

\* The size record neither runs ahead of the disk nor, unless it fails, falls
\* behind it.
LEMMA AcceptedCounted ==
    ASSUME NEW m, Typed(m), NEW c \in Sizes, NEW i \in Indices(c), NEW fails,
           NEW n, Accepts(m, n, c, i, fails)
    PROVE  /\ n.clean /\ Counted(m) => Counted(n)
           /\ "record" \notin fails /\ Current(m) => Current(n)
<1>1. SUFFICES ASSUME n.clean, NEW d \in Sizes
               PROVE  /\ Counted(m) => n.record[d] <= Weight(d, OnDisk(n, d))
                      /\ "record" \notin fails /\ Current(m) => n.record[d] >= Weight(d, OnDisk(n, d))
  BY DEF Counted, Current
<1>2. i \in Nat /\ Len(ChunkOf(c, i)) \in Nat
  BY IndexIsNat
<1>3. m.clean /\ m.record \in [Sizes -> Nat]
  BY <1>1, AcceptedTyped DEF Typed
<1>4. Weight(d, OnDisk(m, d)) \in Nat
  <2>1. OnDisk(m, d) \subseteq Indices(d)
    BY DEF OnDisk
  <2>2. QED
    BY <2>1, WeightFacts
<1>5. /\ Counted(m) => m.record[d] <= Weight(d, OnDisk(m, d))
      /\ Current(m) => m.record[d] >= Weight(d, OnDisk(m, d))
  BY <1>3 DEF Counted, Current
<1>6. PICK r \in 0 .. m.record[c] + Len(ChunkOf(c, i)) :
          /\ n.record = [m.record EXCEPT ![c] = r]
          /\ "record" \notin fails => r = m.record[c] + Len(ChunkOf(c, i))
  BY <1>2 DEF Accepts
<1>7. CASE d = c
  <2>1. Weight(d, OnDisk(n, d)) = Weight(d, OnDisk(m, d)) + Len(ChunkOf(c, i))
    BY <1>1, <1>7, AcceptedWeight
  <2>2. n.record[d] = r /\ m.record[d] \in Nat
    BY <1>3, <1>6, <1>7
  <2>3. n.record[d] <= m.record[d] + Len(ChunkOf(c, i)) /\ n.record[d] \in Nat
    BY <1>2, <1>6, <1>7, <2>2
  <2>4. "record" \notin fails => n.record[d] = m.record[d] + Len(ChunkOf(c, i))
    BY <1>6, <1>7, <2>2
  <2>5. QED
    BY <1>2, <1>4, <1>5, <2>1, <2>2, <2>3, <2>4
<1>8. CASE d # c
  <2>1. OnDisk(n, d) = OnDisk(m, d)
    BY <1>1, <1>8, AcceptedWeight
  <2>2. n.record[d] = m.record[d]
    BY <1>3, <1>6, <1>8
  <2>3. QED
    BY <1>5, <2>1, <2>2
<1>9. QED
  BY <1>7, <1>8

\* A chunk that is accepted keeps the upload tidy.
LEMMA AcceptedTidy ==
    ASSUME NEW m, Typed(m), Tidy(m), NEW c \in Sizes, NEW i \in Indices(c), NEW fails,
           NEW n, Accepts(m, n, c, i, fails)
    PROVE  Tidy(n)
<1>1. SUFFICES ASSUME n.clean PROVE Known(n) /\ Counted(n) /\ (~n.short => Entire(n))
  BY DEF Tidy
<1>2. m.clean /\ Known(m) /\ Counted(m) /\ (~m.short => Entire(m))
  BY <1>1, AcceptedTyped DEF Tidy
<1>3. Known(n) /\ Counted(n)
  BY <1>1, <1>2, AcceptedKnown, AcceptedCounted
<1>4. n.final = m.final /\ n.stored = m.stored /\ n.announced = m.announced /\ n.short = m.short
  BY DEF Accepts
<1>5. QED
  BY <1>2, <1>3, <1>4 DEF Entire

\* It completes no other size, and its own only when the size record says so.
LEMMA AcceptedPrompt ==
    ASSUME NEW m, Typed(m), Prompt(m), Current(m), NEW c \in Sizes, NEW i \in Indices(c), NEW fails,
           "record" \notin fails, NEW n, Accepts(m, n, c, i, fails),
           ~all_chunk_uploaded(n, c) \/ Merged(n)
    PROVE  Prompt(n)
<1>1. SUFFICES ASSUME n.clean, NEW d \in Sizes, Complete(n, d) PROVE Merged(n)
  BY DEF Prompt
<1>2. m.clean /\ Current(n) /\ Typed(n)
  BY <1>1, AcceptedTyped, AcceptedCounted
<1>3. n.final = m.final /\ n.stored = m.stored
  BY DEF Accepts
<1>4. OnDisk(n, d) = Indices(d)
  BY <1>1, CompleteIsAll
<1>5. CASE d = c
  <2>1. Weight(c, OnDisk(n, c)) >= Bytes /\ Weight(c, OnDisk(n, c)) \in Nat
    BY <1>4, <1>5, WeightFacts
  <2>2. n.record[c] >= Weight(c, OnDisk(n, c)) /\ n.record[c] \in Nat
    BY <1>1, <1>2 DEF Current, Typed
  <2>3. all_chunk_uploaded(n, c)
    BY <2>1, <2>2, ChunkUploadAssumption DEF all_chunk_uploaded
  <2>4. QED
    BY <2>3
<1>6. CASE d # c
  <2>1. OnDisk(m, d) = Indices(d)
    BY <1>1, <1>4, <1>6, AcceptedWeight
  <2>2. Merged(m)
    BY <1>2, <2>1, CompleteIsAll DEF Prompt
  <2>3. QED
    BY <1>3, <2>2 DEF Merged
<1>7. QED
  BY <1>5, <1>6
-----------------------------------------------------------------------------
(* What a merge, or a clean-up, of the chunks of size c makes of m.        *)

\* The chunks and their record stay, or go, the chunks only if they can.
Cleared(m, n, c, fails) ==
    \/ n.disk = m.disk /\ n.record = m.record
    \/ /\ n.record = [m.record EXCEPT ![c] = 0]
       /\ \/ n.disk = m.disk /\ "remove" \in fails
          \/ n.disk = {x \in m.disk : x[1] # c}

\* What a merge may have written.
Content(n, q, c, total) ==
    /\ q \in Sorted
    /\ ~n.short => q \in Prefixes
    /\ n.clean /\ ~n.short /\ total = Count(c) => q = File

Outcome(m, n, c, total, fails) ==
    /\ Whole(n)
    /\ Cleared(m, n, c, fails)
    /\ \/ n.status = m.status
       \/ m.status \in Status /\ n.status = [m.status EXCEPT !.status = "completed"]
    /\ n.clean = m.clean \/ n.clean = FALSE
    /\ n.short \in BOOLEAN /\ (m.short => n.short)
    /\ n.final = m.final \/ (m.final = NoFile /\ Content(n, n.final, c, total))
    /\ n.stored = m.stored \/ \E q : n.stored = Append(m.stored, q) /\ Content(n, q, c, total)
    /\ \/ n.announced = m.announced
       \/ n.announced = TRUE /\ (config.use_file_service \/ n.final # NoFile)

\* cleanup_chunks.
LEMMA CleanupFields ==
    ASSUME NEW m, Whole(m), NEW c, NEW fails, NEW n, n = cleanup_chunks(m, c, fails)
    PROVE  /\ Whole(n) /\ Cleared(m, n, c, fails)
           /\ n.status = m.status /\ n.final = m.final /\ n.stored = m.stored
           /\ n.announced = m.announced /\ n.clean = m.clean /\ n.short = m.short
           /\ "remove" \notin fails => n.disk = {x \in m.disk : x[1] # c}
<1>1. PICK r : r = [m.record EXCEPT ![c] = 0]
  OBVIOUS
<1>2. PICK d, t : /\ d = IF "remove" \in fails THEN m.disk ELSE {x \in m.disk : x[1] # c}
                  /\ t = IF "remove" \in fails THEN m.torn ELSE {x \in m.torn : x[1] # c}
  OBVIOUS
<1>3. n = [m EXCEPT !.record = r, !.disk = d, !.torn = t]
  BY <1>1, <1>2 DEF cleanup_chunks
<1>4. /\ Whole(n) /\ n.record = r /\ n.disk = d
      /\ n.status = m.status /\ n.final = m.final /\ n.stored = m.stored
      /\ n.announced = m.announced /\ n.clean = m.clean /\ n.short = m.short
  BY <1>3 DEF Whole
<1>5. QED
  BY <1>1, <1>2, <1>4 DEF Cleared

\* The end of a merge.
Ends(m, n, c, fails) ==
    /\ Whole(n) /\ Cleared(m, n, c, fails)
    /\ n.status = [m.status EXCEPT !.status = "completed"] /\ n.announced = TRUE
    /\ n.final = m.final /\ n.stored = m.stored /\ n.clean = m.clean /\ n.short = m.short

LEMMA CompletedFields ==
    ASSUME NEW m, Whole(m), NEW c, NEW clear, NEW fails, NEW n, n = Completed(m, c, clear, fails)
    PROVE  Ends(m, n, c, fails)
<1>1. PICK s : s = [m.status EXCEPT !.status = "completed"]
  OBVIOUS
<1>2. PICK done : done = [m EXCEPT !.status = s, !.announced = TRUE]
  OBVIOUS
<1>3. /\ Whole(done) /\ done.disk = m.disk /\ done.record = m.record
      /\ done.status = s /\ done.announced = TRUE
      /\ done.final = m.final /\ done.stored = m.stored /\ done.clean = m.clean /\ done.short = m.short
  BY <1>2 DEF Whole
<1>4. n = IF clear THEN cleanup_chunks(done, c, fails) ELSE done
  BY <1>1, <1>2 DEF Completed
<1>5. CASE clear
  <2>1. n = cleanup_chunks(done, c, fails)
    BY <1>4, <1>5
  <2>2. /\ Whole(n) /\ Cleared(done, n, c, fails)
        /\ n.status = done.status /\ n.final = done.final /\ n.stored = done.stored
        /\ n.announced = done.announced /\ n.clean = done.clean /\ n.short = done.short
    BY <1>3, <2>1, CleanupFields
  <2>3. Cleared(m, n, c, fails)
    BY <1>3, <2>2 DEF Cleared
  <2>4. QED
    BY <1>1, <1>3, <2>2, <2>3 DEF Ends
<1>6. CASE ~clear
  BY <1>1, <1>3, <1>4, <1>6 DEF Cleared, Ends
<1>7. QED
  BY <1>5, <1>6

\* What was joined has the content of a merge.
LEMMA JoinedContent ==
    ASSUME NEW m, NEW c \in Sizes, NEW total \in Nat, NEW failed, NEW got \in Copies(m, c, total, failed),
           NEW n, ~n.short => ~Partial(c, got, total)
    PROVE  Content(n, Joined(c, got, total), c, total)
  BY JoinedTyped DEF Content

\* merge_chunks, with the row in the database.
LEMMA MergedFields ==
    ASSUME NEW m, Typed(m), NEW c \in Sizes, NEW total \in Nat, NEW fails, NEW failed,
           NEW got \in Copies(m, c, total, failed),
           NEW n, n = Recorded(merge_chunks(m, c, total, got), fails)
    PROVE  /\ Whole(n)
           /\ n.disk = m.disk /\ n.record = m.record /\ n.status = m.status /\ n.stored = m.stored
           /\ n.announced = m.announced /\ n.clean = m.clean
           /\ n.short \in BOOLEAN /\ (m.short => n.short)
           /\ n.final = m.final \/ (m.final = NoFile /\ Content(n, n.final, c, total))
           /\ n.final # NoFile
<1>1. PICK o : o = merge_chunks(m, c, total, got)
  OBVIOUS
<1>2. /\ Whole(o)
      /\ o.disk = m.disk /\ o.record = m.record /\ o.status = m.status /\ o.stored = m.stored
      /\ o.announced = m.announced /\ o.clean = m.clean
      /\ o.short \in BOOLEAN /\ (m.short => o.short)
      /\ o.final = m.final \/ (m.final = NoFile /\ Content(o, o.final, c, total))
      /\ o.final # NoFile
  <2>1. CASE m.final # NoFile
    BY <1>1, <2>1 DEF merge_chunks, Typed
  <2>2. CASE m.final = NoFile
    <3>1. PICK j : j = Joined(c, got, total) /\ j # NoFile
      BY JoinedTyped
    <3>2. PICK b \in BOOLEAN : b = (m.short \/ Partial(c, got, total))
      BY Zenon
    <3>3. o = [m EXCEPT !.final = j, !.short = b]
      BY <1>1, <2>2, <3>1, <3>2, Zenon DEF merge_chunks
    <3>4. /\ Whole(o)
          /\ o.disk = m.disk /\ o.record = m.record /\ o.status = m.status /\ o.stored = m.stored
          /\ o.announced = m.announced /\ o.clean = m.clean /\ o.short = b /\ o.final = j
      BY <3>3 DEF Typed, Whole
    <3>5. Content(o, j, c, total)
      BY <3>1, <3>2, <3>4, JoinedContent
    <3>6. QED
      BY <2>2, <3>1, <3>2, <3>4, <3>5
  <2>3. QED
    BY <2>1, <2>2
<1>3. n = o \/ n = [o EXCEPT !.row = TRUE]
  BY <1>1 DEF Recorded
<1>4. /\ Whole(n)
      /\ n.disk = o.disk /\ n.record = o.record /\ n.status = o.status /\ n.stored = o.stored
      /\ n.announced = o.announced /\ n.clean = o.clean /\ n.short = o.short /\ n.final = o.final
  BY <1>2, <1>3 DEF Whole
<1>5. QED
  BY <1>2, <1>4 DEF Content

\* A merge that fails.
LEMMA MergeErrorOutcome ==
    ASSUME NEW m, Typed(m), NEW c \in Sizes, NEW total \in Nat, NEW fails, merge_chunks_error(m, c, total, fails)
    PROVE  Outcome(m, mgr', c, total, fails)
<1>1. CASE mgr' = m
  BY <1>1 DEF Outcome, Cleared, Typed
<1>2. ASSUME m.final = NoFile, NEW k \in 0 .. total, NEW failed, NEW got \in Copies(m, c, k, failed),
             mgr' = CutOff(m, c, k, got)
      PROVE  Outcome(m, mgr', c, total, fails)
  <2>1. PICK j : j = Joined(c, got, k)
    OBVIOUS
  <2>2. PICK b \in BOOLEAN : b = (m.short \/ Partial(c, got, k - 1))
    BY Zenon
  <2>3. mgr' = [m EXCEPT !.final = j, !.clean = FALSE, !.short = b]
    BY <1>2, <2>1, <2>2, Zenon DEF CutOff
  <2>4. /\ Whole(mgr') /\ mgr'.disk = m.disk /\ mgr'.record = m.record /\ mgr'.status = m.status
        /\ mgr'.stored = m.stored /\ mgr'.announced = m.announced /\ mgr'.clean = FALSE
        /\ mgr'.final = j /\ mgr'.short = b
    BY <2>3 DEF Typed, Whole
  <2>5. k \in Nat
    OBVIOUS
  <2>6. j \in Sorted /\ (~b => j \in Prefixes)
    BY <2>1, <2>2, <2>5, JoinedTyped, JoinedFacts
  <2>7. QED
    BY <1>2, <2>2, <2>4, <2>6 DEF Outcome, Cleared, Content
<1>3. QED
  BY <1>1, <1>2, MergeErrorForm

\* A list with another entry is not empty.
LEMMA AppendFilled ==
    ASSUME NEW S, NEW q \in Seq(S), NEW x
    PROVE  Append(q, x) # <<>>
<1>1. PICK L \in Nat : L = Len(q)
  OBVIOUS
<1>2. DOMAIN Append(q, x) = 1 .. L + 1
  BY <1>1
<1>3. 1 \in DOMAIN Append(q, x)
  BY <1>2
<1>4. 1 \notin DOMAIN <<>>
  OBVIOUS
<1>5. QED
  BY <1>3, <1>4

\* A merge at the end of a request, with any outcome; with all its chunks and
\* no failure it does merge them.
LEMMA MergeOutcome ==
    ASSUME NEW m, Typed(m), m.status \in Status, NEW c \in Sizes, NEW clear, NEW fails,
           Merge(m, c, clear, fails)
    PROVE  /\ Outcome(m, mgr', c, Len(m.status.uploaded_chunks), fails)
           /\ fails = {} /\ Present(m, c, Len(m.status.uploaded_chunks)) => Merged(mgr')
<1>1. PICK total \in Nat : total = Len(m.status.uploaded_chunks)
  BY DEF Status
<1>2. ASSUME NEW failed, NEW got \in Copies(m, c, total, failed), config.use_file_service,
             mgr' = Completed(Stored(m, c, total, got), c, clear, fails)
      PROVE  Outcome(m, mgr', c, total, fails) /\ Merged(mgr')
  <2>1. PICK o : o = Stored(m, c, total, got)
    OBVIOUS
  <2>2. PICK j, q : j = Joined(c, got, total) /\ q = Append(m.stored, j)
    OBVIOUS
  <2>3. PICK b \in BOOLEAN : b = (m.short \/ Partial(c, got, total))
    BY Zenon
  <2>4. o = [m EXCEPT !.stored = q, !.short = b]
    BY <2>1, <2>2, <2>3, Zenon DEF Stored
  <2>5. /\ Whole(o) /\ o.disk = m.disk /\ o.record = m.record /\ o.status = m.status
        /\ o.stored = q /\ o.announced = m.announced /\ o.clean = m.clean /\ o.final = m.final
        /\ o.short = b
    BY <2>4 DEF Whole, Typed
  <2>6. Ends(o, mgr', c, fails)
    <3>1. mgr' = Completed(o, c, clear, fails)
      BY <1>2, <2>1
    <3>2. QED
      BY <2>5, <3>1, CompletedFields
  <2>7. Cleared(m, mgr', c, fails)
    BY <2>5, <2>6 DEF Cleared, Ends
  <2>8. Merged(mgr')
    BY <2>2, <2>5, <2>6, AppendFilled DEF Typed, Merged, Ends
  <2>9. mgr'.short = b /\ mgr'.stored = q /\ mgr'.final = m.final
    BY <2>5, <2>6 DEF Ends
  <2>10. Content(mgr', j, c, total)
    BY <2>2, <2>3, <2>9, JoinedContent
  <2>11. QED
    BY <1>2, <2>2, <2>3, <2>5, <2>6, <2>7, <2>8, <2>9, <2>10 DEF Outcome, Ends
<1>3. CASE mgr' = m /\ (~Present(m, c, total) \/ "store" \in fails)
  BY <1>1, <1>3 DEF Outcome, Cleared, Typed
<1>4. ASSUME NEW failed, NEW got \in Copies(m, c, total, failed),
             mgr' = Completed(Recorded(merge_chunks(m, c, total, got), fails), c, clear, fails)
      PROVE  Outcome(m, mgr', c, total, fails) /\ Merged(mgr')
  <2>1. PICK o : o = Recorded(merge_chunks(m, c, total, got), fails)
    OBVIOUS
  <2>2. /\ Whole(o)
        /\ o.disk = m.disk /\ o.record = m.record /\ o.status = m.status /\ o.stored = m.stored
        /\ o.announced = m.announced /\ o.clean = m.clean
        /\ o.short \in BOOLEAN /\ (m.short => o.short)
        /\ o.final = m.final \/ (m.final = NoFile /\ Content(o, o.final, c, total))
        /\ o.final # NoFile
    BY <2>1, MergedFields
  <2>3. Ends(o, mgr', c, fails)
    <3>1. mgr' = Completed(o, c, clear, fails)
      BY <1>4, <2>1
    <3>2. QED
      BY <2>2, <3>1, CompletedFields
  <2>4. Cleared(m, mgr', c, fails)
    BY <2>2, <2>3 DEF Cleared, Ends
  <2>5. mgr'.short = o.short /\ mgr'.clean = o.clean /\ mgr'.final = o.final /\ mgr'.stored = m.stored
    BY <2>2, <2>3 DEF Ends
  <2>6. mgr'.final = m.final \/ (m.final = NoFile /\ Content(mgr', mgr'.final, c, total))
    BY <2>2, <2>5 DEF Content
  <2>7. QED
    BY <2>2, <2>3, <2>4, <2>5, <2>6 DEF Outcome, Ends, Merged
<1>5. CASE /\ merge_chunks_error(m, c, total, fails)
           /\ ~CanMerge(m, c, total) \/ "merge" \in fails
  <2>1. Outcome(m, mgr', c, total, fails)
    BY <1>1, <1>5, MergeErrorOutcome
  <2>2. ~(fails = {} /\ Present(m, c, total))
    BY <1>5 DEF CanMerge
  <2>3. QED
    BY <1>1, <2>1, <2>2
<1>6. \/ /\ config.use_file_service
         /\ \E got \in Copies(m, c, total, Unread(total, fails)) :
                mgr' = Completed(Stored(m, c, total, got), c, clear, fails)
      \/ mgr' = m /\ (~Present(m, c, total) \/ "store" \in fails)
      \/ \E got \in Copies(m, c, total, Unread(total, fails)) :
                mgr' = Completed(Recorded(merge_chunks(m, c, total, got), fails), c, clear, fails)
      \/ /\ merge_chunks_error(m, c, total, fails)
         /\ ~CanMerge(m, c, total) \/ "merge" \in fails
  BY <1>1, Zenon DEF Merge
<1>7. QED
  BY <1>1, <1>2, <1>3, <1>4, <1>5, <1>6

\* The chunks that are left, and their record.
LEMMA ClearedFacts ==
    ASSUME NEW m, Typed(m), NEW n, NEW c \in Sizes, NEW fails, Cleared(m, n, c, fails)
    PROVE  /\ n.disk \subseteq m.disk
           /\ n.record \in [Sizes -> Nat]
           /\ Counted(m) => Counted(n)
           /\ "remove" \notin fails =>
                  \A d \in Sizes : m.record[d] >= Weight(d, OnDisk(m, d)) => n.record[d] >= Weight(d, OnDisk(n, d))
<1>1. n.disk \subseteq m.disk
  BY DEF Cleared
<1>2. m.record \in [Sizes -> Nat]
  BY DEF Typed
<1>3. n.record \in [Sizes -> Nat]
  BY <1>2 DEF Cleared
<1>4. ASSUME NEW d \in Sizes
      PROVE  /\ m.record[d] <= Weight(d, OnDisk(m, d)) => n.record[d] <= Weight(d, OnDisk(n, d))
             /\ "remove" \notin fails /\ m.record[d] >= Weight(d, OnDisk(m, d)) => n.record[d] >= Weight(d, OnDisk(n, d))
  <2>1. OnDisk(n, d) \subseteq Indices(d)
    BY DEF OnDisk
  <2>2. /\ Weight(d, OnDisk(n, d)) \in Nat
        /\ OnDisk(n, d) = {} => Weight(d, OnDisk(n, d)) = 0
    BY <2>1, WeightFacts
  <2>3. CASE n.disk = m.disk /\ n.record = m.record
    BY <2>3 DEF OnDisk
  <2>4. CASE d = c /\ n.record = [m.record EXCEPT ![c] = 0] /\ n.disk = m.disk /\ "remove" \in fails
    <3>1. n.record[d] = 0
      BY <1>2, <2>4
    <3>2. QED
      BY <2>2, <2>4, <3>1
  <2>5. CASE d = c /\ n.record = [m.record EXCEPT ![c] = 0] /\ n.disk = {x \in m.disk : x[1] # c}
    <3>1. n.record[d] = 0
      BY <1>2, <2>5
    <3>2. OnDisk(n, d) = {}
      BY <2>5 DEF OnDisk
    <3>3. QED
      BY <2>2, <3>1, <3>2
  <2>6. CASE d # c /\ n.record = [m.record EXCEPT ![c] = 0]
             /\ (n.disk = m.disk \/ n.disk = {x \in m.disk : x[1] # c})
    <3>1. n.record[d] = m.record[d]
      BY <1>2, <2>6
    <3>2. OnDisk(n, d) = OnDisk(m, d)
      BY <2>6 DEF OnDisk
    <3>3. QED
      BY <3>1, <3>2
  <2>7. QED
    BY <2>3, <2>4, <2>5, <2>6 DEF Cleared
<1>5. QED
  BY <1>1, <1>3, <1>4 DEF Counted

LEMMA OutcomeTyped ==
    ASSUME NEW m, Typed(m), NEW n, NEW c \in Sizes, NEW total \in Nat, NEW fails, Outcome(m, n, c, total, fails)
    PROVE  Typed(n) /\ (n.clean => m.clean)
<1>1. n.disk \subseteq Sizes \X Nat /\ n.record \in [Sizes -> Nat]
  BY ClearedFacts DEF Outcome, Typed
<1>2. n.status = NoStatus \/ n.status \in Status
  BY DEF Outcome, Typed, Status
<1>3. /\ n.final = NoFile \/ n.final \in Sorted
      /\ ~n.short => n.final = NoFile \/ n.final \in Prefixes
  BY DEF Outcome, Typed, Content
<1>4. n.stored \in Seq(Sorted) /\ (~n.short => \A k \in DOMAIN n.stored : n.stored[k] \in Prefixes)
  <2>1. PICK q : q = m.stored /\ q \in Seq(Sorted) /\ (~n.short => \A k \in DOMAIN q : q[k] \in Prefixes)
    BY DEF Typed, Outcome
  <2>2. ASSUME NEW x \in Sorted, ~n.short => x \in Prefixes, n.stored = Append(q, x)
        PROVE  n.stored \in Seq(Sorted) /\ (~n.short => \A k \in DOMAIN n.stored : n.stored[k] \in Prefixes)
    BY <2>1, <2>2
  <2>3. n.stored = q \/ \E x \in Sorted : n.stored = Append(q, x) /\ (~n.short => x \in Prefixes)
    BY <2>1 DEF Outcome, Content
  <2>4. QED
    BY <2>1, <2>2, <2>3
<1>5. n.announced \in BOOLEAN /\ n.clean \in BOOLEAN /\ n.short \in BOOLEAN /\ (n.clean => m.clean)
  BY DEF Outcome, Typed
<1>6. QED
  BY <1>1, <1>2, <1>3, <1>4, <1>5 DEF Typed, Outcome

\* A clean merge joins all the chunks.
LEMMA OutcomeTidy ==
    ASSUME NEW m, Typed(m), Tidy(m), NEW n, NEW c \in Sizes, NEW total \in Nat, NEW fails,
           Outcome(m, n, c, total, fails), n.clean => total = Count(c)
    PROVE  Tidy(n)
<1>1. SUFFICES ASSUME n.clean PROVE Known(n) /\ Counted(n) /\ (~n.short => Entire(n))
  BY DEF Tidy
<1>2. Known(m) /\ Counted(m) /\ (~m.short => Entire(m))
  BY <1>1, OutcomeTyped DEF Tidy
<1>3. n.disk \subseteq m.disk /\ Counted(n)
  BY <1>2, ClearedFacts DEF Outcome
<1>4. Known(n)
  <2>1. CASE m.status = NoStatus
    <3>1. n.status = NoStatus
      BY <2>1, StatusThere DEF Outcome
    <3>2. QED
      BY <1>2, <1>3, <2>1, <3>1 DEF Known
  <2>2. CASE m.status # NoStatus
    <3>1. m.status \in Status
      BY <2>2 DEF Typed
    <3>2. n.status \in Status /\ n.status.chunk_size = m.status.chunk_size
                             /\ n.status.uploaded_chunks = m.status.uploaded_chunks
      BY <3>1 DEF Outcome, Status
    <3>3. n.status # NoStatus
      BY <3>2, StatusThere
    <3>4. QED
      BY <1>2, <1>3, <2>2, <3>2, <3>3 DEF Known, Arrived
  <2>3. QED
    BY <2>1, <2>2
<1>5. File \in Sorted /\ File # NoFile
  <2>1. Bytes \in Nat
    BY ChunkUploadAssumption
  <2>2. File \in Seq(Nat)
    BY <2>1 DEF File
  <2>3. QED
    BY <2>1, <2>2, AbsentAssumption DEF File, Sorted, Below
<1>6. ASSUME ~n.short PROVE Entire(n)
  <2>1. Entire(m) /\ \A q : Content(n, q, c, total) => q = File
    BY <1>1, <1>2, <1>6 DEF Outcome, Content
  <2>2. n.final # NoFile => n.final = File
    BY <2>1 DEF Outcome, Entire
  <2>3. n.announced /\ ~config.use_file_service => n.final = File
    <3>1. CASE n.announced = m.announced
      <4>1. n.announced /\ ~config.use_file_service => m.final = File
        BY <2>1, <3>1 DEF Entire
      <4>2. QED
        BY <1>5, <4>1 DEF Outcome
    <3>2. CASE config.use_file_service \/ n.final # NoFile
      BY <2>2, <3>2
    <3>3. QED
      BY <3>1, <3>2 DEF Outcome
  <2>4. \A k \in DOMAIN n.stored : n.stored[k] = File
    <3>1. PICK q : q = m.stored /\ q \in Seq(Sorted) /\ \A k \in DOMAIN q : q[k] = File
      BY <2>1 DEF Entire, Typed
    <3>2. \A k \in DOMAIN Append(q, File) : Append(q, File)[k] = File
      BY <1>5, <3>1
    <3>3. n.stored = q \/ n.stored = Append(q, File)
      BY <2>1, <3>1 DEF Outcome
    <3>4. QED
      BY <3>1, <3>2, <3>3
  <2>5. QED
    BY <2>2, <2>3, <2>4 DEF Entire
<1>7. QED
  BY <1>3, <1>4, <1>6

\* What was merged stays merged, and no chunk comes.
LEMMA OutcomePrompt ==
    ASSUME NEW m, Typed(m), NEW n, NEW c \in Sizes, NEW total \in Nat, NEW fails, Outcome(m, n, c, total, fails)
    PROVE  /\ "remove" \notin fails /\ Current(m) => Current(n)
           /\ Merged(m) => Merged(n)
           /\ Prompt(m) => Prompt(n)
<1>1. n.clean => m.clean
  BY OutcomeTyped
<1>2. "remove" \notin fails /\ Current(m) => Current(n)
  BY <1>1, ClearedFacts DEF Outcome, Current
<1>3. Merged(m) => Merged(n)
  <2>1. m.stored \in Seq(Sorted) /\ NoFile \notin Sorted
    BY AbsentAssumption DEF Typed, Sorted, Below
  <2>2. \A q : Append(m.stored, q) # <<>>
    BY <2>1, AppendFilled
  <2>3. QED
    BY <2>1, <2>2 DEF Outcome, Merged, Content
<1>4. ASSUME Prompt(m) PROVE Prompt(n)
  <2>1. n.disk \subseteq m.disk
    BY ClearedFacts DEF Outcome
  <2>2. \A d \in Sizes : Complete(n, d) => Complete(m, d)
    BY <2>1 DEF Complete
  <2>3. QED
    BY <1>1, <1>3, <1>4, <2>2 DEF Prompt
<1>5. QED
  BY <1>2, <1>3, <1>4
-----------------------------------------------------------------------------
(* The steps keep the invariant.                                           *)

\* The status is dropped: an upload of which chunks are left is not clean.
LEMMA ForgottenInv ==
    ASSUME NEW m, Typed(m), Tidy(m), NEW n, n = Forgotten(m)
    PROVE  Typed(n) /\ Tidy(n) /\ (Current(m) => Current(n)) /\ (Prompt(m) => Prompt(n))
<1>1. PICK b : b = (m.clean /\ m.disk = {})
  OBVIOUS
<1>2. n = [m EXCEPT !.status = NoStatus, !.clean = b]
  BY <1>1 DEF Forgotten
<1>3. /\ Whole(n) /\ n.disk = m.disk /\ n.record = m.record /\ n.status = NoStatus
      /\ n.final = m.final /\ n.stored = m.stored /\ n.announced = m.announced /\ n.clean = b
      /\ n.short = m.short
  BY <1>2 DEF Typed, Whole
<1>4. b \in BOOLEAN /\ (b => m.clean) /\ (b => m.disk = {})
  BY <1>1
<1>5. Typed(n)
  BY <1>3, <1>4 DEF Typed
<1>6. \A c \in Sizes : OnDisk(n, c) = OnDisk(m, c) /\ (Complete(n, c) <=> Complete(m, c))
  BY <1>3 DEF OnDisk, Complete
<1>7. Tidy(n)
  <2>1. n.clean => Known(n)
    BY <1>3, <1>4 DEF Known
  <2>2. n.clean => Counted(n)
    BY <1>3, <1>4, <1>6 DEF Tidy, Counted
  <2>3. n.clean /\ ~n.short => Entire(n)
    BY <1>3, <1>4 DEF Tidy, Entire
  <2>4. QED
    BY <2>1, <2>2, <2>3 DEF Tidy
<1>8. Current(m) => Current(n)
  BY <1>3, <1>4, <1>6 DEF Current
<1>9. Prompt(m) => Prompt(n)
  BY <1>3, <1>4, <1>6 DEF Prompt, Merged
<1>10. QED
  BY <1>5, <1>7, <1>8, <1>9

\* A chunk is written in part: if it was whole the upload is not clean.
LEMMA TearInv ==
    ASSUME NEW m, Typed(m), Tidy(m), NEW c, NEW i, NEW n, n = Tear(m, c, i)
    PROVE  Typed(n) /\ Tidy(n)
<1>1. PICK b : b = (m.clean /\ <<c, i>> \notin m.disk)
  OBVIOUS
<1>2. PICK d, t : d = m.disk \ {<<c, i>>} /\ n = [m EXCEPT !.disk = d, !.torn = t, !.clean = b]
  BY <1>1 DEF Tear
<1>3. /\ Whole(n) /\ n.disk = d /\ n.record = m.record /\ n.status = m.status
      /\ n.final = m.final /\ n.stored = m.stored /\ n.announced = m.announced /\ n.clean = b
      /\ n.short = m.short
  BY <1>2 DEF Typed, Whole
<1>4. b \in BOOLEAN /\ (b => m.clean) /\ (b => d = m.disk)
  BY <1>1, <1>2
<1>5. Typed(n)
  BY <1>2, <1>3, <1>4 DEF Typed
<1>6. n.clean => \A s \in Sizes : OnDisk(n, s) = OnDisk(m, s)
  BY <1>3, <1>4 DEF OnDisk
<1>7. Tidy(n)
  <2>1. n.clean => Known(n)
    BY <1>3, <1>4 DEF Tidy, Known
  <2>2. n.clean => Counted(n)
    BY <1>3, <1>4, <1>6 DEF Tidy, Counted
  <2>3. n.clean /\ ~n.short => Entire(n)
    BY <1>3, <1>4 DEF Tidy, Entire
  <2>4. QED
    BY <2>1, <2>2, <2>3 DEF Tidy
<1>8. QED
  BY <1>5, <1>7

\* The number of failures is a number, and stays 0 only while none occurs.
LEMMA FailingFacts ==
    ASSUME UInv, NEW fails \in SUBSET Steps, Failing(fails)
    PROVE  config' = config /\ faults' \in Nat /\ (faults' = 0 => faults = 0 /\ fails = {})
<1>1. IsFiniteSet(Steps)
  <2>1. \A S, x : IsFiniteSet(S) => IsFiniteSet(S \cup {x})
    BY FS_AddElement
  <2>2. PICK A : A = (({} \cup {"record"}) \cup {"check"}) \cup {"read"}
    OBVIOUS
  <2>3. Steps = (((A \cup {"merge"}) \cup {"store"}) \cup {"db"}) \cup {"remove"}
    BY <2>2 DEF Steps
  <2>4. IsFiniteSet({})
    BY FS_EmptySet
  <2>5. IsFiniteSet(A)
    BY <2>1, <2>2, <2>4, Zenon
  <2>6. QED
    BY <2>1, <2>3, <2>5, Zenon
<1>2. IsFiniteSet(fails)
  BY <1>1, FS_Subset
<1>3. Cardinality(fails) \in Nat /\ (Cardinality(fails) = 0 <=> fails = {})
  BY <1>2, FS_CardinalityType, FS_EmptySet
<1>4. faults \in Nat /\ faults' = faults + Cardinality(fails) /\ config' = config
  BY DEF UInv, Failing
<1>5. QED
  BY <1>3, <1>4

\* A merge or clean-up that starts from m, where the parts of the invariant
\* hold and, if it is clean, joins all the chunks.
LEMMA OutcomeInv ==
    ASSUME NEW m, Typed(m), Tidy(m), NEW c \in Sizes, NEW total \in Nat, NEW fails,
           Outcome(m, mgr', c, total, fails), mgr'.clean => total = Count(c),
           config' = config, faults' \in Nat, faults' = 0 => faults = 0 /\ fails = {},
           faults' = 0 => Current(m) /\ (Prompt(m) \/ (mgr'.clean => Merged(mgr')))
    PROVE  UInv'
<1>1. Typed(mgr') /\ Tidy(mgr')
  BY OutcomeTyped, OutcomeTidy
<1>2. faults' = 0 => Current(mgr') /\ Prompt(mgr')
  BY OutcomePrompt DEF Prompt
<1>3. QED
  BY <1>1, <1>2 DEF UInv, Tidy, Entire

\* handle_chunk_upload.
LEMMA UploadInv ==
    ASSUME UInv, NEW c \in Sizes, NEW i \in 0 .. Count(c) - 1, NEW fails \in SUBSET Steps,
           handle_chunk_upload(c, i, fails)
    PROVE  UInv'
<1>1. config' = config /\ faults' \in Nat /\ (faults' = 0 => faults = 0 /\ fails = {})
  BY FailingFacts DEF handle_chunk_upload
<1>2. PICK r \in Recordings(Accepted(mgr, c, i), c, i, fails) :
          LET m == update_chunk_size_record(Accepted(mgr, c, i), c, r)
          IN  \/ /\ ~all_chunk_uploaded(m, c) \/ "check" \in fails
                 /\ mgr' = m
              \/ all_chunk_uploaded(m, c) /\ Merge(m, c, config.clear_chunks_on_complete, fails)
  BY DEF handle_chunk_upload, Accepted
<1>3. PICK m : m = update_chunk_size_record(Accepted(mgr, c, i), c, r)
  OBVIOUS
<1>4. i \in Indices(c) /\ i \in Nat
  BY IndexIsNat DEF Indices
<1>5. Typed(mgr) /\ Tidy(mgr) /\ (faults = 0 => Current(mgr) /\ Prompt(mgr))
  BY DEF UInv
<1>6. Accepts(mgr, m, c, i, fails)
  BY <1>3, <1>4, <1>5, AcceptedFields
<1>7. Typed(m) /\ Tidy(m) /\ m.status \in Status
  BY <1>4, <1>5, <1>6, AcceptedTyped, AcceptedTidy
<1>8. faults' = 0 => Current(m)
  BY <1>1, <1>4, <1>5, <1>6, AcceptedCounted
<1>9. CASE (~all_chunk_uploaded(m, c) \/ "check" \in fails) /\ mgr' = m
  <2>1. faults' = 0 => Prompt(m)
    BY <1>1, <1>4, <1>5, <1>6, <1>9, AcceptedPrompt
  <2>2. QED
    BY <1>1, <1>7, <1>8, <1>9, <2>1 DEF UInv, Tidy, Entire
<1>10. CASE all_chunk_uploaded(m, c) /\ Merge(m, c, config.clear_chunks_on_complete, fails)
  <2>1. PICK total \in Nat : total = Len(m.status.uploaded_chunks)
    BY <1>7 DEF Status
  <2>2. /\ Outcome(m, mgr', c, total, fails)
        /\ fails = {} /\ Present(m, c, total) => Merged(mgr')
    BY <1>7, <1>10, <2>1, MergeOutcome
  <2>3. m.clean => total = Count(c) /\ Present(m, c, total)
    BY <1>7, <1>10, <2>1, FullStatus DEF Tidy, all_chunk_uploaded
  <2>4. mgr'.clean => m.clean
    BY <1>7, <2>2, OutcomeTyped
  <2>5. QED
    BY <1>1, <1>7, <1>8, <2>2, <2>3, <2>4, OutcomeInv
<1>11. QED
  BY <1>2, <1>3, <1>9, <1>10

\* handle_chunk_merge.
LEMMA MergeInv ==
    ASSUME UInv, NEW c \in Sizes, NEW fails \in SUBSET Steps, handle_chunk_merge(c, fails)
    PROVE  UInv'
<1>1. config' = config /\ faults' \in Nat /\ (faults' = 0 => faults = 0 /\ fails = {})
  BY FailingFacts DEF handle_chunk_merge
<1>2. Typed(mgr) /\ Tidy(mgr) /\ (faults = 0 => Current(mgr) /\ Prompt(mgr))
  BY DEF UInv
<1>3. mgr.status \in Status /\ mgr.status.chunk_size \in Sizes
  BY <1>2 DEF handle_chunk_merge, Typed, Status
<1>4. PICK size \in Sizes : size = mgr.status.chunk_size
  BY <1>3
<1>5. PICK b : b = (mgr.clean /\ size = c)
  OBVIOUS
<1>6. PICK m : m = [mgr EXCEPT !.clean = b]
  OBVIOUS
<1>7. /\ Whole(m) /\ m.disk = mgr.disk /\ m.record = mgr.record /\ m.status = mgr.status
      /\ m.final = mgr.final /\ m.stored = mgr.stored /\ m.announced = mgr.announced /\ m.clean = b
      /\ m.short = mgr.short
  BY <1>2, <1>6 DEF Typed, Whole
<1>8. b \in BOOLEAN /\ (b => mgr.clean /\ size = c)
  BY <1>5
<1>9. Typed(m)
  BY <1>2, <1>7, <1>8 DEF Typed
<1>10. \A d \in Sizes : OnDisk(m, d) = OnDisk(mgr, d) /\ (Complete(m, d) <=> Complete(mgr, d))
  BY <1>7 DEF OnDisk, Complete
<1>11. Tidy(m)
  <2>1. m.clean => Known(m)
    BY <1>2, <1>7, <1>8 DEF Tidy, Known
  <2>2. m.clean => Counted(m)
    BY <1>2, <1>7, <1>8, <1>10 DEF Tidy, Counted
  <2>3. m.clean /\ ~m.short => Entire(m)
    BY <1>2, <1>7, <1>8 DEF Tidy, Entire
  <2>4. QED
    BY <2>1, <2>2, <2>3 DEF Tidy
<1>12. (Current(mgr) => Current(m)) /\ (Prompt(mgr) => Prompt(m))
  BY <1>7, <1>8, <1>10 DEF Current, Prompt, Merged
<1>13. Merge(m, size, TRUE, fails)
  BY <1>4, <1>5, <1>6 DEF handle_chunk_merge
<1>14. PICK total \in Nat : total = Len(m.status.uploaded_chunks)
  BY <1>3, <1>7 DEF Status
<1>15. Outcome(m, mgr', size, total, fails)
  BY <1>3, <1>7, <1>9, <1>13, <1>14, MergeOutcome
<1>16. total = Count(c)
  BY <1>7, <1>14 DEF handle_chunk_merge
<1>17. mgr'.clean => total = Count(size)
  BY <1>7, <1>8, <1>9, <1>15, <1>16, OutcomeTyped
<1>18. QED
  BY <1>1, <1>2, <1>9, <1>11, <1>12, <1>15, <1>17, OutcomeInv

\* handle_chunk_merge_internal and cleanup_chunks.
LEMMA InternalInv ==
    ASSUME UInv, NEW c \in Sizes, NEW fails \in SUBSET Steps,
           handle_chunk_merge_internal(c, fails) \/ cleanup_chunks_public(c, fails)
    PROVE  UInv'
<1>1. config' = config /\ faults' \in Nat /\ (faults' = 0 => faults = 0 /\ fails = {})
  BY FailingFacts DEF handle_chunk_merge_internal, cleanup_chunks_public
<1>2. Typed(mgr) /\ Tidy(mgr) /\ (faults = 0 => Current(mgr) /\ Prompt(mgr)) /\ Whole(mgr)
  BY DEF UInv, Typed
<1>3. PICK total \in Nat : total = Count(c)
  BY CountFacts
<1>4. Outcome(mgr, mgr', c, total, fails)
  <2>1. CASE mgr' = cleanup_chunks(mgr, c, fails)
    BY <1>2, <2>1, CleanupFields DEF Outcome, Typed
  <2>2. ASSUME NEW got \in Copies(mgr, c, total, Unread(total, fails)),
               mgr' = Recorded(merge_chunks(mgr, c, total, got), fails)
        PROVE  Outcome(mgr, mgr', c, total, fails)
    BY <1>2, <2>2, MergedFields DEF Outcome, Cleared
  <2>3. CASE merge_chunks_error(mgr, c, total, fails)
    BY <1>2, <2>3, MergeErrorOutcome
  <2>4. QED
    BY <1>3, <2>1, <2>2, <2>3 DEF handle_chunk_merge_internal, cleanup_chunks_public
<1>5. QED
  BY <1>1, <1>2, <1>3, <1>4, OutcomeInv

LEMMA InitUInv == Init => UInv
<1>1. SUFFICES ASSUME Init PROVE UInv
  OBVIOUS
<1>2. /\ Whole(mgr) /\ mgr.disk = {} /\ mgr.record = [c \in Sizes |-> 0] /\ mgr.status = NoStatus
      /\ mgr.final = NoFile /\ mgr.stored = <<>> /\ mgr.announced = FALSE /\ mgr.clean = TRUE
      /\ mgr.short = FALSE /\ faults = 0
  BY <1>1 DEF Init, Fresh, Whole
<1>3. <<>> \in Seq(Sorted) /\ DOMAIN <<>> = {}
  OBVIOUS
<1>4. Typed(mgr)
  <2>1. mgr.record \in [Sizes -> Nat] /\ mgr.disk \subseteq Sizes \X Nat
    BY <1>2
  <2>2. /\ mgr.stored \in Seq(Sorted) /\ \A k \in DOMAIN mgr.stored : mgr.stored[k] \in Prefixes
        /\ mgr.announced \in BOOLEAN /\ mgr.clean \in BOOLEAN /\ mgr.short \in BOOLEAN
    BY <1>2, <1>3
  <2>3. QED
    BY <1>2, <2>1, <2>2 DEF Typed
<1>5. ASSUME NEW c \in Sizes
      PROVE  /\ mgr.record[c] = 0 /\ Weight(c, OnDisk(mgr, c)) = 0
             /\ ~Complete(mgr, c)
  <2>1. OnDisk(mgr, c) = {}
    BY <1>2 DEF OnDisk
  <2>2. {} \subseteq Indices(c)
    OBVIOUS
  <2>3. Weight(c, {}) = 0
    BY <2>2, WeightFacts
  <2>4. 0 \in 0 .. Count(c) - 1
    BY CountFacts
  <2>5. QED
    BY <1>2, <2>1, <2>3, <2>4 DEF Complete
<1>6. Known(mgr) /\ Entire(mgr)
  BY <1>2 DEF Known, Entire
<1>7. Counted(mgr) /\ Current(mgr) /\ Prompt(mgr)
  BY <1>5 DEF Counted, Current, Prompt
<1>8. QED
  BY <1>2, <1>4, <1>6, <1>7 DEF UInv, Tidy

LEMMA NextUInv == UInv /\ [Next]_vars => UInv'
<1> SUFFICES ASSUME UInv, [Next]_vars PROVE UInv'
  OBVIOUS
<1>1. ASSUME NEW c, NEW i, UploadRefused(c, i) PROVE UInv'
  <2>1. {"save"} \in SUBSET {"save"} /\ Cardinality({"save"}) = 1
    BY FS_Singleton
  <2>2. mgr' \in {mgr, Tear(mgr, c, i)} /\ config' = config /\ faults' = faults + 1 /\ faults \in Nat
    BY <1>1, <2>1 DEF UploadRefused, Failing, UInv
  <2>3. faults' \in Nat /\ faults' # 0
    BY <2>2
  <2>4. Typed(mgr') /\ Tidy(mgr')
    BY <2>2, TearInv DEF UInv
  <2>5. QED
    BY <2>2, <2>3, <2>4 DEF UInv, Tidy, Entire
<1>2. ASSUME NEW c \in Sizes, NEW fails \in Failures,
             \/ \E i \in 0 .. Count(c) - 1 : handle_chunk_upload(c, i, fails)
             \/ handle_chunk_merge(c, fails)
             \/ handle_chunk_merge_internal(c, fails)
      PROVE  UInv'
  BY <1>2, UploadInv, MergeInv, InternalInv DEF Failures
<1>3. ASSUME NEW c \in Sizes, NEW fails \in SUBSET {"remove"}, cleanup_chunks_public(c, fails) PROVE UInv'
  <2>1. fails \in SUBSET Steps
    BY DEF Steps
  <2>2. QED
    BY <1>3, <2>1, InternalInv
<1>4. CASE cleanup_upload_status \/ cleanup_invalid_status \/ Restart
  <2>1. mgr' = Forgotten(mgr) /\ config' = config /\ faults' = faults
    BY <1>4 DEF cleanup_upload_status, cleanup_invalid_status, Restart
  <2>2. Typed(mgr') /\ Tidy(mgr') /\ (Current(mgr) => Current(mgr')) /\ (Prompt(mgr) => Prompt(mgr'))
    BY <2>1, ForgottenInv DEF UInv
  <2>3. QED
    BY <2>1, <2>2 DEF UInv, Tidy, Entire
<1>5. CASE UNCHANGED vars
  BY <1>5 DEF vars, UInv, Tidy, Entire
<1>6. QED
  BY <1>1, <1>2, <1>3, <1>4, <1>5 DEF Next

\* Whatever arrives, fails or is restarted, a final file and every file given
\* to the file service hold bytes of the file in order and none twice, and the
\* first ones without a gap unless a merge went on behind a chunk that it
\* could not read to the end (merge_chunks, merge_and_store_to_file_service).
THEOREM FinalPrefixes == Spec => []FinalIsPrefix
<1>1. ASSUME NEW p \in Prefixes PROVE IsPrefixOfFile(p)
  <2>1. PICK n \in 0 .. Bytes : p = Prefix(n)
    BY DEF Prefixes
  <2>2. Bytes \in Nat
    BY ChunkUploadAssumption
  <2>3. p \in Seq(Nat) /\ Len(p) = n /\ \A j \in 1 .. n : p[j] = j
    BY <2>1, <2>2 DEF Prefix
  <2>4. PICK q : q = SubSeq(File, 1, n)
    OBVIOUS
  <2>5. q \in Seq(Nat) /\ Len(q) = n /\ \A j \in 1 .. n : q[j] = j
    BY <2>2, <2>4 DEF File
  <2>6. p = q
    BY <2>3, <2>5
  <2>7. QED
    BY <2>3, <2>4, <2>6 DEF IsPrefixOfFile
<1>2. ASSUME NEW p \in Sorted PROVE InOrder(p)
  BY DEF Sorted, Below, InOrder
<1>3. UInv => FinalIsPrefix
  <2>1. SUFFICES ASSUME UInv,
                        NEW p \in {mgr.stored[k] : k \in DOMAIN mgr.stored} \cup ({mgr.final} \ {NoFile})
                 PROVE  InOrder(p) /\ (~mgr.short => IsPrefixOfFile(p))
    BY DEF FinalIsPrefix
  <2>2. p \in Sorted /\ (~mgr.short => p \in Prefixes)
    <3>1. CASE p = mgr.final /\ p # NoFile
      BY <2>1, <3>1 DEF UInv, Typed
    <3>2. ASSUME NEW k \in DOMAIN mgr.stored, p = mgr.stored[k]
          PROVE  p \in Sorted /\ (~mgr.short => p \in Prefixes)
      BY <2>1, <3>2 DEF UInv, Typed
    <3>3. QED
      BY <2>1, <3>1, <3>2
  <2>3. QED
    BY <1>1, <1>2, <2>2
<1>4. QED
  BY <1>3, InitUInv, NextUInv, PTL DEF Spec

\* Without a retry, a lost status, a change of the chunk size, a merge that was
\* cut off and a chunk that could not be read to the end, a file that was
\* announced as merged is the whole file
\* (all_chunk_uploaded, the merge by the number of chunks in the status).
THEOREM AnnouncedFilesWhole == Spec => []AnnouncedIsWhole
<1>1. UInv => AnnouncedIsWhole
  BY DEF UInv, Tidy, Entire, AnnouncedIsWhole, RetriedIsWhole
<1>2. QED
  BY <1>1, InitUInv, NextUInv, PTL DEF Spec

\* When all the chunks are there and nothing failed, the file has been merged:
\* the size record has not fallen behind the chunks (update_chunk_size_record).
THEOREM MergedInTime == Spec => []MergedWhenAllThere
<1>1. UInv => MergedWhenAllThere
  BY DEF UInv, Prompt, Merged, MergedWhenAllThere
<1>2. QED
  BY <1>1, InitUInv, NextUInv, PTL DEF Spec
=============================================================================
