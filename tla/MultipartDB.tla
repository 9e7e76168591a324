---------------------------- MODULE MultipartDB ----------------------------
(***************************************************************************)
(* The two multipart tables of database.v (multipart_uploads and           *)
(* uploaded_parts) and the file_info rows that completed uploads leave.    *)
(* Every SQL statement is one atomic step, so an operation of the chunk    *)
(* manager that issues several statements can be interleaved or cut off    *)
(* between them.  Each operator below is the effect of one statement on    *)
(* the tables; ChunkManager composes them into actions.                    *)
(***************************************************************************)
EXTENDS Naturals, FiniteSets

CONSTANTS
    UploadIds,  \* upload ids the storage provider may hand out
    Data,       \* contents a client may send for a part
    MaxParts,   \* config.max_parts
    None        \* absent row / absent value

ASSUME MaxPartsAssumption == MaxParts \in Nat \ {0}

VARIABLES
    uploads,    \* multipart_uploads: id -> None or [status, total]
    parts,      \* uploaded_parts: id -> part number -> None or etag
    files,      \* ids whose file_info row was inserted (one file_uuid each)
    stale       \* ids whose updated_at is older than max_age_seconds

dbVars == <<uploads, parts, files, stale>>

PartNumbers == 1..MaxParts
Statuses    == {"uploading", "completed", "aborted"}

\* An ETag is the MD5 of the content: equal contents, and only those, agree.
ETag(d) == [md5 |-> d]
ETags   == [md5 : Data]

UploadRow == [status : Statuses, total : PartNumbers]
PartRows  == [PartNumbers -> ETags \cup {None}]
\* An absent row or value is told apart from every row, ETag and content.
ASSUME NoneAssumption == None \notin UploadRow /\ None \notin ETags /\ None \notin Data

NoParts   == [n \in PartNumbers |-> None]

DBTypeOK ==
    /\ uploads \in [UploadIds -> UploadRow \cup {None}]
    /\ parts \in [UploadIds -> PartRows]
    /\ files \in SUBSET UploadIds
    /\ stale \in SUBSET UploadIds

DBInit ==
    /\ uploads = [u \in UploadIds |-> None]
    /\ parts = [u \in UploadIds |-> NoParts]
    /\ files = {}
    /\ stale = {}

HasRow(u)      == uploads[u] # None
IsUploading(u) == HasRow(u) /\ uploads[u].status = "uploading"

\* The part numbers a SELECT over uploaded_parts returns.
Recorded(rows) == {n \in PartNumbers : rows[n] # None}

create_multipart_upload(u, total) ==
    /\ uploads' = [uploads EXCEPT ![u] = [status |-> "uploading", total |-> total]]
    /\ stale' = stale \ {u}
    /\ UNCHANGED <<parts, files>>

\* An UPDATE that matches no row changes nothing and is not an error.
update_multipart_status(u, status) ==
    /\ uploads' = IF HasRow(u) THEN [uploads EXCEPT ![u].status = status] ELSE uploads
    /\ stale' = stale \ {u}
    /\ UNCHANGED <<parts, files>>

\* INSERT OR REPLACE; the upload row is not consulted.  The second statement
\* refreshes updated_at; its failure is swallowed.
record_uploaded_part(u, n, etag, touched) ==
    /\ parts' = [parts EXCEPT ![u][n] = etag]
    /\ stale' = IF touched THEN stale \ {u} ELSE stale
    /\ UNCHANGED <<uploads, files>>

\* delete_multipart_upload, first statement.
delete_part_rows(u) ==
    /\ parts' = [parts EXCEPT ![u] = NoParts]
    /\ UNCHANGED <<uploads, files, stale>>

\* delete_multipart_upload, second statement.
delete_upload_row(u) ==
    /\ uploads' = [uploads EXCEPT ![u] = None]
    /\ stale' = stale \ {u}
    /\ UNCHANGED <<parts, files>>

insert_file(u) ==
    /\ files' = files \cup {u}
    /\ UNCHANGED <<uploads, parts, stale>>

list_pending_multipart_uploads == {u \in UploadIds : IsUploading(u)}
============================================================================
