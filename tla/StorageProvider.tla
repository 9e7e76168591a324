-------------------------- MODULE StorageProvider --------------------------
(***************************************************************************)
(* The multipart half of the StorageProvider interface, for the two kinds  *)
(* of provider the repository has: the local provider (local_storage.v),   *)
(* which keeps its sessions in a map in memory and its parts as files, and *)
(* the cloud providers (s3_storage.v and its siblings), where the session  *)
(* lives in the remote service and a completion is checked against ETags.  *)
(***************************************************************************)
EXTENDS MultipartDB

CONSTANTS
    Cloud,      \* TRUE: cloud provider; FALSE: local provider
    Torn        \* content of a local file whose write failed half way

ASSUME CloudAssumption == Cloud \in BOOLEAN
ASSUME TornAssumption == Torn \notin Data /\ Torn # None

VARIABLES
    session,    \* id -> "none" | "open" | "closed"; open: temp dir / remote upload
    partData,   \* id -> part number -> None or stored content
    known,      \* keys of the in-memory multipart_uploads map
    objects     \* id -> None or the final object, part by part

storeVars == <<session, partData, known, objects>>

Stored  == Data \cup {Torn}
Content == [PartNumbers -> Stored \cup {None}]
Empty   == [n \in PartNumbers |-> None]

\* An absent object is told apart from every content.
ASSUME AbsentAssumption == None \notin Content

StoreTypeOK ==
    /\ session \in [UploadIds -> {"none", "open", "closed"}]
    /\ partData \in [UploadIds -> Content]
    /\ known \in SUBSET UploadIds
    /\ objects \in [UploadIds -> Content \cup {None, Torn}]

StoreInit ==
    /\ session = [u \in UploadIds |-> "none"]
    /\ partData = [u \in UploadIds |-> Empty]
    /\ known = {}
    /\ objects = [u \in UploadIds |-> None]

\* The remote service answers NoSuchUpload unless the upload is open; the
\* local provider knows only the sessions in its map.
Accepts(u) == IF Cloud THEN session[u] = "open" ELSE u \in known

\* init_multipart returns a fresh id: the service's UploadId or a random one.
provider_init_multipart(u) ==
    /\ session[u] = "none"
    /\ session' = [session EXCEPT ![u] = "open"]
    /\ known' = known \cup {u}
    /\ UNCHANGED <<partData, objects>>

provider_upload_part(u, n, d) ==
    /\ Accepts(u)
    /\ partData' = [partData EXCEPT ![u][n] = d]
    /\ UNCHANGED <<session, known, objects>>

\* Mutant: the service does not compare ETags.
PartMatchesUnchecked(u, n, rows) == partData[u][n] # None

\* A listed part must exist; the cloud service also compares its ETag, the
\* local provider ignores the ETags it is given.
PartMatches(u, n, rows) ==
    /\ partData[u][n] # None
    /\ Cloud => ETag(partData[u][n]) = rows[n]

CanAssemble(u, rows) ==
    /\ Accepts(u)
    /\ \A n \in Recorded(rows) : PartMatches(u, n, rows)

Assembled(u, rows) ==
    [n \in PartNumbers |-> IF n \in Recorded(rows) THEN partData[u][n] ELSE None]

\* Mutant: the session and its parts survive its end.
close_session_not(u) == UNCHANGED <<session, partData, known>>

close_session(u) ==
    /\ session' = [session EXCEPT ![u] = "closed"]
    /\ partData' = [partData EXCEPT ![u] = Empty]
    /\ known' = known \ {u}

\* The service tells a failure by a status other than 200, the only thing the
\* code looks at (s3_storage.v:865); an Error in the body of a 200 is left out.
provider_complete_multipart(u, rows) ==
    /\ CanAssemble(u, rows)
    /\ objects' = [objects EXCEPT ![u] = Assembled(u, rows)]
    /\ close_session(u)

provider_abort_multipart(u) ==
    /\ Accepts(u)
    /\ close_session(u)
    /\ UNCHANGED objects

\* A restarted process has an empty map; files and remote state survive.
provider_restart ==
    /\ known' = {}
    /\ UNCHANGED <<session, partData, objects>>
============================================================================
