------------------------------ MODULE ObjectStore ------------------------------
(***************************************************************************)
(* The object service: uploads, downloads, deletes and listings over two    *)
(* stores that share no transaction, the objects table in Postgres and the  *)
(* blob directory of the local driver.  Each HTTP request is a process (one *)
(* goroutine) and each call it makes to the database or to the filesystem   *)
(* is one step, so that any calls of other requests fit in between.         *)
(*                                                                          *)
(* A request r stands for the id its upload draws from uuid.New and for     *)
(* the bytes of its body, so files[p] = r says that the file at path p      *)
(* holds all the bytes that r uploaded, and checksum = r says that a row    *)
(* carries their hash.                                                      *)
(***************************************************************************)
EXTENDS Naturals, FiniteSets

CONSTANTS
    Requests,   \* the HTTP requests, each of which runs once
    Buckets,    \* bucket names
    Keys,       \* object keys
    NoFile,     \* content of a path where there is no file
    Partial,    \* content of a file of which io.Copy wrote only a part
    Faults      \* what may go wrong, a subset of FaultKinds

\* db: a statement fails without effect (or its context was cancelled first)
\* ack: a statement commits but the caller is given an error
\* fs: a filesystem call fails     crash: the process dies and is restarted
FaultKinds == {"db", "ack", "fs", "crash"}

ASSUME FaultsAssumption == Faults \subseteq FaultKinds
ASSUME ContentAssumption ==
    NoFile \notin Requests /\ Partial \notin Requests /\ NoFile # Partial

VARIABLES
    buckets,    \* the buckets table: names that exist
    objects,    \* the objects table: a set of rows
    files,      \* the blob directory: the content at each storage path
    req,        \* what each request asks for
    pc,         \* the next external call of each request
    found,      \* rows a request holds in memory (at most one but for a list)
    resp,       \* the status answered, or pending, or dropped by a crash
    served,     \* the body of a 200 download: whose bytes, and whether all of them
    committed,  \* history: uploads whose Upsert took effect
    replaced    \* history: rows that the Upsert of an upload displaced

vars == <<buckets, objects, files, req, pc, found, resp, served,
          committed, replaced>>
history == <<committed, replaced>>
store == <<buckets, objects, files>>

Ops == {"put", "get", "delete", "list"}
Request == [op : Ops, bucket : Buckets, key : Keys]
Row == [id : Requests, bucket : Buckets, key : Keys,
        path : Requests, checksum : Requests]
Content == Requests \cup {NoFile, Partial}
Body == [bytes : Content, whole : BOOLEAN]

Steps == {"FindBucket", "CreateBlob", "CopyBody", "FindExisting", "Upsert",
          "Cleanup", "DropOld", "FindObject", "Open", "RemoveBlob",
          "DeleteRow", "ListByBucket"}
Statuses == {"pending", "dropped", "200", "201", "204", "400", "404", "500"}

TypeOK ==
    /\ buckets \subseteq Buckets
    /\ objects \subseteq Row
    /\ files \in [Requests -> Content]
    /\ req \in [Requests -> Request]
    /\ pc \in [Requests -> Steps]
    /\ found \in [Requests -> SUBSET Row]
    /\ resp \in [Requests -> Statuses]
    /\ served \in [Requests -> Body]
    /\ committed \subseteq Requests
    /\ replaced \in [Requests -> SUBSET Row]

Init ==
    /\ buckets = {}
    /\ objects = {}
    /\ files = [p \in Requests |-> NoFile]
    /\ req \in [Requests -> Request]
    /\ pc = [r \in Requests |-> "FindBucket"]
    /\ found = [r \in Requests |-> {}]
    /\ resp = [r \in Requests |-> "pending"]
    /\ served = [r \in Requests |-> [bytes |-> NoFile, whole |-> FALSE]]
    /\ committed = {}
    /\ replaced = [r \in Requests |-> {}]

-----------------------------------------------------------------------------
(* How a request moves on.                                                  *)

At(r, step) == pc[r] = step /\ resp[r] = "pending"
Goto(r, step) == pc' = [pc EXCEPT ![r] = step] /\ UNCHANGED resp
Answer(r, status) == resp' = [resp EXCEPT ![r] = status] /\ UNCHANGED pc
MayFail(fault) == fault \in Faults

(* The rows and paths of an upload, and the statements on the table.        *)

\* mutant: the path is made from the key, not from a fresh id
StoragePathOfKey(r) ==
    CHOOSE q \in Requests :
        req[q].bucket = req[r].bucket /\ req[q].key = req[r].key

\* mutant: the path is never filled in
StoragePathUnset(r) == NoFile

\* <first two hex digits>/<uuid>: a path of its own for every upload
StoragePath(r) == r

RowOf(r) ==
    [id |-> r, bucket |-> req[r].bucket, key |-> req[r].key,
     path |-> StoragePath(r), checksum |-> r]

\* SELECT ... WHERE bucket_id = $1 AND object_key = $2
FindByKey(r) ==
    {o \in objects : o.bucket = req[r].bucket /\ o.key = req[r].key}

\* mutant: DO UPDATE leaves storage_path as it was
UpsertedKeepingPath(r) ==
    (objects \ FindByKey(r)) \cup
        {IF FindByKey(r) = {} THEN RowOf(r)
         ELSE [RowOf(r) EXCEPT !.path = (CHOOSE o \in FindByKey(r) : TRUE).path]}

\* INSERT ... ON CONFLICT (bucket_id, object_key) DO UPDATE of every column
Upserted(r) == (objects \ FindByKey(r)) \cup {RowOf(r)}

\* mutant: DELETE by bucket and key, as the unused DeleteByKey does
RowsKeptByKey(r) == objects \ FindByKey(r)

\* mutant: the statement deletes nothing
RowsKeptAll(r) == objects

\* DELETE FROM objects WHERE id = $1, for the id the request looked up
RowsKept(r) == {o \in objects : \A d \in found[r] : d.id # o.id}

Written(path, content) == [files EXCEPT ![path] = content]

\* os.Remove of the paths of rows; a path without a file stays without one
Removed(rows) ==
    [p \in Requests |-> IF \E o \in rows : o.path = p THEN NoFile ELSE files[p]]

-----------------------------------------------------------------------------
(* The bucket look-up that every operation starts with.                     *)

\* POST /buckets by another client: a bucket appears, and none is ever deleted
CreateBucket(b) ==
    /\ b \notin buckets
    /\ buckets' = buckets \cup {b}
    /\ UNCHANGED <<objects, files, req, pc, found, resp, served, history>>

\* A form without the "file" part is answered 400 before the service is called
RejectUpload(r) ==
    /\ At(r, "FindBucket")
    /\ req[r].op = "put"
    /\ Answer(r, "400")
    /\ UNCHANGED <<store, req, found, served, history>>

AfterBucket(op) ==
    CASE op = "put" -> "CreateBlob"
      [] op = "list" -> "ListByBucket"
      [] OTHER -> "FindObject"

\* FindByName reports a missing bucket as an error (sql.ErrNoRows), which the
\* download handler turns into 404 and every other handler into 500
FindBucket(r) ==
    /\ At(r, "FindBucket")
    /\ \/ /\ req[r].bucket \in buckets
          /\ Goto(r, AfterBucket(req[r].op))
       \/ /\ req[r].bucket \notin buckets \/ MayFail("db")
          /\ Answer(r, IF req[r].op = "get" THEN "404" ELSE "500")
    /\ UNCHANGED <<store, req, found, served, history>>

-----------------------------------------------------------------------------
(* UploadObject.                                                            *)

\* Save, first half: MkdirAll and Create leave an empty file
CreateBlob(r) ==
    /\ At(r, "CreateBlob")
    /\ \/ /\ files' = Written(StoragePath(r), Partial)
          /\ Goto(r, "CopyBody")
       \/ /\ MayFail("fs")
          /\ Answer(r, "500")
          /\ UNCHANGED files
    /\ UNCHANGED <<buckets, objects, req, found, served, history>>

\* Save, second half: io.Copy; when it fails what was written stays behind
CopyBody(r) ==
    /\ At(r, "CopyBody")
    /\ \/ /\ files' = Written(StoragePath(r), r)
          /\ Goto(r, "FindExisting")
       \/ /\ MayFail("fs")
          /\ Answer(r, "500")
          /\ UNCHANGED files
    /\ UNCHANGED <<buckets, objects, req, found, served, history>>

\* existingObject, _ := FindByKey: an error reads like "no such object"
FindExisting(r) ==
    /\ At(r, "FindExisting")
    /\ \/ found' = [found EXCEPT ![r] = FindByKey(r)]
       \/ MayFail("db") /\ found' = [found EXCEPT ![r] = {}]
    /\ Goto(r, "Upsert")
    /\ UNCHANGED <<store, req, served, history>>

CommitUpsert(r) ==
    /\ objects' = Upserted(r)
    /\ committed' = committed \cup {r}
    /\ replaced' = [replaced EXCEPT ![r] = FindByKey(r)]

\* mutant: the row is read back after the commit, which may fail the upload
UpsertThenRead(r) ==
    /\ At(r, "Upsert")
    /\ CommitUpsert(r)
    /\ \/ found[r] = {} /\ Answer(r, "201")
       \/ found[r] # {} /\ Goto(r, "DropOld")
       \/ MayFail("db") /\ Answer(r, "500")
    /\ UNCHANGED <<buckets, files, req, found, served>>

Upsert(r) ==
    /\ At(r, "Upsert")
    /\ \/ /\ CommitUpsert(r)
          /\ \/ found[r] = {} /\ Answer(r, "201")
             \/ found[r] # {} /\ Goto(r, "DropOld")
             \/ MayFail("ack") /\ Goto(r, "Cleanup")
       \/ /\ MayFail("db")
          /\ Goto(r, "Cleanup")
          /\ UNCHANGED <<objects, history>>
    /\ UNCHANGED <<buckets, files, req, found, served>>

\* mutant: no clean-up after a failed Upsert
CleanupSkipped(r) ==
    /\ At(r, "Cleanup")
    /\ Answer(r, "500")
    /\ UNCHANGED <<store, req, found, served, history>>

\* The Upsert reported an error: remove the blob just written
Cleanup(r) ==
    /\ At(r, "Cleanup")
    /\ \/ files' = Removed({RowOf(r)})
       \/ MayFail("fs") /\ UNCHANGED files
    /\ Answer(r, "500")
    /\ UNCHANGED <<buckets, objects, req, found, served, history>>

\* mutant: the blob of the row seen before is never removed
DropOldSkipped(r) ==
    /\ At(r, "DropOld")
    /\ Answer(r, "201")
    /\ UNCHANGED <<store, req, found, served, history>>

\* Remove the blob of the row seen before the Upsert; an error is only logged
DropOld(r) ==
    /\ At(r, "DropOld")
    /\ \/ files' = Removed(found[r])
       \/ MayFail("fs") /\ UNCHANGED files
    /\ Answer(r, "201")
    /\ UNCHANGED <<buckets, objects, req, found, served, history>>

-----------------------------------------------------------------------------
(* GetObject followed by OpenObjectFile, DeleteObject, ListObjects.         *)

FindObject(r) ==
    /\ At(r, "FindObject")
    /\ \/ /\ FindByKey(r) # {}
          /\ found' = [found EXCEPT ![r] = FindByKey(r)]
          /\ Goto(r, IF req[r].op = "get" THEN "Open" ELSE "RemoveBlob")
       \/ /\ FindByKey(r) = {} \/ MayFail("db")
          /\ Answer(r, IF req[r].op = "get" THEN "404" ELSE "500")
          /\ UNCHANGED found
    /\ UNCHANGED <<store, req, served, history>>

\* An open file stays readable after it is unlinked and no path is written
\* twice, so the bytes sent are those of the moment of the open.  The 200 and
\* the Content-Length, which is the row's size, go out before io.Copy, whose
\* error is ignored: a read that fails on the way cuts the body short.
Open(r) ==
    /\ At(r, "Open")
    /\ \E o \in found[r] :
         \/ /\ files[o.path] # NoFile
            /\ \E whole \in BOOLEAN :
                 /\ whole \/ MayFail("fs")
                 /\ served' = [served EXCEPT ![r] =
                                [bytes |-> files[o.path], whole |-> whole]]
            /\ Answer(r, "200")
         \/ /\ files[o.path] = NoFile \/ MayFail("fs")
            /\ Answer(r, "500")
            /\ UNCHANGED served
    /\ UNCHANGED <<store, req, found, history>>

\* mutant: the row is deleted and the blob forgotten
RemoveBlobSkipped(r) ==
    /\ At(r, "RemoveBlob")
    /\ Goto(r, "DeleteRow")
    /\ UNCHANGED <<store, req, found, served, history>>

RemoveBlob(r) ==
    /\ At(r, "RemoveBlob")
    /\ \E o \in found[r] :
         \/ /\ files[o.path] # NoFile
            /\ files' = Removed({o})
            /\ Goto(r, "DeleteRow")
         \/ /\ files[o.path] = NoFile \/ MayFail("fs")
            /\ Answer(r, "500")
            /\ UNCHANGED files
    /\ UNCHANGED <<buckets, objects, req, found, served, history>>

DeleteRow(r) ==
    /\ At(r, "DeleteRow")
    /\ \/ /\ objects' = RowsKept(r)
          /\ Answer(r, "204") \/ (MayFail("ack") /\ Answer(r, "500"))
       \/ /\ MayFail("db")
          /\ Answer(r, "500")
          /\ UNCHANGED objects
    /\ UNCHANGED <<buckets, files, req, found, served, history>>

\* rows.Err is never read: a connection lost half way ends the loop like the
\* end of the result does, and the rows read so far are answered with 200
ListByBucket(r) ==
    LET rows == {o \in objects : o.bucket = req[r].bucket} IN
    /\ At(r, "ListByBucket")
    /\ \/ /\ \/ found' = [found EXCEPT ![r] = rows]
             \/ MayFail("db") /\ \E part \in SUBSET rows :
                                    found' = [found EXCEPT ![r] = part]
          /\ Answer(r, "200")
       \/ MayFail("db") /\ Answer(r, "500") /\ UNCHANGED found
    /\ UNCHANGED <<store, req, served, history>>

-----------------------------------------------------------------------------
\* The requests being handled; the others have yet to reach the server
InFlight == {r \in Requests : resp[r] = "pending" /\ pc[r] # "FindBucket"}

\* The process dies: its goroutines are lost, the table and the files are not
Crash ==
    /\ MayFail("crash")
    /\ InFlight # {}
    /\ resp' = [r \in Requests |-> IF r \in InFlight THEN "dropped" ELSE resp[r]]
    /\ UNCHANGED <<store, req, pc, found, served, history>>

Step(r) ==
    \/ RejectUpload(r) \/ FindBucket(r)
    \/ CreateBlob(r) \/ CopyBody(r) \/ FindExisting(r)
    \/ Upsert(r) \/ Cleanup(r) \/ DropOld(r)
    \/ FindObject(r) \/ Open(r) \/ RemoveBlob(r) \/ DeleteRow(r)
    \/ ListByBucket(r)

Next ==
    \/ \E b \in Buckets : CreateBucket(b)
    \/ \E r \in Requests : Step(r)
    \/ Crash

Spec == Init /\ [][Next]_vars

\* Goroutines are scheduled and every call returns, with or without an error
Fairness == \A r \in Requests : WF_vars(Step(r))
FairSpec == Spec /\ Fairness

-----------------------------------------------------------------------------
(* The versioned store this implements: the versions are the rows' ids, and *)
(* what a file holds no longer shows.                                        *)

ImplIds(rows) == {o.id : o \in rows}

ImplState(r) ==
    CASE resp[r] \in {"200", "201", "204"} -> "done"
      [] resp[r] \in {"400", "404", "500", "dropped"} -> "failed"
      [] resp[r] = "pending" /\ r \in committed -> "committed"
      [] OTHER -> "open"

V == INSTANCE VersionedStore WITH
        NoVersion <- NoFile,
        want <- req,
        current <- ImplIds(objects),
        seen <- [r \in Requests |->
                    IF req[r].op = "put" THEN {} ELSE ImplIds(found[r])],
        state <- [r \in Requests |-> ImplState(r)],
        answer <- [r \in Requests |-> served[r].bytes]

\* Rows and files together behave as the versioned store: every request takes
\* effect in one step or not at all, a download is sent the bytes of the
\* version it was shown (or, when a read fails, the first of them), and a
\* delete takes only that version.
ImplementsVersionedStore == V!Spec

-----------------------------------------------------------------------------
(* Properties.                                                              *)

\* A delete that looked o up has removed the blob and not (yet) the row
DeleteWindow(o) ==
    \E d \in Requests :
        req[d].op = "delete" /\ pc[d] = "DeleteRow" /\ o \in found[d]

\* An upload was told that its Upsert failed although the row was committed
UnackedUpsert(o) == MayFail("ack") /\ pc[o.id] = "Cleanup"

\* Every row of the objects table names a file that holds all the bytes its
\* checksum was computed from.  The only exceptions are a delete between
\* os.Remove and DELETE (or stopped there by an error or a crash), and an
\* upload cleaning up after a commit that was reported to it as an error.
RowsHaveBlobs ==
    \A o \in objects :
        \/ files[o.path] = o.checksum
        \/ DeleteWindow(o)
        \/ UnackedUpsert(o)

\* Every byte that a download answered 200 sent is one of the row it had looked
\* up, whatever was replaced or deleted between its look-up and its open: never
\* another version, never a file still being written.  It sent all of them but
\* for a read that failed under way, when the body is shorter than announced.
ServedBytes ==
    \A r \in Requests :
        resp[r] = "200" /\ req[r].op = "get" =>
            /\ \E o \in found[r] : served[r].bytes = o.checksum
            /\ served[r].whole \/ MayFail("fs")

\* A delete answered 204 is final: the version it looked up is in no row and
\* its blob is gone, now and ever after, however uploads race with it.
DeletedStaysDeleted ==
    \A d \in Requests : resp[d] = "204" =>
        \A o \in found[d] : o \notin objects /\ files[o.path] = NoFile

\* An upload answered 500 is seen by nobody: no row, no look-up and no listing
\* has its version.  Only an upload whose commit was reported to it as an error,
\* and which therefore cleans up, may leave its row behind.
FailedUploadInvisible ==
    \A u \in Requests :
        req[u].op = "put" /\ resp[u] \in {"400", "500"} =>
            \A o \in objects \cup UNION {found[r] : r \in Requests} :
                o.id = u => UnackedUpsert(o)

\* A row disappears from the table only in a delete that looked up this very
\* version, or in an upload of the same bucket and key that takes its place: a
\* delete that was overtaken by an upload never removes the newer version.
NoRowLost ==
    [][\A o \in objects \ objects' :
          \/ \E d \in Requests :
                req[d].op = "delete" /\ At(d, "DeleteRow") /\ o \in found[d]
          \/ \E n \in objects' :
                n \notin objects /\ n.bucket = o.bucket /\ n.key = o.key]_vars

\* When no call fails, the blob of a version that an upload saw and displaced
\* is eventually removed.
ReplacedBlobRemoved ==
    \A p, u \in Requests :
        (\E o \in replaced[u] : o.path = p /\ o \in found[u]) ~> files[p] = NoFile

\* When no call fails, a row whose blob a delete has removed does not stay:
\* the row goes, or an upload puts a whole version in its place.
BrokenRowGoes ==
    \A p \in Requests :
        (\E o \in objects : o.id = p /\ files[o.path] # o.checksum)
            ~> ~(\E o \in objects : o.id = p)

\* Once no request is being handled, every row can be downloaded.
StoredObjectsDownload ==
    InFlight = {} => \A o \in objects : files[o.path] = o.checksum
=============================================================================
