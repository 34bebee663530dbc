-------------------------- MODULE ObjectStore_proofs --------------------------
(***************************************************************************)
(* Proofs about ObjectStore, for any number of requests, buckets and keys   *)
(* and any set of faults.                                                   *)
(***************************************************************************)
EXTENDS ObjectStore, TLAPS

-----------------------------------------------------------------------------
(* The inductive invariant.                                                 *)

PutSteps == {"CreateBlob", "CopyBody", "FindExisting", "Upsert", "Cleanup",
             "DropOld"}

\* Each step belongs to the operations that take it
StepsOfOps ==
    \A r \in Requests :
        /\ pc[r] \in PutSteps => req[r].op = "put"
        /\ pc[r] = "ListByBucket" => req[r].op = "list"
        /\ pc[r] = "FindObject" => req[r].op \in {"get", "delete"}
        /\ pc[r] = "Open" => req[r].op = "get"
        /\ pc[r] \in {"RemoveBlob", "DeleteRow"} => req[r].op = "delete"

\* How far a request has to be for its answer
AnswersOfSteps ==
    \A r \in Requests :
        /\ resp[r] = "204" => pc[r] = "DeleteRow"
        /\ resp[r] = "200" => pc[r] \in {"Open", "ListByBucket"}
        /\ resp[r] = "201" => pc[r] \in {"Upsert", "DropOld"}
        /\ pc[r] = "DropOld" => resp[r] \in {"pending", "dropped", "201"}
        /\ pc[r] = "Upsert" => resp[r] \in {"pending", "dropped", "201"}

\* A row is never edited: it is the row its upload made
OwnRow(o) == o.id \in committed /\ o = RowOf(o.id)
RowsAreOwn == \A o \in objects : OwnRow(o)
FoundAreOwn == \A r \in Requests : \A o \in found[r] : OwnRow(o)

\* What a request but a list looked up has the key it asked for
FoundKeys ==
    \A r \in Requests : req[r].op # "list" =>
        \A o \in found[r] : o.bucket = req[r].bucket /\ o.key = req[r].key

\* The unique index on (bucket_id, object_key): a look-up has at most one row
OneRowPerKey ==
    \A o, n \in objects : o.bucket = n.bucket /\ o.key = n.key => o = n

OneRowFound ==
    \A r \in Requests : req[r].op # "list" => \A o, n \in found[r] : o = n

NothingFoundYet ==
    \A r \in Requests :
        pc[r] \in {"FindBucket", "FindObject"} => found[r] = {}

SomethingFound ==
    \A r \in Requests : pc[r] = "DeleteRow" => found[r] # {}

\* An upload is committed by its Upsert, and no later step can undo it but an
\* unacknowledged one
CommittedUploads ==
    \A u \in committed :
        /\ pc[u] \in {"Upsert", "Cleanup", "DropOld"}
        /\ pc[u] = "Upsert" => resp[u] = "201"
        /\ pc[u] = "Cleanup" => MayFail("ack")

\* A 201 is never sent for an upload that is not in the table or was not
AnsweredUploads ==
    \A u \in Requests : pc[u] = "DropOld" \/ resp[u] = "201" => u \in committed

\* Before its Upsert the blob of an upload is whole and out of reach of others
BlobBeforeUpsert ==
    \A u \in Requests :
        pc[u] \in {"FindExisting", "Upsert"} /\ u \notin committed => files[u] = u

\* After it the blob is whole or gone
BlobAfterUpsert == \A u \in committed : files[u] \in {u, NoFile}

\* The version an upload displaced knowingly is out of the table for good
DroppedRowsGone ==
    \A u \in Requests : pc[u] = "DropOld" => \A o \in found[u] : o \notin objects

\* So is the blob that a delete removed
DeletedBlobsGone ==
    \A d \in Requests :
        pc[d] = "DeleteRow" => \A o \in found[d] : files[o.path] = NoFile

DeletedRowsGone ==
    \A d \in Requests : resp[d] = "204" => \A o \in found[d] : o \notin objects

\* The part of the invariant that says nothing of files
Structure ==
    /\ StepsOfOps /\ AnswersOfSteps
    /\ FoundKeys /\ OneRowPerKey /\ OneRowFound /\ NothingFoundYet
    /\ SomethingFound
    /\ RowsAreOwn /\ FoundAreOwn /\ CommittedUploads /\ AnsweredUploads

IInv ==
    /\ TypeOK
    /\ Structure
    /\ BlobBeforeUpsert /\ BlobAfterUpsert
    /\ DroppedRowsGone /\ DeletedBlobsGone /\ DeletedRowsGone
    /\ RowsHaveBlobs /\ ServedBytes

-----------------------------------------------------------------------------
(* Type correctness.                                                        *)

LEMMA RowType ==
    ASSUME TypeOK, NEW r \in Requests
    PROVE  /\ RowOf(r) \in Row
           /\ FindByKey(r) \subseteq objects
BY DEF TypeOK, RowOf, Row, StoragePath, FindByKey, Request

LEMMA WrittenType ==
    ASSUME TypeOK, NEW r \in Requests, NEW c \in Content
    PROVE  Written(StoragePath(r), c) \in [Requests -> Content]
BY DEF TypeOK, StoragePath, Written

LEMMA RemovedType ==
    ASSUME TypeOK, NEW rows
    PROVE  Removed(rows) \in [Requests -> Content]
BY DEF TypeOK, Removed, Content

LEMMA TypeInit == Init => TypeOK
BY DEF Init, TypeOK, Content, Body, Steps, Statuses

LEMMA TypeStep ==
    ASSUME TypeOK, [Next]_vars
    PROVE  TypeOK'
<1> USE DEF TypeOK, At, Goto, Answer, Steps, Statuses, store, history
<1>1. ASSUME NEW b \in Buckets, CreateBucket(b) PROVE TypeOK'
  BY <1>1 DEF CreateBucket
<1>2. ASSUME NEW r \in Requests, Step(r) PROVE TypeOK'
  <2> USE RowType
  <2>1. CASE RejectUpload(r)
    BY <2>1 DEF RejectUpload
  <2>2. CASE FindBucket(r)
    BY <2>2 DEF FindBucket, AfterBucket
  <2>3. CASE CreateBlob(r)
    <3>1. files' \in [Requests -> Content]
      BY <2>3, WrittenType DEF CreateBlob, Content
    <3> QED BY <2>3, <3>1 DEF CreateBlob
  <2>4. CASE CopyBody(r)
    <3>1. files' \in [Requests -> Content]
      BY <2>4, WrittenType DEF CopyBody, Content
    <3> QED BY <2>4, <3>1 DEF CopyBody
  <2>5. CASE FindExisting(r)
    BY <2>5 DEF FindExisting
  <2>6. CASE Upsert(r)
    <3>1. Upserted(r) \subseteq Row
      BY DEF Upserted
    <3>2. /\ objects' \subseteq Row
          /\ replaced' \in [Requests -> SUBSET Row]
          /\ committed' \subseteq Requests
      BY <2>6, <3>1 DEF Upsert, CommitUpsert
    <3> QED BY <2>6, <3>2 DEF Upsert
  <2>7. CASE Cleanup(r)
    <3>1. files' \in [Requests -> Content]
      BY <2>7, RemovedType DEF Cleanup
    <3> QED BY <2>7, <3>1 DEF Cleanup
  <2>8. CASE DropOld(r)
    <3>1. files' \in [Requests -> Content]
      BY <2>8, RemovedType DEF DropOld
    <3> QED BY <2>8, <3>1 DEF DropOld
  <2>9. CASE FindObject(r)
    BY <2>9 DEF FindObject
  <2>10. CASE Open(r)
    <3>1. served' \in [Requests -> Body]
      <4>1. \A o \in found[r] : files[o.path] \in Content
        BY <2>10 DEF Row
      <4> QED BY <2>10, <4>1 DEF Open, Body
    <3> QED BY <2>10, <3>1 DEF Open
  <2>11. CASE RemoveBlob(r)
    <3>1. files' \in [Requests -> Content]
      BY <2>11, RemovedType DEF RemoveBlob
    <3> QED BY <2>11, <3>1 DEF RemoveBlob
  <2>12. CASE DeleteRow(r)
    BY <2>12 DEF DeleteRow, RowsKept
  <2>13. CASE ListByBucket(r)
    BY <2>13 DEF ListByBucket
  <2> QED BY <1>2, <2>1, <2>2, <2>3, <2>4, <2>5, <2>6, <2>7, <2>8, <2>9,
             <2>10, <2>11, <2>12, <2>13 DEF Step
<1>3. ASSUME Crash PROVE TypeOK'
  BY <1>3 DEF Crash, InFlight
<1>4. CASE UNCHANGED vars
  BY <1>4 DEF vars
<1> QED BY <1>1, <1>2, <1>3, <1>4 DEF Next

\* Every variable keeps its type, whatever the faults.
THEOREM TypeCorrect == Spec => []TypeOK
BY TypeInit, TypeStep, PTL DEF Spec

-----------------------------------------------------------------------------
(* The control structure of a request.                                      *)

LEMMA ControlStep ==
    ASSUME TypeOK, StepsOfOps, AnswersOfSteps, [Next]_vars
    PROVE  StepsOfOps' /\ AnswersOfSteps'
<1> USE DEF TypeOK, StepsOfOps, AnswersOfSteps, PutSteps, At, Goto, Answer,
            Steps, Statuses, store, history, Request, Ops
<1>1. ASSUME NEW b \in Buckets, CreateBucket(b)
      PROVE  StepsOfOps' /\ AnswersOfSteps'
  BY <1>1 DEF CreateBucket
<1>2. ASSUME NEW r \in Requests, Step(r)
      PROVE  StepsOfOps' /\ AnswersOfSteps'
  <2>1. CASE RejectUpload(r)
    BY <2>1 DEF RejectUpload
  <2>2. CASE FindBucket(r)
    BY <2>2 DEF FindBucket, AfterBucket
  <2>3. CASE CreateBlob(r)
    BY <2>3 DEF CreateBlob
  <2>4. CASE CopyBody(r)
    BY <2>4 DEF CopyBody
  <2>5. CASE FindExisting(r)
    BY <2>5 DEF FindExisting
  <2>6. CASE Upsert(r)
    BY <2>6 DEF Upsert
  <2>7. CASE Cleanup(r)
    BY <2>7 DEF Cleanup
  <2>8. CASE DropOld(r)
    BY <2>8 DEF DropOld
  <2>9. CASE FindObject(r)
    BY <2>9 DEF FindObject
  <2>10. CASE Open(r)
    BY <2>10 DEF Open
  <2>11. CASE RemoveBlob(r)
    BY <2>11 DEF RemoveBlob
  <2>12. CASE DeleteRow(r)
    BY <2>12 DEF DeleteRow
  <2>13. CASE ListByBucket(r)
    BY <2>13 DEF ListByBucket
  <2> QED BY <1>2, <2>1, <2>2, <2>3, <2>4, <2>5, <2>6, <2>7, <2>8, <2>9,
             <2>10, <2>11, <2>12, <2>13 DEF Step
<1>3. ASSUME Crash PROVE StepsOfOps' /\ AnswersOfSteps'
  BY <1>3 DEF Crash, InFlight
<1>4. CASE UNCHANGED vars
  BY <1>4 DEF vars
<1> QED BY <1>1, <1>2, <1>3, <1>4 DEF Next

-----------------------------------------------------------------------------
(* The rows in the table and in the hands of requests.                      *)

\* What any step leaves of the requests and of the history
LEMMA Frame ==
    ASSUME TypeOK, [Next]_vars
    PROVE  req' = req /\ committed \subseteq committed'
<1> USE DEF store, history
<1>1. ASSUME NEW r \in Requests, Step(r)
      PROVE  req' = req /\ committed \subseteq committed'
  BY <1>1 DEF Step, RejectUpload, FindBucket, CreateBlob, CopyBody,
       FindExisting, Upsert, CommitUpsert, Cleanup, DropOld, FindObject, Open,
       RemoveBlob, DeleteRow, ListByBucket
<1> QED BY <1>1 DEF Next, vars, CreateBucket, Crash

LEMMA OwnRowStays ==
    ASSUME NEW o, OwnRow(o), req' = req, committed \subseteq committed'
    PROVE  OwnRow(o)'
BY DEF OwnRow, RowOf, StoragePath

\* The only rows a step can add to the table, and who adds them
LEMMA RowsAdded ==
    ASSUME TypeOK, [Next]_vars, NEW o \in objects', o \notin objects
    PROVE  \E r \in Requests : Upsert(r) /\ CommitUpsert(r) /\ o = RowOf(r)
<1> USE DEF store, history
<1>1. ASSUME NEW r \in Requests, Step(r)
      PROVE  Upsert(r) /\ CommitUpsert(r) /\ o = RowOf(r)
  BY <1>1 DEF Step, RejectUpload, FindBucket, CreateBlob, CopyBody,
       FindExisting, Upsert, CommitUpsert, Upserted, Cleanup, DropOld,
       FindObject, Open, RemoveBlob, DeleteRow, RowsKept, ListByBucket
<1> QED BY <1>1 DEF Next, vars, CreateBucket, Crash

LEMMA RowsStep ==
    ASSUME TypeOK, RowsAreOwn, [Next]_vars
    PROVE  RowsAreOwn'
<1> SUFFICES ASSUME NEW o \in objects' PROVE OwnRow(o)'
  BY DEF RowsAreOwn
<1>1. CASE o \in objects
  BY <1>1, Frame, OwnRowStays DEF RowsAreOwn
<1>2. CASE o \notin objects
  <2>1. PICK r \in Requests : CommitUpsert(r) /\ o = RowOf(r)
    BY <1>2, RowsAdded
  <2> QED BY <2>1, Frame DEF CommitUpsert, OwnRow, RowOf, StoragePath
<1> QED BY <1>1, <1>2

\* What a request is handed is in the table at that moment
LEMMA FoundInTable ==
    ASSUME TypeOK, StepsOfOps, [Next]_vars, NEW q \in Requests
    PROVE  \/ found'[q] = found[q]
           \/ /\ found'[q] \subseteq objects
              /\ FindExisting(q) \/ FindObject(q) \/ ListByBucket(q)
              /\ req[q].op # "list" => found'[q] \subseteq FindByKey(q)
<1> USE DEF store, history, TypeOK
<1>1. ASSUME NEW r \in Requests, Step(r) PROVE found'[q] = found[q] \/ q = r
  BY <1>1 DEF Step, RejectUpload, FindBucket, CreateBlob, CopyBody,
       FindExisting, Upsert, Cleanup, DropOld, FindObject, Open, RemoveBlob,
       DeleteRow, ListByBucket
<1>2. ASSUME Step(q), found'[q] # found[q]
      PROVE  /\ found'[q] \subseteq objects
             /\ FindExisting(q) \/ FindObject(q) \/ ListByBucket(q)
             /\ req[q].op # "list" => found'[q] \subseteq FindByKey(q)
  <2>1. CASE FindExisting(q)
    BY <2>1 DEF FindExisting, FindByKey
  <2>2. CASE FindObject(q)
    BY <1>2, <2>2 DEF FindObject, FindByKey
  <2>3. CASE ListByBucket(q)
    BY <1>2, <2>3 DEF ListByBucket, StepsOfOps, At
  <2> QED BY <1>2, <2>1, <2>2, <2>3 DEF Step, RejectUpload, FindBucket,
       CreateBlob, CopyBody, Upsert, Cleanup, DropOld, Open, RemoveBlob, DeleteRow
<1> QED BY <1>1, <1>2 DEF Next, vars, CreateBucket, Crash

LEMMA FoundStep ==
    ASSUME TypeOK, StepsOfOps, RowsAreOwn, FoundAreOwn, FoundKeys, [Next]_vars
    PROVE  FoundAreOwn' /\ FoundKeys'
<1>1. FoundAreOwn'
  <2> SUFFICES ASSUME NEW q \in Requests, NEW o \in found'[q] PROVE OwnRow(o)'
    BY DEF FoundAreOwn
  <2>1. OwnRow(o)
    BY FoundInTable DEF FoundAreOwn, RowsAreOwn
  <2> QED BY <2>1, Frame, OwnRowStays
<1>2. FoundKeys'
  BY Frame, FoundInTable DEF FoundKeys, FindByKey
<1> QED BY <1>1, <1>2

LEMMA NothingFoundYetStep ==
    ASSUME TypeOK, NothingFoundYet, [Next]_vars
    PROVE  NothingFoundYet'
<1> USE DEF TypeOK, NothingFoundYet, At, Goto, Answer, store, history
<1>1. ASSUME NEW r \in Requests, Step(r) PROVE NothingFoundYet'
  BY <1>1 DEF Step, RejectUpload, FindBucket, AfterBucket, CreateBlob, CopyBody,
       FindExisting, Upsert, Cleanup, DropOld, FindObject, Open, RemoveBlob,
       DeleteRow, ListByBucket
<1> QED BY <1>1 DEF Next, vars, CreateBucket, Crash

LEMMA SomethingFoundStep ==
    ASSUME TypeOK, SomethingFound, [Next]_vars
    PROVE  SomethingFound'
<1> USE DEF TypeOK, SomethingFound, At, Goto, Answer, store, history
<1>1. ASSUME NEW r \in Requests, Step(r) PROVE SomethingFound'
  BY <1>1 DEF Step, RejectUpload, FindBucket, AfterBucket, CreateBlob, CopyBody,
       FindExisting, Upsert, Cleanup, DropOld, FindObject, Open, RemoveBlob,
       DeleteRow, ListByBucket
<1> QED BY <1>1 DEF Next, vars, CreateBucket, Crash

LEMMA CommittedStep ==
    ASSUME TypeOK, AnswersOfSteps, CommittedUploads, [Next]_vars
    PROVE  CommittedUploads'
<1> USE DEF TypeOK, CommittedUploads, At, Goto, Answer, store, history, MayFail
<1>1. ASSUME NEW r \in Requests, Step(r) PROVE CommittedUploads'
  <2>1. CASE Upsert(r)
    BY <2>1 DEF Upsert, CommitUpsert, AnswersOfSteps
  <2> QED BY <1>1, <2>1 DEF Step, RejectUpload, FindBucket, CreateBlob, CopyBody,
       FindExisting, Cleanup, DropOld, FindObject, Open, RemoveBlob, DeleteRow,
       ListByBucket
<1>2. ASSUME Crash PROVE CommittedUploads'
  BY <1>2 DEF Crash, InFlight
<1> QED BY <1>1, <1>2 DEF Next, vars, CreateBucket

LEMMA AnsweredStep ==
    ASSUME TypeOK, AnsweredUploads, [Next]_vars
    PROVE  AnsweredUploads'
<1> USE DEF TypeOK, AnsweredUploads, At, Goto, Answer, store, history
<1>1. ASSUME NEW r \in Requests, Step(r) PROVE AnsweredUploads'
  <2>1. CASE Upsert(r)
    BY <2>1 DEF Upsert, CommitUpsert
  <2> QED BY <1>1, <2>1 DEF Step, RejectUpload, FindBucket, AfterBucket, CreateBlob,
       CopyBody, FindExisting, Cleanup, DropOld, FindObject, Open, RemoveBlob,
       DeleteRow, ListByBucket
<1>2. ASSUME Crash PROVE AnsweredUploads'
  BY <1>2 DEF Crash, InFlight
<1> QED BY <1>1, <1>2 DEF Next, vars, CreateBucket

\* ON CONFLICT keeps the table within its unique index
LEMMA OneRowStep ==
    ASSUME TypeOK, OneRowPerKey, [Next]_vars
    PROVE  OneRowPerKey'
<1> SUFFICES ASSUME NEW o \in objects', NEW n \in objects',
                    o.bucket = n.bucket, o.key = n.key
             PROVE  o = n
  BY DEF OneRowPerKey
<1>1. CASE o \in objects /\ n \in objects
  BY <1>1 DEF OneRowPerKey
<1>2. CASE o \notin objects \/ n \notin objects
  <2>1. PICK r \in Requests :
            CommitUpsert(r) /\ (o = RowOf(r) \/ n = RowOf(r))
    BY <1>2, RowsAdded
  <2> QED BY <2>1 DEF CommitUpsert, Upserted, FindByKey, RowOf
<1> QED BY <1>1, <1>2

LEMMA OneRowFoundStep ==
    ASSUME TypeOK, StepsOfOps, OneRowPerKey, OneRowFound, [Next]_vars
    PROVE  OneRowFound'
BY Frame, FoundInTable DEF OneRowFound, OneRowPerKey, FindByKey

LEMMA StructureStep ==
    ASSUME TypeOK, Structure, [Next]_vars
    PROVE  Structure'
BY ControlStep, RowsStep, FoundStep, NothingFoundYetStep, SomethingFoundStep, CommittedStep,
   AnsweredStep, OneRowStep, OneRowFoundStep DEF Structure

-----------------------------------------------------------------------------
(* The blobs.                                                               *)

\* The steps after which a request only waits for its answer
LastSteps == {"Cleanup", "DropOld", "Open", "ListByBucket", "DeleteRow"}

LEMMA LastStepsStay ==
    ASSUME TypeOK, [Next]_vars, NEW q \in Requests
    PROVE  /\ pc[q] \in LastSteps => pc'[q] = pc[q]
           /\ pc[q] \in LastSteps \ {"ListByBucket"} => found'[q] = found[q]
           /\ resp[q] # "pending" => /\ pc'[q] = pc[q]
                                     /\ found'[q] = found[q]
                                     /\ resp'[q] = resp[q]
                                     /\ served'[q] = served[q]
<1> USE DEF TypeOK, LastSteps, At, Goto, Answer, store, history
<1>1. ASSUME NEW r \in Requests, Step(r)
      PROVE  /\ pc[q] \in LastSteps => pc'[q] = pc[q]
             /\ pc[q] \in LastSteps \ {"ListByBucket"} => found'[q] = found[q]
             /\ resp[q] # "pending" => /\ pc'[q] = pc[q]
                                       /\ found'[q] = found[q]
                                       /\ resp'[q] = resp[q]
                                       /\ served'[q] = served[q]
  BY <1>1 DEF Step, RejectUpload, FindBucket, CreateBlob, CopyBody,
       FindExisting, Upsert, Cleanup, DropOld, FindObject, Open, RemoveBlob,
       DeleteRow, ListByBucket
<1>2. ASSUME Crash
      PROVE  /\ UNCHANGED <<pc, found, served>>
             /\ resp[q] # "pending" => resp'[q] = resp[q]
  BY <1>2 DEF Crash, InFlight
<1> QED BY <1>1, <1>2 DEF Next, vars, CreateBucket

\* A request that removes rows' blobs, and how far it has come
Removes(r) ==
    \/ DropOld(r)
    \/ RemoveBlob(r) /\ pc'[r] = "DeleteRow"

\* All that can happen to the file at path p in a step
LEMMA FileChanges ==
    ASSUME TypeOK, Structure, [Next]_vars, NEW p \in Requests
    PROVE  \/ files'[p] = files[p]
           \/ At(p, "CreateBlob")
           \/ At(p, "CopyBody") /\ files'[p] = p
           \/ Cleanup(p) /\ files'[p] = NoFile
           \/ \E r \in Requests : \E o \in found[r] :
                 /\ Removes(r)
                 /\ p = o.path /\ OwnRow(o)
                 /\ files'[p] = NoFile
<1> USE DEF TypeOK, store, history, StoragePath
<1>1. ASSUME NEW r \in Requests, Step(r), files'[p] # files[p]
      PROVE  \/ At(p, "CreateBlob")
             \/ At(p, "CopyBody") /\ files'[p] = p
             \/ Cleanup(p) /\ files'[p] = NoFile
             \/ \E o \in found[r] :
                   /\ Removes(r)
                   /\ p = o.path /\ OwnRow(o)
                   /\ files'[p] = NoFile
  <2>1. CASE CreateBlob(r)
    BY <1>1, <2>1 DEF CreateBlob, Written
  <2>2. CASE CopyBody(r)
    BY <1>1, <2>2 DEF CopyBody, Written
  <2>3. CASE Cleanup(r)
    BY <1>1, <2>3 DEF Cleanup, Removed, RowOf
  <2>4. CASE DropOld(r)
    <3>1. files' = Removed(found[r])
      BY <1>1, <2>4 DEF DropOld
    <3> QED BY <1>1, <2>4, <3>1 DEF Removed, Removes, Structure, FoundAreOwn
  <2>5. CASE RemoveBlob(r)
    <3>1. PICK o \in found[r] : files' = Removed({o}) /\ Goto(r, "DeleteRow")
      BY <1>1, <2>5 DEF RemoveBlob
    <3> QED BY <1>1, <2>5, <3>1 DEF Removed, Removes, Structure, FoundAreOwn, Goto
  <2> QED BY <1>1, <2>1, <2>2, <2>3, <2>4, <2>5 DEF Step, RejectUpload, FindBucket,
             FindExisting, Upsert, FindObject, Open, DeleteRow, ListByBucket
<1> QED BY <1>1 DEF Next, vars, CreateBucket, Crash

LEMMA BlobBeforeUpsertStep ==
    ASSUME TypeOK, Structure, BlobBeforeUpsert, [Next]_vars
    PROVE  BlobBeforeUpsert'
<1> SUFFICES ASSUME NEW u \in Requests,
                    pc'[u] \in {"FindExisting", "Upsert"}, u \notin committed'
             PROVE  files'[u] = u
  BY DEF BlobBeforeUpsert
<1> USE DEF TypeOK, At, Goto, Answer, store, history, StoragePath
<1>1. u \notin committed
  BY Frame
<1>2. CASE pc[u] \in {"FindExisting", "Upsert"}
  <2>1. files[u] = u
    BY <1>1, <1>2 DEF BlobBeforeUpsert
  <2>2. ~Cleanup(u) /\ ~At(u, "CreateBlob")
    BY <1>2 DEF Cleanup
  <2>3. \A o : OwnRow(o) => u # o.path
    BY <1>1 DEF OwnRow, RowOf
  <2> QED BY <2>1, <2>2, <2>3, FileChanges
<1>3. CASE pc[u] \notin {"FindExisting", "Upsert"}
  <2>1. CopyBody(u) /\ pc'[u] = "FindExisting"
    <3>1. ASSUME NEW r \in Requests, Step(r) PROVE CopyBody(u)
      BY <1>3, <3>1 DEF Step, RejectUpload, FindBucket, AfterBucket, CreateBlob,
           CopyBody, FindExisting, Upsert, Cleanup, DropOld, FindObject, Open,
           RemoveBlob, DeleteRow, ListByBucket
    <3>2. CopyBody(u)
      BY <1>3, <3>1 DEF Next, vars, CreateBucket, Crash
    <3> QED BY <3>2 DEF CopyBody
  <2>2. files' = Written(u, u)
    BY <2>1 DEF CopyBody
  <2> QED BY <2>2 DEF Written
<1> QED BY <1>2, <1>3

LEMMA BlobAfterUpsertStep ==
    ASSUME TypeOK, Structure, BlobBeforeUpsert, BlobAfterUpsert, [Next]_vars
    PROVE  BlobAfterUpsert'
<1> SUFFICES ASSUME NEW u \in committed' PROVE files'[u] \in {u, NoFile}
  BY DEF BlobAfterUpsert
<1>1. CASE u \in committed
  <2>1. u \in Requests /\ ~At(u, "CreateBlob") /\ ~At(u, "CopyBody")
    BY <1>1 DEF TypeOK, Structure, CommittedUploads, At
  <2>2. files[u] \in {u, NoFile}
    BY <1>1 DEF BlobAfterUpsert
  <2> QED BY <2>1, <2>2, FileChanges
<1>2. CASE u \notin committed
  <2>1. u \in Requests /\ Upsert(u) /\ CommitUpsert(u)
    <3>1. ASSUME NEW r \in Requests, Step(r)
          PROVE  u \in Requests /\ Upsert(u) /\ CommitUpsert(u)
      BY <1>2, <3>1 DEF Step, RejectUpload, FindBucket, CreateBlob, CopyBody,
           FindExisting, Upsert, CommitUpsert, Cleanup, DropOld, FindObject,
           Open, RemoveBlob, DeleteRow, ListByBucket, store, history
    <3> QED BY <1>2, <3>1 DEF Next, vars, CreateBucket, Crash, history
  <2> QED BY <1>2, <2>1 DEF Upsert, At, BlobBeforeUpsert
<1> QED BY <1>1, <1>2

\* A row once out of the table does not come back
LEMMA NoReturn ==
    ASSUME TypeOK, Structure, [Next]_vars, NEW o, OwnRow(o), o \notin objects
    PROVE  o \notin objects'
<1> SUFFICES ASSUME o \in objects' PROVE FALSE
  OBVIOUS
<1>1. PICK r \in Requests : Upsert(r) /\ o = RowOf(r)
  BY RowsAdded
<1>2. r \in committed
  BY <1>1 DEF OwnRow, RowOf
<1> QED BY <1>1, <1>2 DEF Structure, CommittedUploads, Upsert, At

\* Neither does a blob: the path of a committed row is not written again
LEMMA NoRewrite ==
    ASSUME TypeOK, Structure, [Next]_vars, NEW o, OwnRow(o)
    PROVE  files'[o.path] \in {files[o.path], NoFile}
<1>1. o.path \in committed /\ o.path \in Requests
  BY DEF OwnRow, RowOf, StoragePath, TypeOK
<1>2. ~At(o.path, "CreateBlob") /\ ~At(o.path, "CopyBody")
  BY <1>1 DEF Structure, CommittedUploads, At
<1> QED BY <1>1, <1>2, FileChanges

LEMMA DroppedRowsGoneStep ==
    ASSUME TypeOK, Structure, DroppedRowsGone, [Next]_vars
    PROVE  DroppedRowsGone'
<1> SUFFICES ASSUME NEW u \in Requests, pc'[u] = "DropOld", NEW o \in found'[u]
             PROVE  o \notin objects'
  BY DEF DroppedRowsGone
<1>1. CASE pc[u] = "DropOld"
  <2>1. o \in found[u]
    BY <1>1, LastStepsStay DEF LastSteps
  <2> QED BY <1>1, <2>1, NoReturn DEF DroppedRowsGone, Structure, FoundAreOwn
<1>2. CASE pc[u] # "DropOld"
  <2>1. Upsert(u) /\ pc'[u] = "DropOld"
    <3> USE DEF TypeOK, At, Goto, Answer, store, history
    <3>1. ASSUME NEW r \in Requests, Step(r) PROVE Upsert(u)
      BY <1>2, <3>1 DEF Step, RejectUpload, FindBucket, AfterBucket, CreateBlob,
           CopyBody, FindExisting, Upsert, Cleanup, DropOld, FindObject, Open,
           RemoveBlob, DeleteRow, ListByBucket
    <3> QED BY <1>2, <3>1 DEF Next, vars, CreateBucket, Crash
  <2>2. objects' = Upserted(u) /\ o \in found[u] /\ u \notin committed
    BY <2>1 DEF Upsert, CommitUpsert, At, Goto, TypeOK, Structure, CommittedUploads
  <2>3. req[u].op = "put"
    BY <2>1 DEF Upsert, At, Structure, StepsOfOps, PutSteps
  <2>4. o.bucket = req[u].bucket /\ o.key = req[u].key /\ OwnRow(o)
    BY <2>2, <2>3 DEF Structure, FoundKeys, FoundAreOwn
  <2> QED BY <2>2, <2>4 DEF Upserted, FindByKey, OwnRow, RowOf
<1> QED BY <1>1, <1>2

LEMMA DeletedBlobsGoneStep ==
    ASSUME TypeOK, Structure, DeletedBlobsGone, [Next]_vars
    PROVE  DeletedBlobsGone'
<1> SUFFICES ASSUME NEW d \in Requests, pc'[d] = "DeleteRow", NEW o \in found'[d]
             PROVE  files'[o.path] = NoFile
  BY DEF DeletedBlobsGone
<1>1. CASE pc[d] = "DeleteRow"
  <2>1. o \in found[d]
    BY <1>1, LastStepsStay DEF LastSteps
  <2>2. files[o.path] = NoFile /\ OwnRow(o)
    BY <1>1, <2>1 DEF DeletedBlobsGone, Structure, FoundAreOwn
  <2> QED BY <2>2, NoRewrite
<1>2. CASE pc[d] # "DeleteRow"
  <2>1. RemoveBlob(d) /\ pc'[d] = "DeleteRow"
    <3> USE DEF TypeOK, At, Goto, Answer, store, history
    <3>1. ASSUME NEW r \in Requests, Step(r) PROVE RemoveBlob(d)
      BY <1>2, <3>1 DEF Step, RejectUpload, FindBucket, AfterBucket, CreateBlob,
           CopyBody, FindExisting, Upsert, Cleanup, DropOld, FindObject, Open,
           RemoveBlob, DeleteRow, ListByBucket
    <3> QED BY <1>2, <3>1 DEF Next, vars, CreateBucket, Crash
  <2>2. o \in found[d] /\ pc[d] = "RemoveBlob"
    BY <2>1 DEF RemoveBlob, At
  <2>3. PICK n \in found[d] : files' = Removed({n})
    BY <2>1, <2>2 DEF RemoveBlob, Answer
  <2>4. n = o
    BY <2>2, <2>3 DEF Structure, StepsOfOps, OneRowFound
  <2>5. o.path \in Requests
    BY <2>2 DEF TypeOK, Row
  <2> QED BY <2>3, <2>4, <2>5 DEF Removed
<1> QED BY <1>1, <1>2

LEMMA DeletedRowsGoneStep ==
    ASSUME TypeOK, Structure, DeletedRowsGone, [Next]_vars
    PROVE  DeletedRowsGone'
<1> SUFFICES ASSUME NEW d \in Requests, resp'[d] = "204", NEW o \in found'[d]
             PROVE  o \notin objects'
  BY DEF DeletedRowsGone
<1>1. CASE resp[d] = "204"
  <2>1. o \in found[d]
    BY <1>1, LastStepsStay
  <2> QED BY <1>1, <2>1, NoReturn DEF DeletedRowsGone, Structure, FoundAreOwn
<1>2. CASE resp[d] # "204"
  <2>1. DeleteRow(d) /\ objects' = RowsKept(d)
    <3> USE DEF TypeOK, At, Goto, Answer, store, history
    <3>1. ASSUME NEW r \in Requests, Step(r)
          PROVE  DeleteRow(d) /\ objects' = RowsKept(d)
      BY <1>2, <3>1 DEF Step, RejectUpload, FindBucket, AfterBucket, CreateBlob,
           CopyBody, FindExisting, Upsert, Cleanup, DropOld, FindObject, Open,
           RemoveBlob, DeleteRow, ListByBucket
    <3> QED BY <1>2, <3>1 DEF Next, vars, CreateBucket, Crash
  <2> QED BY <2>1 DEF DeleteRow, RowsKept
<1> QED BY <1>1, <1>2

\* The excuses of RowsHaveBlobs last: both are final steps of a request
LEMMA ExcusesStay ==
    ASSUME TypeOK, Structure, [Next]_vars, NEW o, OwnRow(o),
           DeleteWindow(o) \/ UnackedUpsert(o)
    PROVE  DeleteWindow(o)' \/ UnackedUpsert(o)'
<1>1. CASE DeleteWindow(o)
  <2>1. PICK d \in Requests :
            req[d].op = "delete" /\ pc[d] = "DeleteRow" /\ o \in found[d]
    BY <1>1 DEF DeleteWindow
  <2>2. pc'[d] = "DeleteRow" /\ o \in found'[d] /\ req' = req
    BY <2>1, LastStepsStay, Frame DEF LastSteps
  <2> QED BY <2>1, <2>2 DEF DeleteWindow
<1>2. CASE UnackedUpsert(o)
  <2>1. o.id \in Requests
    BY DEF OwnRow, TypeOK
  <2> QED BY <1>2, <2>1, LastStepsStay DEF UnackedUpsert, LastSteps, MayFail
<1> QED BY <1>1, <1>2

LEMMA RowsHaveBlobsStep ==
    ASSUME TypeOK, Structure, BlobBeforeUpsert, BlobAfterUpsert, DroppedRowsGone,
           RowsHaveBlobs, [Next]_vars
    PROVE  RowsHaveBlobs'
<1> SUFFICES ASSUME NEW o \in objects'
             PROVE  \/ files'[o.path] = o.checksum
                    \/ DeleteWindow(o)'
                    \/ UnackedUpsert(o)'
  BY DEF RowsHaveBlobs
<1>1. CASE o \notin objects
  <2>1. PICK r \in Requests : Upsert(r) /\ CommitUpsert(r) /\ o = RowOf(r)
    BY <1>1, RowsAdded
  <2>2. files[r] = r
    BY <2>1 DEF Upsert, At, Structure, CommittedUploads, BlobBeforeUpsert
  <2> QED BY <2>1, <2>2 DEF Upsert, RowOf, StoragePath
<1>2. CASE o \in objects
  <2>1. /\ OwnRow(o) /\ o.id \in committed /\ o.id \in Requests
        /\ o.path = o.id /\ o.checksum = o.id
    BY <1>2 DEF Structure, RowsAreOwn, OwnRow, RowOf, StoragePath, TypeOK
  <2>2. CASE DeleteWindow(o) \/ UnackedUpsert(o)
    BY <2>1, <2>2, ExcusesStay
  <2>3. CASE files[o.path] = o.checksum /\ files'[o.path] # files[o.path]
    <3>1. ~At(o.id, "CreateBlob") /\ ~At(o.id, "CopyBody")
      BY <2>1 DEF Structure, CommittedUploads, At
    <3>2. CASE Cleanup(o.id)
      <4>1. MayFail("ack") /\ pc[o.id] = "Cleanup"
        BY <2>1, <3>2 DEF Cleanup, At, Structure, CommittedUploads
      <4> QED BY <2>1, <4>1, ExcusesStay DEF UnackedUpsert
    <3>3. ASSUME NEW r \in Requests, NEW n \in found[r], Removes(r),
                 o.path = n.path, OwnRow(n)
          PROVE  DeleteWindow(o)'
      <4>1. n = o
        BY <2>1, <3>3 DEF OwnRow, RowOf, StoragePath
      <4>2. ~DropOld(r)
        BY <1>2, <4>1 DEF DropOld, At, DroppedRowsGone
      <4>3. RemoveBlob(r) /\ pc'[r] = "DeleteRow"
        BY <3>3, <4>2 DEF Removes
      <4>4. o \in found'[r] /\ req'[r].op = "delete"
        BY <4>1, <4>3, Frame DEF RemoveBlob, At, Structure, StepsOfOps
      <4> QED BY <4>3, <4>4 DEF DeleteWindow
    <3> QED BY <2>1, <2>3, <3>1, <3>2, <3>3, FileChanges
  <2> QED BY <1>2, <2>2, <2>3 DEF RowsHaveBlobs
<1> QED BY <1>1, <1>2

LEMMA ServedBytesStep ==
    ASSUME TypeOK, Structure, BlobAfterUpsert, ServedBytes, [Next]_vars
    PROVE  ServedBytes'
<1> SUFFICES ASSUME NEW r \in Requests, resp'[r] = "200", req'[r].op = "get"
             PROVE  /\ \E o \in found'[r] : served'[r].bytes = o.checksum
                    /\ served'[r].whole \/ MayFail("fs")
  BY DEF ServedBytes
<1>0. req' = req
  BY Frame
<1>1. CASE resp[r] = "200"
  BY <1>0, <1>1, LastStepsStay DEF ServedBytes
<1>2. CASE resp[r] # "200"
  <2>1. Open(r) /\ resp'[r] = "200"
    <3> USE DEF TypeOK, At, Goto, Answer, store, history, Structure, StepsOfOps
    <3>1. ASSUME NEW q \in Requests, Step(q) PROVE Open(r)
      BY <1>0, <1>2, <3>1 DEF Step, RejectUpload, FindBucket, AfterBucket,
           CreateBlob, CopyBody, FindExisting, Upsert, Cleanup, DropOld,
           FindObject, Open, RemoveBlob, DeleteRow, ListByBucket
    <3> QED BY <1>2, <3>1 DEF Next, vars, CreateBucket, Crash
  <2>2. PICK o \in found[r], whole \in BOOLEAN :
            /\ files[o.path] # NoFile
            /\ whole \/ MayFail("fs")
            /\ served' = [served EXCEPT ![r] = [bytes |-> files[o.path], whole |-> whole]]
    BY <2>1 DEF Open, Answer, At, TypeOK
  <2>3. files[o.path] = o.checksum
    BY <2>2 DEF Structure, FoundAreOwn, OwnRow, RowOf, StoragePath, BlobAfterUpsert
  <2>4. found' = found
    BY <2>1 DEF Open
  <2> QED BY <2>2, <2>3, <2>4 DEF TypeOK
<1> QED BY <1>1, <1>2

-----------------------------------------------------------------------------
(* The invariant, and what follows from it.                                 *)

LEMMA InvInit == Init => IInv
<1> SUFFICES ASSUME Init PROVE IInv
  OBVIOUS
<1>1. TypeOK
  BY TypeInit
<1>2. Structure
  BY DEF Init, Structure, StepsOfOps, PutSteps, AnswersOfSteps, FoundKeys,
         OneRowPerKey, OneRowFound, NothingFoundYet, SomethingFound, RowsAreOwn, FoundAreOwn,
         CommittedUploads, AnsweredUploads
<1>3. /\ BlobBeforeUpsert /\ BlobAfterUpsert /\ DroppedRowsGone
      /\ DeletedBlobsGone /\ DeletedRowsGone /\ RowsHaveBlobs /\ ServedBytes
  BY DEF Init, BlobBeforeUpsert, BlobAfterUpsert, DroppedRowsGone,
         DeletedBlobsGone, DeletedRowsGone, RowsHaveBlobs, ServedBytes
<1> QED BY <1>1, <1>2, <1>3 DEF IInv

LEMMA InvStep == IInv /\ [Next]_vars => IInv'
BY TypeStep, StructureStep, BlobBeforeUpsertStep, BlobAfterUpsertStep,
   DroppedRowsGoneStep, DeletedBlobsGoneStep, DeletedRowsGoneStep,
   RowsHaveBlobsStep, ServedBytesStep DEF IInv

LEMMA Invariance == Spec => []IInv
BY InvInit, InvStep, PTL DEF Spec

\* Every row names a whole blob, but for a delete cut off in its window and an
\* unacknowledged commit: for any number of requests and whatever fails.
THEOREM RowsHaveBlobsAlways == Spec => []RowsHaveBlobs
<1>1. IInv => RowsHaveBlobs
  BY DEF IInv
<1> QED BY <1>1, Invariance, PTL

\* A 200 download sends bytes of the row it looked up and no others, whatever
\* fails and in any order of the steps; all of them unless a file call may fail.
THEOREM ServedBytesAlways == Spec => []ServedBytes
<1>1. IInv => ServedBytes
  BY DEF IInv
<1> QED BY <1>1, Invariance, PTL

\* What a 204 delete looked up is gone for good, row and blob.
THEOREM DeletedStaysDeletedAlways == Spec => []DeletedStaysDeleted
<1>1. IInv => DeletedStaysDeleted
  BY DEF IInv, DeletedStaysDeleted, DeletedRowsGone, DeletedBlobsGone, Structure,
         AnswersOfSteps
<1> QED BY <1>1, Invariance, PTL

\* A failed upload leaves no trace that a client can see, except where its own
\* commit was reported to it as an error.
THEOREM FailedUploadInvisibleAlways == Spec => []FailedUploadInvisible
<1>1. IInv => FailedUploadInvisible
  BY DEF IInv, FailedUploadInvisible, UnackedUpsert, Structure, AnswersOfSteps, RowsAreOwn,
         FoundAreOwn, OwnRow, CommittedUploads
<1> QED BY <1>1, Invariance, PTL

\* No step takes a row away but the delete that looked it up, or an upload of
\* the same key.
THEOREM NoRowLostEver == Spec => NoRowLost
<1> DEFINE Kept ==
      \A o \in objects \ objects' :
          \/ \E d \in Requests :
                req[d].op = "delete" /\ At(d, "DeleteRow") /\ o \in found[d]
          \/ \E n \in objects' :
                n \notin objects /\ n.bucket = o.bucket /\ n.key = o.key
<1>1. ASSUME IInv, [Next]_vars PROVE Kept
  <2> SUFFICES ASSUME NEW o \in objects \ objects'
               PROVE  \/ \E d \in Requests :
                            req[d].op = "delete" /\ At(d, "DeleteRow") /\ o \in found[d]
                      \/ \E n \in objects' :
                            n \notin objects /\ n.bucket = o.bucket /\ n.key = o.key
    BY DEF Kept
  <2>1. PICK r \in Requests :
            \/ Upsert(r) /\ CommitUpsert(r)
            \/ DeleteRow(r) /\ objects' = RowsKept(r)
    BY <1>1 DEF Next, vars, CreateBucket, Crash, Step, RejectUpload, FindBucket,
         CreateBlob, CopyBody, FindExisting, Upsert, Cleanup, DropOld,
         FindObject, Open, RemoveBlob, DeleteRow, ListByBucket, store, history
  <2>2. CASE Upsert(r) /\ CommitUpsert(r)
    <3>1. r \notin committed
      BY <1>1, <2>2 DEF Upsert, At, IInv, Structure, CommittedUploads
    <3>2. RowOf(r) \in objects' /\ RowOf(r) \notin objects
      BY <1>1, <2>2, <3>1 DEF CommitUpsert, Upserted, IInv, Structure, RowsAreOwn,
           OwnRow, RowOf
    <3>3. o \in FindByKey(r)
      BY <2>2 DEF CommitUpsert, Upserted
    <3> QED BY <3>2, <3>3 DEF FindByKey, RowOf
  <2>3. CASE DeleteRow(r) /\ objects' = RowsKept(r)
    <3>1. PICK n \in found[r] : n.id = o.id
      BY <2>3 DEF RowsKept
    <3>2. n = o
      BY <1>1, <3>1 DEF IInv, Structure, RowsAreOwn, FoundAreOwn, OwnRow
    <3>3. At(r, "DeleteRow") /\ req[r].op = "delete"
      BY <1>1, <2>3 DEF DeleteRow, At, IInv, Structure, StepsOfOps
    <3> QED BY <3>1, <3>2, <3>3
  <2> QED BY <2>1, <2>2, <2>3
<1> QED BY <1>1, Invariance, PTL DEF Spec, NoRowLost

-----------------------------------------------------------------------------
(* Without crashes and with a database that does not fail, no delete stops   *)
(* between the removal of the blob and that of the row.                      *)

DeletesFinish ==
    \A d \in Requests : pc[d] = "DeleteRow" => resp[d] \in {"pending", "204"}

LEMMA DeletesFinishStep ==
    ASSUME ~MayFail("db"), ~MayFail("ack"), ~MayFail("crash"),
           TypeOK, DeletesFinish, [Next]_vars
    PROVE  DeletesFinish'
<1> USE DEF TypeOK, DeletesFinish, At, Goto, Answer, store, history
<1>1. ASSUME NEW r \in Requests, Step(r) PROVE DeletesFinish'
  BY <1>1 DEF Step, RejectUpload, FindBucket, AfterBucket, CreateBlob, CopyBody,
       FindExisting, Upsert, Cleanup, DropOld, FindObject, Open, RemoveBlob,
       DeleteRow, ListByBucket
<1> QED BY <1>1 DEF Next, vars, CreateBucket, Crash

\* When the service is idle every row can be downloaded, if no call to the
\* database failed and the process did not crash: failed file calls do no harm.
THEOREM StoredObjectsDownloadAlways ==
    ASSUME ~MayFail("db"), ~MayFail("ack"), ~MayFail("crash")
    PROVE  Spec => []StoredObjectsDownload
<1>1. Init => DeletesFinish
  BY DEF Init, DeletesFinish
<1>2. IInv /\ DeletesFinish /\ [Next]_vars => DeletesFinish'
  BY DeletesFinishStep DEF IInv
<1>3. IInv /\ DeletesFinish => StoredObjectsDownload
  <2> SUFFICES ASSUME IInv, DeletesFinish, InFlight = {}, NEW o \in objects
               PROVE  files[o.path] = o.checksum
    BY DEF StoredObjectsDownload
  <2>1. ~UnackedUpsert(o)
    BY DEF UnackedUpsert
  <2>2. ASSUME NEW d \in Requests, pc[d] = "DeleteRow", o \in found[d]
        PROVE  FALSE
    <3>1. resp[d] = "204"
      BY <2>2 DEF DeletesFinish, InFlight
    <3> QED BY <2>2, <3>1 DEF IInv, DeletedRowsGone
  <2> QED BY <2>1, <2>2 DEF IInv, RowsHaveBlobs, DeleteWindow
<1> QED BY <1>1, <1>2, <1>3, Invariance, PTL DEF Spec
=============================================================================
