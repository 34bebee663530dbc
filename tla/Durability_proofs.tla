--------------------------- MODULE Durability_proofs ---------------------------
(***************************************************************************)
(* Proofs about Durability: what a power failure can do to rows and blobs,  *)
(* for any number of requests, buckets and keys and any set of faults.      *)
(* The lemmas of ObjectStore_proofs speak of a step of ObjectStore, which   *)
(* every step here is but PowerLoss.                                        *)
(***************************************************************************)
EXTENDS Durability, ObjectStore_proofs

-----------------------------------------------------------------------------
(* The inductive invariant: that of ObjectStore, with the paths that a power *)
(* failure changed set apart.                                                *)

\* The blob of an upload is whole while its request lives and has not committed
BlobWhileUploading ==
    \A u \in Requests :
        /\ pc[u] \in {"FindExisting", "Upsert"}
        /\ resp[u] = "pending"
        => files[u] = u

\* A committed blob is whole or gone, unless a power failure had it
CommittedBlob == \A u \in committed : files[u] \in {u, NoFile} \/ u \in lost

\* So is the blob that a delete removed gone, unless a power failure undid that
DeletedBlob ==
    \A d \in Requests : pc[d] = "DeleteRow" =>
        \A o \in found[d] : files[o.path] = NoFile \/ o.path \in lost

DInv ==
    /\ DurabilityTypeOK
    /\ Structure
    /\ BlobWhileUploading /\ CommittedBlob
    /\ DroppedRowsGone /\ DeletedBlob /\ DeletedRowsGone
    /\ DamageExplained /\ ServedUnlessLost /\ OrphansExplained

-----------------------------------------------------------------------------
(* Type correctness, and the part that says nothing of files.               *)

\* A step is one of ObjectStore, with lost as it was, or the power fails
LEMMA StepKinds ==
    ASSUME [DurabilityNext]_durabilityVars
    PROVE  \/ [Next]_vars /\ lost' = lost
           \/ PowerLoss
BY DEF DurabilityNext, durabilityVars, Writeback

LEMMA DeviceType ==
    ASSUME DurabilityTypeOK, [DurabilityNext]_durabilityVars
    PROVE  device' \in [Requests -> Content] /\ lost' \subseteq Requests
<1> USE DEF DurabilityTypeOK
<1>1. ASSUME NEW p \in Requests, Writeback(p) PROVE device' \in [Requests -> Content]
  BY <1>1 DEF Writeback, TypeOK, Content
<1> QED BY <1>1 DEF DurabilityNext, durabilityVars, Writeback, PowerLoss

LEMMA PowerLossType ==
    ASSUME DurabilityTypeOK, PowerLoss
    PROVE  TypeOK'
BY DEF DurabilityTypeOK, TypeOK, PowerLoss, InFlight, Statuses, history

LEMMA DurabilityTypeStep ==
    ASSUME DurabilityTypeOK, [DurabilityNext]_durabilityVars
    PROVE  DurabilityTypeOK'
BY StepKinds, TypeStep, PowerLossType, DeviceType DEF DurabilityTypeOK

\* What a power failure leaves of a request: all but the reply it waits for
LEMMA PowerLossKeeps ==
    ASSUME DurabilityTypeOK, PowerLoss
    PROVE  /\ UNCHANGED <<objects, req, pc, found, served, committed, replaced>>
           /\ lost \subseteq lost'
           /\ \A r \in Requests :
                 \/ resp'[r] = resp[r]
                 \/ resp[r] = "pending" /\ resp'[r] = "dropped" /\ pc[r] # "FindBucket"
           /\ \A p \in Requests : files'[p] = files[p] \/ p \in lost'
BY DEF PowerLoss, InFlight, history, DurabilityTypeOK, TypeOK

LEMMA PowerLossStructure ==
    ASSUME DurabilityTypeOK, Structure, PowerLoss
    PROVE  Structure' /\ DroppedRowsGone' = DroppedRowsGone
<1> USE PowerLossKeeps DEF DurabilityTypeOK, TypeOK
<1>1. StepsOfOps' /\ AnswersOfSteps'
  BY DEF Structure, StepsOfOps, AnswersOfSteps
<1>2. /\ FoundKeys' /\ OneRowPerKey' /\ OneRowFound'
      /\ NothingFoundYet' /\ SomethingFound'
  BY DEF Structure, FoundKeys, OneRowPerKey, OneRowFound, NothingFoundYet,
         SomethingFound
<1>3. RowsAreOwn' /\ FoundAreOwn'
  BY OwnRowStays DEF Structure, RowsAreOwn, FoundAreOwn
<1>4. CommittedUploads' /\ AnsweredUploads'
  BY DEF Structure, CommittedUploads, AnsweredUploads
<1>5. DroppedRowsGone' = DroppedRowsGone
  BY DEF DroppedRowsGone
<1> QED BY <1>1, <1>2, <1>3, <1>4, <1>5 DEF Structure

LEMMA DurabilityStructureStep ==
    ASSUME DurabilityTypeOK, Structure, [DurabilityNext]_durabilityVars
    PROVE  Structure'
BY StepKinds, StructureStep, PowerLossStructure DEF DurabilityTypeOK

\* A row that only a power failure could bring back is not in the table
LEMMA DurabilityGoneStep ==
    ASSUME DurabilityTypeOK, Structure, DroppedRowsGone, DeletedRowsGone,
           [DurabilityNext]_durabilityVars
    PROVE  DroppedRowsGone' /\ DeletedRowsGone'
<1>1. CASE PowerLoss
  BY <1>1, PowerLossKeeps DEF DroppedRowsGone, DeletedRowsGone
<1> QED BY <1>1, StepKinds, DroppedRowsGoneStep, DeletedRowsGoneStep
        DEF DurabilityTypeOK

-----------------------------------------------------------------------------
(* The blobs.                                                               *)

LEMMA BlobWhileUploadingStep ==
    ASSUME DurabilityTypeOK, Structure, BlobWhileUploading,
           [DurabilityNext]_durabilityVars
    PROVE  BlobWhileUploading'
<1> SUFFICES ASSUME NEW u \in Requests, pc'[u] \in {"FindExisting", "Upsert"},
                    resp'[u] = "pending"
             PROVE  files'[u] = u
  BY DEF BlobWhileUploading
<1> USE DEF DurabilityTypeOK, TypeOK
<1>1. CASE PowerLoss
  BY <1>1 DEF PowerLoss, InFlight
<1>2. CASE [Next]_vars
  <2>1. resp[u] = "pending"
    BY <1>2, LastStepsStay
  <2>2. CASE pc[u] \in {"FindExisting", "Upsert"}
    <3>1. files[u] = u
      BY <2>1, <2>2 DEF BlobWhileUploading
    <3>2. u \notin committed
      BY <2>1, <2>2 DEF Structure, CommittedUploads
    <3>3. ~Cleanup(u) /\ ~At(u, "CreateBlob")
      BY <2>2 DEF Cleanup, At
    <3>4. \A o : OwnRow(o) => u # o.path
      BY <3>2 DEF OwnRow, RowOf, StoragePath
    <3> QED BY <1>2, <3>1, <3>3, <3>4, FileChanges
  <2>3. CASE pc[u] \notin {"FindExisting", "Upsert"}
    <3> USE DEF At, Goto, Answer, store, history, StoragePath
    <3>1. ASSUME NEW r \in Requests, Step(r) PROVE CopyBody(u)
      BY <2>3, <3>1 DEF Step, RejectUpload, FindBucket, AfterBucket, CreateBlob,
           CopyBody, FindExisting, Upsert, Cleanup, DropOld, FindObject, Open,
           RemoveBlob, DeleteRow, ListByBucket
    <3>2. CopyBody(u)
      BY <1>2, <2>3, <3>1 DEF Next, vars, CreateBucket, Crash
    <3>3. files' = Written(u, u)
      BY <2>3, <3>2 DEF CopyBody
    <3> QED BY <3>3 DEF Written
  <2> QED BY <2>2, <2>3
<1> QED BY <1>1, <1>2, StepKinds

LEMMA CommittedBlobStep ==
    ASSUME DurabilityTypeOK, Structure, BlobWhileUploading, CommittedBlob,
           [DurabilityNext]_durabilityVars
    PROVE  CommittedBlob'
<1> SUFFICES ASSUME NEW u \in committed'
             PROVE  files'[u] \in {u, NoFile} \/ u \in lost'
  BY DEF CommittedBlob
<1> USE DEF DurabilityTypeOK
<1>1. CASE PowerLoss
  BY <1>1, PowerLossKeeps DEF CommittedBlob, TypeOK
<1>2. CASE [Next]_vars /\ lost' = lost
  <2>1. CASE u \in committed
    <3>1. u \in Requests /\ ~At(u, "CreateBlob") /\ ~At(u, "CopyBody")
      BY <2>1 DEF TypeOK, Structure, CommittedUploads, At
    <3>2. files[u] \in {u, NoFile} \/ u \in lost
      BY <2>1 DEF CommittedBlob
    <3> QED BY <1>2, <3>1, <3>2, FileChanges
  <2>2. CASE u \notin committed
    <3>1. u \in Requests /\ Upsert(u)
      <4>1. ASSUME NEW r \in Requests, Step(r) PROVE u \in Requests /\ Upsert(u)
        BY <2>2, <4>1 DEF Step, RejectUpload, FindBucket, CreateBlob, CopyBody,
             FindExisting, Upsert, CommitUpsert, Cleanup, DropOld, FindObject,
             Open, RemoveBlob, DeleteRow, ListByBucket, store, history
      <4> QED BY <1>2, <2>2, <4>1 DEF Next, vars, CreateBucket, Crash, store, history
    <3> QED BY <2>2, <3>1 DEF Upsert, At, BlobWhileUploading
  <2> QED BY <2>1, <2>2
<1> QED BY <1>1, <1>2, StepKinds

LEMMA DeletedBlobStep ==
    ASSUME DurabilityTypeOK, Structure, DeletedBlob, [DurabilityNext]_durabilityVars
    PROVE  DeletedBlob'
<1> SUFFICES ASSUME NEW d \in Requests, pc'[d] = "DeleteRow", NEW o \in found'[d]
             PROVE  files'[o.path] = NoFile \/ o.path \in lost'
  BY DEF DeletedBlob
<1> USE DEF DurabilityTypeOK
<1>1. CASE PowerLoss
  BY <1>1, PowerLossKeeps DEF DeletedBlob, TypeOK, Row
<1>2. CASE [Next]_vars /\ lost' = lost
  <2>1. CASE pc[d] = "DeleteRow"
    <3>1. o \in found[d]
      BY <1>2, <2>1, LastStepsStay DEF LastSteps
    <3>2. /\ files[o.path] = NoFile \/ o.path \in lost
          /\ OwnRow(o)
      BY <2>1, <3>1 DEF DeletedBlob, Structure, FoundAreOwn
    <3> QED BY <1>2, <3>2, NoRewrite
  <2>2. CASE pc[d] # "DeleteRow"
    <3>1. RemoveBlob(d)
      <4> USE DEF TypeOK, At, Goto, Answer, store, history
      <4>1. ASSUME NEW r \in Requests, Step(r) PROVE RemoveBlob(d)
        BY <2>2, <4>1 DEF Step, RejectUpload, FindBucket, AfterBucket, CreateBlob,
             CopyBody, FindExisting, Upsert, Cleanup, DropOld, FindObject, Open,
             RemoveBlob, DeleteRow, ListByBucket
      <4> QED BY <1>2, <2>2, <4>1 DEF Next, vars, CreateBucket, Crash
    <3>2. o \in found[d] /\ pc[d] = "RemoveBlob"
      BY <3>1 DEF RemoveBlob, At
    <3>3. PICK n \in found[d] : files' = Removed({n})
      BY <3>1, <3>2 DEF RemoveBlob, Answer
    <3>4. n = o
      BY <3>2, <3>3 DEF Structure, StepsOfOps, OneRowFound
    <3>5. o.path \in Requests
      BY <3>2 DEF TypeOK, Row
    <3> QED BY <3>3, <3>4, <3>5 DEF Removed
  <2> QED BY <2>1, <2>2
<1> QED BY <1>1, <1>2, StepKinds

\* The file of a row stays as it is, until a delete removes it or the upload
\* that was told of an error does
LEMMA BlobStays ==
    ASSUME TypeOK, Structure, DroppedRowsGone, [Next]_vars,
           NEW o \in objects, o \in objects'
    PROVE  files'[o.path] = files[o.path] \/ DeleteWindow(o)' \/ UnackedUpsert(o)'
<1>1. /\ OwnRow(o) /\ o.id \in committed /\ o.id \in Requests
      /\ o.path = o.id
  BY DEF Structure, RowsAreOwn, OwnRow, RowOf, StoragePath, TypeOK
<1>2. ~At(o.id, "CreateBlob") /\ ~At(o.id, "CopyBody")
  BY <1>1 DEF Structure, CommittedUploads, At
<1>3. CASE Cleanup(o.id)
  <2>1. MayFail("ack") /\ pc[o.id] = "Cleanup"
    BY <1>1, <1>3 DEF Cleanup, At, Structure, CommittedUploads
  <2> QED BY <1>1, <2>1, ExcusesStay DEF UnackedUpsert
<1>4. ASSUME NEW r \in Requests, NEW n \in found[r], Removes(r),
             o.path = n.path, OwnRow(n)
      PROVE  DeleteWindow(o)'
  <2>1. n = o
    BY <1>1, <1>4 DEF OwnRow, RowOf, StoragePath
  <2>2. ~DropOld(r)
    BY <1>4, <2>1 DEF DropOld, At, DroppedRowsGone
  <2>3. RemoveBlob(r) /\ pc'[r] = "DeleteRow"
    BY <1>4, <2>2 DEF Removes
  <2>4. o \in found'[r] /\ req'[r].op = "delete"
    BY <1>4, <2>1, <2>3, Frame DEF RemoveBlob, At, Structure, StepsOfOps
  <2> QED BY <2>3, <2>4 DEF DeleteWindow
<1> QED BY <1>1, <1>2, <1>3, <1>4, FileChanges

LEMMA DamageExplainedStep ==
    ASSUME DurabilityTypeOK, Structure, BlobWhileUploading, DroppedRowsGone,
           DamageExplained, [DurabilityNext]_durabilityVars
    PROVE  DamageExplained'
<1> SUFFICES ASSUME NEW o \in objects'
             PROVE  \/ files'[o.path] = o.checksum
                    \/ o.path \in lost'
                    \/ DeleteWindow(o)'
                    \/ UnackedUpsert(o)'
  BY DEF DamageExplained
<1> USE DEF DurabilityTypeOK
<1>1. CASE PowerLoss
  BY <1>1, PowerLossKeeps
     DEF DamageExplained, DeleteWindow, UnackedUpsert, TypeOK, Row, MayFail
<1>2. CASE [Next]_vars /\ lost' = lost /\ o \notin objects
  <2>1. PICK r \in Requests : Upsert(r) /\ CommitUpsert(r) /\ o = RowOf(r)
    BY <1>2, RowsAdded
  <2>2. files[r] = r
    BY <2>1 DEF Upsert, At, BlobWhileUploading
  <2> QED BY <2>1, <2>2 DEF Upsert, RowOf, StoragePath
<1>3. CASE [Next]_vars /\ lost' = lost /\ o \in objects
  <2>1. /\ OwnRow(o) /\ o.id \in committed /\ o.id \in Requests
        /\ o.path = o.id /\ o.checksum = o.id
    BY <1>3 DEF Structure, RowsAreOwn, OwnRow, RowOf, StoragePath, TypeOK
  <2>2. CASE DeleteWindow(o) \/ UnackedUpsert(o)
    BY <1>3, <2>1, <2>2, ExcusesStay
  <2>3. CASE files[o.path] = o.checksum
    BY <1>3, <2>3, BlobStays
  <2> QED BY <1>3, <2>2, <2>3 DEF DamageExplained
<1> QED BY <1>1, <1>2, <1>3, StepKinds

LEMMA ServedUnlessLostStep ==
    ASSUME DurabilityTypeOK, Structure, CommittedBlob, ServedUnlessLost,
           [DurabilityNext]_durabilityVars
    PROVE  ServedUnlessLost'
<1> SUFFICES ASSUME NEW r \in Requests, resp'[r] = "200", req'[r].op = "get"
             PROVE  /\ \E o \in found'[r] :
                          served'[r].bytes = o.checksum \/ o.path \in lost'
                    /\ served'[r].whole \/ MayFail("fs")
  BY DEF ServedUnlessLost
<1> USE DEF DurabilityTypeOK
<1>1. CASE PowerLoss
  BY <1>1, PowerLossKeeps DEF ServedUnlessLost
<1>2. CASE [Next]_vars /\ lost' = lost
  <2>0. req' = req
    BY <1>2, Frame
  <2>1. CASE resp[r] = "200"
    BY <1>2, <2>0, <2>1, LastStepsStay DEF ServedUnlessLost
  <2>2. CASE resp[r] # "200"
    <3>1. Open(r) /\ resp'[r] = "200"
      <4> USE DEF TypeOK, At, Goto, Answer, store, history, Structure, StepsOfOps
      <4>1. ASSUME NEW q \in Requests, Step(q) PROVE Open(r)
        BY <2>0, <2>2, <4>1 DEF Step, RejectUpload, FindBucket, AfterBucket,
             CreateBlob, CopyBody, FindExisting, Upsert, Cleanup, DropOld,
             FindObject, Open, RemoveBlob, DeleteRow, ListByBucket
      <4> QED BY <1>2, <2>2, <4>1 DEF Next, vars, CreateBucket, Crash
    <3>2. PICK o \in found[r], whole \in BOOLEAN :
              /\ files[o.path] # NoFile
              /\ whole \/ MayFail("fs")
              /\ served' = [served EXCEPT ![r] =
                             [bytes |-> files[o.path], whole |-> whole]]
      BY <3>1 DEF Open, Answer, At, TypeOK
    <3>3. files[o.path] = o.checksum \/ o.path \in lost
      BY <3>2 DEF Structure, FoundAreOwn, OwnRow, RowOf, StoragePath, CommittedBlob
    <3>4. found' = found
      BY <3>1 DEF Open
    <3> QED BY <1>2, <3>2, <3>3, <3>4 DEF TypeOK
  <2> QED BY <2>1, <2>2
<1> QED BY <1>1, <1>2, StepKinds
-----------------------------------------------------------------------------
(* The blobs that no row names.                                             *)

\* Where a new file comes from
LEMMA FileAppears ==
    ASSUME DurabilityTypeOK, Structure, [Next]_vars, NEW p \in Requests,
           files'[p] # NoFile, files'[p] # files[p]
    PROVE  Uncommitted(p)'
<1> USE DEF DurabilityTypeOK, TypeOK
<1>1. At(p, "CreateBlob") \/ At(p, "CopyBody")
  BY FileChanges
<1>2. p \notin committed
  BY <1>1 DEF At, Structure, CommittedUploads
<1>3. ASSUME NEW r \in Requests, Step(r)
      PROVE  (CreateBlob(p) \/ CopyBody(p)) /\ files' # files
  <2> USE DEF At, store, history, StoragePath
  <2>1. files' # files
    OBVIOUS
  <2>2. CASE Cleanup(r)
    BY <2>2 DEF Cleanup, Removed
  <2>3. CASE DropOld(r)
    BY <2>3 DEF DropOld, Removed
  <2>4. CASE RemoveBlob(r)
    BY <2>4 DEF RemoveBlob, Removed
  <2>5. CASE CreateBlob(r)
    BY <2>5 DEF CreateBlob, Written
  <2>6. CASE CopyBody(r)
    BY <2>6 DEF CopyBody, Written
  <2> QED BY <1>3, <2>1, <2>2, <2>3, <2>4, <2>5, <2>6 DEF Step, RejectUpload,
       FindBucket, FindExisting, Upsert, FindObject, Open, DeleteRow, ListByBucket
<1>4. (CreateBlob(p) \/ CopyBody(p)) /\ files' # files
  BY <1>3 DEF Next, vars, CreateBucket, Crash, store
<1> QED BY <1>2, <1>4 DEF CreateBlob, CopyBody, At, Goto, Answer, Uncommitted, history

\* A row that leaves the table: displaced, or deleted after its blob was removed
LEMMA RowLeaves ==
    ASSUME TypeOK, Structure, [Next]_vars, NEW o \in objects, o \notin objects'
    PROVE  \/ \E u \in Requests : Upsert(u) /\ CommitUpsert(u) /\ o \in FindByKey(u)
           \/ \E d \in Requests : DeleteRow(d) /\ o \in found[d]
<1>1. PICK r \in Requests :
          \/ Upsert(r) /\ CommitUpsert(r)
          \/ DeleteRow(r) /\ objects' = RowsKept(r)
  BY DEF Next, vars, CreateBucket, Crash, Step, RejectUpload, FindBucket,
     CreateBlob, CopyBody, FindExisting, Upsert, Cleanup, DropOld,
     FindObject, Open, RemoveBlob, DeleteRow, ListByBucket, store, history
<1>2. CASE Upsert(r) /\ CommitUpsert(r)
  BY <1>2 DEF CommitUpsert, Upserted
<1>3. CASE DeleteRow(r) /\ objects' = RowsKept(r)
  <2>1. PICK n \in found[r] : n.id = o.id
    BY <1>3 DEF RowsKept
  <2>2. n = o
    BY <2>1 DEF Structure, RowsAreOwn, FoundAreOwn, OwnRow
  <2> QED BY <1>3, <2>1, <2>2
<1> QED BY <1>1, <1>2, <1>3

\* The three ways in which a blob can be accounted for, a step at a time
LEMMA ReferencedStep ==
    ASSUME DurabilityTypeOK, Structure, DeletedBlob, [Next]_vars,
           NEW p \in Requests, Referenced(p), files[p] # NoFile
    PROVE  Referenced(p)' \/ Superseded(p)' \/ p \in lost
<1> USE DEF DurabilityTypeOK, TypeOK
<1>1. PICK o \in objects : o.path = p
  BY DEF Referenced
<1>2. CASE o \in objects'
  BY <1>1, <1>2 DEF Referenced
<1>3. ASSUME NEW u \in Requests, Upsert(u), CommitUpsert(u), o \in FindByKey(u)
      PROVE  Superseded(p)'
  <2>1. u \in committed' /\ o \in replaced'[u] /\ found' = found
    BY <1>3 DEF CommitUpsert, Upsert
  <2>2. \/ found[u] = {}
        \/ pc'[u] = "DropOld" /\ resp'[u] = "pending"
        \/ pc'[u] = "Cleanup"
    <3>1. u \notin committed
      BY <1>3 DEF Upsert, At, Structure, CommittedUploads
    <3>2. ~UNCHANGED history
      BY <2>1, <3>1 DEF history
    <3> QED BY <1>3, <3>2 DEF Upsert, At, Goto, Answer
  <2> QED BY <1>1, <2>1, <2>2 DEF Superseded
<1>4. ASSUME NEW d \in Requests, DeleteRow(d), o \in found[d]
      PROVE  p \in lost
  BY <1>1, <1>4 DEF DeleteRow, At, DeletedBlob
<1> QED BY <1>2, <1>3, <1>4, RowLeaves

LEMMA UncommittedStep ==
    ASSUME DurabilityTypeOK, Structure, [Next]_vars, NEW p \in Requests,
           Uncommitted(p), files'[p] # NoFile
    PROVE  Uncommitted(p)' \/ Referenced(p)'
<1> USE DEF DurabilityTypeOK, TypeOK, Uncommitted, Stopped, MayFail
<1>1. CASE Step(p)
  <2> USE DEF At, Goto, Answer, history
  <2>1. CASE CopyBody(p)
    BY <2>1 DEF CopyBody
  <2>2. CASE FindExisting(p)
    BY <2>2 DEF FindExisting
  <2>3. CASE Upsert(p)
    <3>1. CASE CommitUpsert(p)
      <4>1. RowOf(p) \in objects' /\ RowOf(p).path = p
        BY <3>1 DEF CommitUpsert, Upserted, RowOf, StoragePath
      <4> QED BY <4>1 DEF Referenced
    <3>2. CASE ~CommitUpsert(p)
      BY <2>3, <3>2 DEF Upsert
    <3> QED BY <3>1, <3>2
  <2>4. CASE Cleanup(p)
    <3>1. files' # Removed({RowOf(p)})
      BY DEF Removed, RowOf, StoragePath
    <3> QED BY <2>4, <3>1 DEF Cleanup
  <2> QED BY <1>1, <2>1, <2>2, <2>3, <2>4 DEF Step, RejectUpload, FindBucket,
       CreateBlob, DropOld, FindObject, Open, RemoveBlob, DeleteRow, ListByBucket
<1>2. ASSUME NEW r \in Requests, Step(r), r # p
      PROVE  pc'[p] = pc[p] /\ resp'[p] = resp[p] /\ (p \in committed' => p \in committed)
  BY <1>2 DEF Step, RejectUpload, FindBucket, CreateBlob, CopyBody,
       FindExisting, Upsert, CommitUpsert, Cleanup, DropOld, FindObject, Open,
       RemoveBlob, DeleteRow, ListByBucket, At, Goto, Answer, history
<1>3. CASE Crash
  BY <1>3 DEF Crash, InFlight, history
<1> QED BY <1>1, <1>2, <1>3 DEF Next, vars, CreateBucket, history

\* An upload commits once: what it displaced is on record for good
LEMMA ReplacedStays ==
    ASSUME TypeOK, Structure, [Next]_vars, NEW u \in committed
    PROVE  u \in committed' /\ replaced'[u] = replaced[u] /\ found'[u] = found[u]
<1> USE DEF TypeOK
<1>1. u \in Requests /\ ~At(u, "Upsert") /\ pc[u] \in {"Upsert", "Cleanup", "DropOld"}
  BY DEF Structure, CommittedUploads, At
<1>2. pc[u] = "Upsert" => resp[u] = "201"
  BY DEF Structure, CommittedUploads
<1>3. found'[u] = found[u]
  BY <1>1, <1>2, LastStepsStay DEF LastSteps
<1>4. ASSUME NEW r \in Requests, Step(r) PROVE replaced'[u] = replaced[u]
  BY <1>1, <1>4 DEF Step, RejectUpload, FindBucket, CreateBlob, CopyBody,
       FindExisting, Upsert, CommitUpsert, Cleanup, DropOld, FindObject, Open,
       RemoveBlob, DeleteRow, ListByBucket, history
<1>5. replaced'[u] = replaced[u]
  BY <1>4 DEF Next, vars, CreateBucket, Crash, history
<1> QED BY <1>3, <1>5, Frame

LEMMA SupersededStep ==
    ASSUME DurabilityTypeOK, Structure, [Next]_vars, NEW p \in Requests,
           Superseded(p), files'[p] # NoFile
    PROVE  Superseded(p)'
<1> USE DEF DurabilityTypeOK, TypeOK
<1>1. PICK u \in committed : \E o \in replaced[u] :
          /\ o.path = p
          /\ \/ o \notin found[u]
             \/ pc[u] = "DropOld" /\ (resp[u] = "pending" \/ Stopped(u))
             \/ pc[u] = "Cleanup"
  BY DEF Superseded
<1>2. PICK o \in replaced[u] :
          /\ o.path = p
          /\ \/ o \notin found[u]
             \/ pc[u] = "DropOld" /\ (resp[u] = "pending" \/ Stopped(u))
             \/ pc[u] = "Cleanup"
  BY <1>1
<1>3. u \in committed' /\ o \in replaced'[u] /\ found'[u] = found[u] /\ u \in Requests
  BY <1>2, ReplacedStays
<1>4. CASE o \notin found[u]
  BY <1>2, <1>3, <1>4 DEF Superseded
<1>5. CASE pc[u] = "Cleanup"
  <2>1. pc'[u] = "Cleanup"
    BY <1>3, <1>5, LastStepsStay DEF LastSteps
  <2> QED BY <1>2, <1>3, <2>1 DEF Superseded
<1>6. CASE o \in found[u] /\ pc[u] = "DropOld" /\ (resp[u] = "pending" \/ Stopped(u))
  <2>1. pc'[u] = "DropOld"
    BY <1>3, <1>6, LastStepsStay DEF LastSteps
  <2>2. resp'[u] = "pending" \/ Stopped(u)'
    <3>1. CASE resp[u] # "pending"
      BY <1>3, <1>6, <3>1, LastStepsStay DEF Stopped, MayFail
    <3>2. CASE resp[u] = "pending" /\ DropOld(u)
      <4>1. files' # Removed(found[u])
        BY <1>2, <1>6 DEF Removed
      <4> QED BY <1>3, <3>2, <4>1 DEF DropOld, Answer, Stopped, MayFail
    <3>3. CASE resp[u] = "pending" /\ ~DropOld(u)
      <4> USE DEF At, Goto, Answer
      <4>1. ASSUME NEW r \in Requests, Step(r) PROVE resp'[u] = resp[u]
        BY <1>3, <1>6, <3>3, <4>1 DEF Step, RejectUpload, FindBucket, CreateBlob,
             CopyBody, FindExisting, Upsert, Cleanup, DropOld, FindObject, Open,
             RemoveBlob, DeleteRow, ListByBucket
      <4>2. CASE Crash
        BY <1>3, <3>3, <4>2 DEF Crash, InFlight, Stopped
      <4> QED BY <3>3, <4>1, <4>2 DEF Next, vars, CreateBucket
    <3> QED BY <3>1, <3>2, <3>3
  <2> QED BY <1>2, <1>3, <2>1, <2>2 DEF Superseded
<1> QED BY <1>2, <1>4, <1>5, <1>6

LEMMA OrphansExplainedStep ==
    ASSUME DurabilityTypeOK, Structure, DeletedBlob, OrphansExplained,
           [DurabilityNext]_durabilityVars
    PROVE  OrphansExplained'
<1> SUFFICES ASSUME NEW p \in Requests, files'[p] # NoFile
             PROVE  \/ Referenced(p)' \/ Uncommitted(p)' \/ Superseded(p)'
                    \/ p \in lost'
  BY DEF OrphansExplained
<1>1. CASE PowerLoss /\ files'[p] = files[p]
  <2>1. Referenced(p) => Referenced(p)'
    BY <1>1, PowerLossKeeps DEF Referenced
  <2>2. Uncommitted(p) => Uncommitted(p)'
    BY <1>1, PowerLossKeeps DEF Uncommitted, Stopped, MayFail
  <2>3. Superseded(p) => Superseded(p)'
    <3>1. \A u \in Requests : resp[u] = "pending" \/ Stopped(u) =>
              resp'[u] = "pending" \/ Stopped(u)'
      BY <1>1, PowerLossKeeps DEF Stopped, MayFail
    <3> QED BY <1>1, <3>1, PowerLossKeeps DEF Superseded, DurabilityTypeOK, TypeOK
  <2> QED BY <1>1, <2>1, <2>2, <2>3, PowerLossKeeps DEF OrphansExplained
<1>2. CASE PowerLoss /\ files'[p] # files[p]
  BY <1>2, PowerLossKeeps
<1>3. CASE [Next]_vars /\ lost' = lost /\ files'[p] # files[p]
  BY <1>3, FileAppears
<1>4. CASE [Next]_vars /\ lost' = lost /\ files'[p] = files[p]
  BY <1>4, ReferencedStep, UncommittedStep, SupersededStep DEF OrphansExplained
<1> QED BY <1>1, <1>2, <1>3, <1>4, StepKinds

-----------------------------------------------------------------------------
(* The invariant, and what follows from it.                                 *)

LEMMA DInvInit == DurabilityInit => DInv
<1> SUFFICES ASSUME DurabilityInit PROVE DInv
  OBVIOUS
<1>1. Init
  BY DEF DurabilityInit
<1>2. DurabilityTypeOK
  BY <1>1, TypeInit DEF DurabilityInit, DurabilityTypeOK, Content
<1>3. Structure /\ DroppedRowsGone /\ DeletedRowsGone
  BY <1>1, InvInit DEF IInv
<1>4. BlobWhileUploading /\ CommittedBlob /\ DeletedBlob
  BY <1>1 DEF Init, BlobWhileUploading, CommittedBlob, DeletedBlob
<1>5. DamageExplained /\ ServedUnlessLost /\ OrphansExplained
  BY <1>1 DEF Init, DamageExplained, ServedUnlessLost, OrphansExplained
<1> QED BY <1>2, <1>3, <1>4, <1>5 DEF DInv

LEMMA DInvStep == DInv /\ [DurabilityNext]_durabilityVars => DInv'
BY DurabilityTypeStep, DurabilityStructureStep, DurabilityGoneStep,
   BlobWhileUploadingStep, CommittedBlobStep, DeletedBlobStep,
   DamageExplainedStep, ServedUnlessLostStep, OrphansExplainedStep DEF DInv

LEMMA DurabilityInvariance == DurabilitySpec => []DInv
BY DInvInit, DInvStep, PTL DEF DurabilitySpec

\* What the device holds and what was lost keep their types, and so does all
\* that ObjectStore keeps, through any number of power failures.
THEOREM DurabilityTypeCorrect == DurabilitySpec => []DurabilityTypeOK
<1>1. DInv => DurabilityTypeOK
  BY DEF DInv
<1> QED BY <1>1, DurabilityInvariance, PTL

\* A row without its bytes lost them to a power failure before they reached the
\* device, or to a delete or an unacknowledged commit that was cut off.
THEOREM DamageAlwaysExplained == DurabilitySpec => []DamageExplained
<1>1. DInv => DamageExplained
  BY DEF DInv
<1> QED BY <1>1, DurabilityInvariance, PTL

\* A 200 download sends bytes of the row it looked up and no others, unless a
\* power failure changed that very file; all of them unless a file call may fail.
THEOREM ServedUnlessLostAlways == DurabilitySpec => []ServedUnlessLost
<1>1. DInv => ServedUnlessLost
  BY DEF DInv
<1> QED BY <1>1, DurabilityInvariance, PTL

\* The row of an acknowledged delete never comes back; its blob only with a
\* power failure.
THEOREM DeletedRowsStayDeletedAlways == DurabilitySpec => []DeletedRowsStayDeleted
<1>1. DInv => DeletedRowsStayDeleted
  BY DEF DInv, DeletedRowsStayDeleted, DeletedRowsGone, DeletedBlob, Structure,
         AnswersOfSteps
<1> QED BY <1>1, DurabilityInvariance, PTL

\* A failed upload leaves no row, and no power failure gives it one.
THEOREM FailedUploadStaysInvisible == DurabilitySpec => []FailedUploadInvisible
<1>1. DInv => FailedUploadInvisible
  BY DEF DInv, FailedUploadInvisible, UnackedUpsert, Structure, AnswersOfSteps, RowsAreOwn,
         FoundAreOwn, OwnRow, CommittedUploads
<1> QED BY <1>1, DurabilityInvariance, PTL

\* Every blob without a row has an upload or a power failure to answer for it.
THEOREM OrphansAlwaysExplained == DurabilitySpec => []OrphansExplained
<1>1. DInv => OrphansExplained
  BY DEF DInv
<1> QED BY <1>1, DurabilityInvariance, PTL

\* No power failure takes a row: one disappears only in the delete that looked
\* it up, or in an upload of the same key, here as without power failures.
THEOREM NoRowLostToPower == DurabilitySpec => NoRowLost
<1> DEFINE Kept ==
      \A o \in objects \ objects' :
          \/ \E d \in Requests :
                req[d].op = "delete" /\ At(d, "DeleteRow") /\ o \in found[d]
          \/ \E n \in objects' :
                n \notin objects /\ n.bucket = o.bucket /\ n.key = o.key
<1>1. ASSUME DInv, [DurabilityNext]_durabilityVars PROVE Kept
  <2> SUFFICES ASSUME NEW o \in objects, o \notin objects'
               PROVE  \/ \E d \in Requests :
                            req[d].op = "delete" /\ At(d, "DeleteRow") /\ o \in found[d]
                      \/ \E n \in objects' :
                            n \notin objects /\ n.bucket = o.bucket /\ n.key = o.key
    BY DEF Kept
  <2>1. TypeOK /\ Structure /\ [Next]_vars
    BY <1>1, StepKinds, PowerLossKeeps DEF DInv, DurabilityTypeOK
  <2>2. ASSUME NEW u \in Requests, Upsert(u), CommitUpsert(u), o \in FindByKey(u)
        PROVE  \E n \in objects' :
                  n \notin objects /\ n.bucket = o.bucket /\ n.key = o.key
    <3>1. u \notin committed
      BY <2>1, <2>2 DEF Upsert, At, Structure, CommittedUploads
    <3>2. RowOf(u) \in objects' /\ RowOf(u) \notin objects
      BY <2>1, <2>2, <3>1 DEF CommitUpsert, Upserted, Structure, RowsAreOwn,
           OwnRow, RowOf
    <3> QED BY <2>2, <3>2 DEF FindByKey, RowOf
  <2>3. ASSUME NEW d \in Requests, DeleteRow(d), o \in found[d]
        PROVE  req[d].op = "delete" /\ At(d, "DeleteRow") /\ o \in found[d]
    BY <2>1, <2>3 DEF DeleteRow, At, Structure, StepsOfOps
  <2> QED BY <2>1, <2>2, <2>3, RowLeaves
<1>2. ASSUME DInv, [DurabilityNext]_durabilityVars PROVE [Kept]_vars
  BY <1>1, <1>2
<1> QED BY <1>2, DurabilityInvariance, PTL DEF DurabilitySpec, NoRowLost

\* The bytes of a row are in its file and have reached the device
Synced(o) == files[o.path] = o.checksum /\ device[o.path] = o.checksum

\* Once the kernel has written the blob of a row, only a delete of the row or the
\* clean-up after its unacknowledged commit takes it from it: no other request,
\* no write-back and no power failure.
THEOREM SyncedBlobStays ==
    DurabilitySpec =>
        [][\A o \in objects :
              Synced(o) /\ o \in objects' =>
                  Synced(o)' \/ DeleteWindow(o)' \/ UnackedUpsert(o)']_durabilityVars
<1> DEFINE Kept ==
      \A o \in objects :
          Synced(o) /\ o \in objects' =>
              Synced(o)' \/ DeleteWindow(o)' \/ UnackedUpsert(o)'
<1>1. ASSUME DInv, [DurabilityNext]_durabilityVars PROVE Kept
  <2> SUFFICES ASSUME NEW o \in objects, Synced(o), o \in objects'
               PROVE  Synced(o)' \/ DeleteWindow(o)' \/ UnackedUpsert(o)'
    BY DEF Kept
  <2>1. TypeOK /\ Structure /\ DroppedRowsGone /\ o.path \in Requests
    BY <1>1 DEF DInv, DurabilityTypeOK, TypeOK, Row
  <2>2. CASE Next /\ UNCHANGED <<device, lost>>
    BY <1>1, <2>1, <2>2, BlobStays DEF Synced
  <2>3. ASSUME NEW p \in Requests, Writeback(p) PROVE Synced(o)'
    BY <1>1, <2>3 DEF Synced, Writeback, vars, store
  <2>4. CASE PowerLoss
    BY <1>1, <2>4 DEF Synced, PowerLoss
  <2>5. CASE UNCHANGED durabilityVars
    BY <1>1, <2>5 DEF Synced, durabilityVars, vars, store
  <2> QED BY <1>1, <2>2, <2>3, <2>4, <2>5 DEF DurabilityNext
<1>2. ASSUME DInv, [DurabilityNext]_durabilityVars PROVE [Kept]_durabilityVars
  BY <1>1, <1>2
<1> QED BY <1>2, DurabilityInvariance, PTL DEF DurabilitySpec

-----------------------------------------------------------------------------
(* One writer to a key at a time, and no call that fails.                    *)

OneWriter ==
    \A u, v \in InFlight :
        /\ req[u].op = "put" /\ req[v].op = "put"
        /\ req[u].bucket = req[v].bucket /\ req[u].key = req[v].key
        => u = v

\* An upload has seen the row it is about to displace, and those that displaced
\* one had seen it
SawAll ==
    /\ \A u \in Requests : At(u, "Upsert") => FindByKey(u) \subseteq found[u]
    /\ \A u \in committed : replaced[u] \subseteq found[u]

LEMMA SawAllStep ==
    ASSUME DurabilityTypeOK, Structure, SawAll, OneWriter, ~MayFail("db"),
           [DurabilityNext]_durabilityVars
    PROVE  SawAll'
<1> USE DEF DurabilityTypeOK, TypeOK
<1>1. CASE PowerLoss
  BY <1>1, PowerLossKeeps DEF SawAll, At, FindByKey, PowerLoss, InFlight
<1>2. ASSUME [Next]_vars, NEW u \in Requests, At(u, "Upsert")',
             NEW o \in FindByKey(u)'
      PROVE  o \in found'[u]
  <2>1. req' = req /\ o \in objects' /\ o.bucket = req[u].bucket /\ o.key = req[u].key
    BY <1>2, Frame DEF FindByKey
  <2>2. CASE At(u, "Upsert") /\ found'[u] = found[u]
    <3>1. ASSUME o \notin objects PROVE FALSE
      <4>1. PICK v \in Requests : Upsert(v) /\ CommitUpsert(v) /\ o = RowOf(v)
        BY <1>2, <2>1, <3>1, RowsAdded
      <4>2. u \in InFlight /\ v \in InFlight
        BY <2>2, <4>1 DEF Upsert, At, InFlight
      <4>3. req[u].op = "put" /\ req[v].op = "put"
        BY <2>2, <4>1 DEF Upsert, At, Structure, StepsOfOps, PutSteps
      <4>4. u = v
        BY <2>1, <4>1, <4>2, <4>3 DEF OneWriter, RowOf
      <4> QED BY <1>2, <4>1, <4>4 DEF Upsert, At, Goto, Answer, MayFail
    <3> QED BY <2>1, <2>2, <3>1 DEF SawAll, FindByKey
  <2>3. CASE ~(At(u, "Upsert") /\ found'[u] = found[u])
    <3> USE DEF At, Goto, Answer, store, history
    <3>1. ASSUME NEW r \in Requests, Step(r) PROVE FindExisting(u)
      BY <1>2, <2>3, <3>1 DEF Step, RejectUpload, FindBucket, AfterBucket,
         CreateBlob, CopyBody, FindExisting, Upsert, Cleanup, DropOld,
         FindObject, Open, RemoveBlob, DeleteRow, ListByBucket
    <3>2. FindExisting(u)
      BY <1>2, <2>3, <3>1 DEF Next, vars, CreateBucket, Crash
    <3> QED BY <1>2, <2>1, <3>2 DEF FindExisting, FindByKey
  <2> QED BY <2>2, <2>3
<1>3. ASSUME [Next]_vars, NEW u \in committed'
      PROVE  replaced'[u] \subseteq found'[u]
  <2>1. CASE u \in committed
    BY <1>3, <2>1, ReplacedStays DEF SawAll
  <2>2. CASE u \notin committed
    <3> USE DEF At, Goto, Answer, store, history
    <3>1. ASSUME NEW r \in Requests, Step(r)
          PROVE  u \in Requests /\ Upsert(u) /\ CommitUpsert(u)
      BY <1>3, <2>2, <3>1 DEF Step, RejectUpload, FindBucket, CreateBlob, CopyBody,
         FindExisting, Upsert, CommitUpsert, Cleanup, DropOld, FindObject, Open,
         RemoveBlob, DeleteRow, ListByBucket
    <3>2. u \in Requests /\ Upsert(u) /\ CommitUpsert(u)
      BY <1>3, <2>2, <3>1 DEF Next, vars, CreateBucket, Crash
    <3>3. FindByKey(u) \subseteq found[u]
      BY <3>2 DEF Upsert, SawAll
    <3> QED BY <3>2, <3>3 DEF Upsert, CommitUpsert
  <2> QED BY <2>1, <2>2
<1>4. ASSUME [Next]_vars PROVE SawAll'
  <2>1. \A u \in Requests : At(u, "Upsert")' => FindByKey(u)' \subseteq found'[u]
    BY <1>2, <1>4
  <2> QED BY <1>3, <1>4, <2>1 DEF SawAll
<1> QED BY <1>1, <1>4, StepKinds

\* What OrphansExplained comes to: if no call fails and no two uploads of one key
\* are in flight together, then an idle service that stopped no request has no
\* blob without a row but those that a power failure brought back.
NothingLeaked ==
    InFlight = {} /\ (\A r \in Requests : resp[r] # "dropped") =>
        \A p \in Requests : files[p] # NoFile => Referenced(p) \/ p \in lost

\* UploadObject and DeleteObject remove every blob they should, however they
\* interleave with each other and with downloads.
THEOREM NothingLeaksBehindOneWriter ==
    ASSUME ~MayFail("db"), ~MayFail("ack"), ~MayFail("fs")
    PROVE  DurabilitySpec /\ []OneWriter => []NothingLeaked
<1>1. DurabilityInit => SawAll
  BY DEF DurabilityInit, Init, SawAll, At
<1>2. DInv /\ SawAll /\ OneWriter /\ [DurabilityNext]_durabilityVars => SawAll'
  BY SawAllStep DEF DInv
<1>3. DInv /\ SawAll => NothingLeaked
  <2> SUFFICES ASSUME DInv, SawAll, InFlight = {},
                      \A r \in Requests : resp[r] # "dropped",
                      NEW p \in Requests, files[p] # NoFile
               PROVE  Referenced(p) \/ p \in lost
    BY DEF NothingLeaked
  <2>1. ~Uncommitted(p)
    BY DEF Uncommitted, Stopped, InFlight
  <2>2. ASSUME Superseded(p) PROVE FALSE
    <3>1. PICK u \in committed : \E o \in replaced[u] :
              \/ o \notin found[u]
              \/ pc[u] = "DropOld" /\ (resp[u] = "pending" \/ Stopped(u))
              \/ pc[u] = "Cleanup"
      BY <2>2 DEF Superseded
    <3>2. u \in Requests /\ pc[u] # "Cleanup"
      BY DEF DInv, DurabilityTypeOK, TypeOK, Structure, CommittedUploads
    <3> QED BY <3>1, <3>2 DEF SawAll, Stopped, InFlight
  <2> QED BY <2>1, <2>2 DEF DInv, OrphansExplained
<1> QED BY <1>1, <1>2, <1>3, DurabilityInvariance, PTL DEF DurabilitySpec
=============================================================================
