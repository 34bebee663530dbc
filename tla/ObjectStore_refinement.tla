------------------------- MODULE ObjectStore_refinement -------------------------
(***************************************************************************)
(* ObjectStore implements VersionedStore: the initial states map to initial *)
(* states and every step maps to a step or a stutter.                       *)
(***************************************************************************)
EXTENDS ObjectStore_proofs

-----------------------------------------------------------------------------
(* The mapped variables.                                                    *)

SeenOf(r) == IF req[r].op = "put" THEN {} ELSE ImplIds(found[r])
Seen == [r \in Requests |-> SeenOf(r)]
States == [r \in Requests |-> ImplState(r)]
Current == ImplIds(objects)
Sent == [r \in Requests |-> served[r].bytes]

\* What a step leaves alone when it is one request's, and no row is written
StateMoves(r, s) == States' = [States EXCEPT ![r] = s]

LEMMA StateOf ==
    ASSUME TypeOK, NEW r \in Requests, resp[r] = "pending"
    PROVE  ImplState(r) = IF r \in committed THEN "committed" ELSE "open"
BY DEF ImplState, TypeOK, Statuses

\* A step that changes no status and no history is no step of the state
LEMMA StateStays ==
    ASSUME TypeOK, resp' = resp, committed' = committed
    PROVE  States' = States
BY DEF States, ImplState

LEMMA AnswerMoves ==
    ASSUME TypeOK, NEW r \in Requests, NEW status \in Statuses \ {"pending"},
           Answer(r, status),
           \A q \in Requests \ {r} : q \in committed' <=> q \in committed
    PROVE  StateMoves(r, IF status \in {"200", "201", "204"} THEN "done" ELSE "failed")
<1> DEFINE s == IF status \in {"200", "201", "204"} THEN "done" ELSE "failed"
<1>1. resp' \in [Requests -> Statuses] /\ resp'[r] = status
  BY DEF Answer, TypeOK
<1>2. \A q \in Requests \ {r} : ImplState(q)' = ImplState(q)
  BY DEF Answer, TypeOK, ImplState
<1>3. ImplState(r)' = s
  BY <1>1 DEF ImplState, Statuses
<1> QED BY <1>2, <1>3 DEF StateMoves, States

LEMMA SeenStays ==
    ASSUME found' = found, req' = req
    PROVE  Seen' = Seen
BY DEF Seen, SeenOf, ImplIds

\* The current version of r's key is the id of its row
LEMMA CurrentOfKey ==
    ASSUME TypeOK, RowsAreOwn, NEW r \in Requests
    PROVE  V!Current(r) = ImplIds(FindByKey(r))
BY DEF V!Current, V!SameKey, ImplIds, FindByKey, RowsAreOwn, OwnRow, RowOf

-----------------------------------------------------------------------------
(* The steps.                                                               *)

\* Steps between two calls that no client can tell from standing still
LEMMA StutterSteps ==
    ASSUME TypeOK, Structure, NEW r \in Requests,
           objects' = objects, req' = req, resp' = resp, served' = served,
           committed' = committed,
           \A q \in Requests : found'[q] = found[q] \/ req[q].op = "put"
    PROVE  UNCHANGED V!vars
<1>1. States' = States
  BY StateStays
<1>2. Seen' = Seen
  BY DEF Seen, SeenOf, ImplIds
<1> QED BY <1>1, <1>2 DEF V!vars, States, Seen, SeenOf, ImplIds

\* An answer other than success that changes no row
LEMMA FailSteps ==
    ASSUME TypeOK, Structure, NEW r \in Requests, resp[r] = "pending",
           Answer(r, "400") \/ Answer(r, "404") \/ Answer(r, "500"),
           UNCHANGED <<objects, req, found, served, committed>>,
           r \in committed => MayFail("ack")
    PROVE  V!Fail(r)
<1>1. StateMoves(r, "failed")
  BY AnswerMoves DEF Statuses
<1>2. ImplState(r) = "open" \/ (ImplState(r) = "committed" /\ "ack" \in Faults)
  BY StateOf DEF MayFail
<1>3. Seen' = Seen
  BY SeenStays
<1> QED BY <1>1, <1>2, <1>3
        DEF V!Fail, V!Become, StateMoves, States, Seen, SeenOf, ImplIds

LEMMA UpsertStep ==
    ASSUME TypeOK, Structure, NEW r \in Requests, Upsert(r)
    PROVE  UNCHANGED V!vars \/ V!Commit(r)
<1>1. CASE ~CommitUpsert(r)
  <2>1. UNCHANGED <<objects, req, found, served, resp, committed>>
    BY <1>1 DEF Upsert, Goto, history
  <2> QED BY <2>1, StutterSteps
<1>2. CASE CommitUpsert(r)
  <2>1. /\ req[r].op = "put" /\ r \notin committed /\ resp[r] = "pending"
        /\ UNCHANGED <<req, found, served>>
    BY DEF Upsert, At, Structure, StepsOfOps, PutSteps, CommittedUploads
  <2>2. ImplState(r) = "open"
    BY <2>1, StateOf
  <2>3. Current' = (Current \ V!Current(r)) \cup {r}
    <3>1. V!Current(r) = ImplIds(FindByKey(r))
      BY CurrentOfKey DEF Structure
    <3>2. \A o, n \in objects : o.id = n.id => o = n
      BY DEF Structure, RowsAreOwn, OwnRow
    <3>3. objects' = (objects \ FindByKey(r)) \cup {RowOf(r)} /\ RowOf(r).id = r
      BY <1>2 DEF CommitUpsert, Upserted, RowOf
    <3>4. FindByKey(r) \subseteq objects
      BY DEF FindByKey
    <3> QED BY <3>1, <3>2, <3>3, <3>4 DEF Current, ImplIds
  <2>4. StateMoves(r, "committed") \/ StateMoves(r, "done")
    <3>1. committed' = committed \cup {r}
      BY <1>2 DEF CommitUpsert
    <3>2. CASE Answer(r, "201")
      BY <3>1, <3>2, AnswerMoves DEF Statuses
    <3>3. CASE resp' = resp
      <4>1. \A q \in Requests \ {r} : ImplState(q)' = ImplState(q)
        BY <3>1, <3>3 DEF ImplState
      <4>2. ImplState(r)' = "committed"
        BY <2>1, <3>1, <3>3 DEF ImplState
      <4> QED BY <4>1, <4>2 DEF StateMoves, States
    <3> QED BY <1>2, <3>2, <3>3 DEF Upsert, Goto
  <2>5. Seen' = Seen
    BY <2>1, SeenStays
  <2> QED BY <2>1, <2>2, <2>3, <2>4, <2>5
          DEF V!Commit, V!Become, StateMoves, States, Current, Seen, SeenOf
<1> QED BY <1>1, <1>2

LEMMA DropOldStep ==
    ASSUME TypeOK, Structure, NEW r \in Requests, DropOld(r)
    PROVE  V!Succeed(r)
<1>1. /\ resp[r] = "pending" /\ Answer(r, "201") /\ r \in committed
      /\ UNCHANGED <<objects, req, found, served, committed>>
  BY DEF DropOld, At, history, Structure, AnsweredUploads
<1>2. StateMoves(r, "done") /\ ImplState(r) = "committed"
  BY <1>1, AnswerMoves, StateOf DEF Statuses
<1>3. Seen' = Seen
  BY <1>1, SeenStays
<1> QED BY <1>1, <1>2, <1>3
        DEF V!Succeed, V!Become, StateMoves, States, Seen, SeenOf, ImplIds

LEMMA FindObjectStep ==
    ASSUME TypeOK, Structure, NEW r \in Requests, FindObject(r)
    PROVE  V!Look(r) \/ V!Fail(r)
<1>1. /\ resp[r] = "pending" /\ req[r].op \in {"get", "delete"}
      /\ r \notin committed /\ found[r] = {}
      /\ UNCHANGED <<objects, req, served, committed>>
  BY DEF FindObject, At, store, history, Structure, StepsOfOps, CommittedUploads,
         NothingFoundYet
<1>2. CASE found' = [found EXCEPT ![r] = FindByKey(r)] /\ FindByKey(r) # {} /\ resp' = resp
  <2>1. V!Current(r) = ImplIds(FindByKey(r))
    BY CurrentOfKey DEF Structure
  <2>2. Seen' = [Seen EXCEPT ![r] = V!Current(r)] /\ Seen[r] = {}
    BY <1>1, <1>2, <2>1 DEF Seen, SeenOf, ImplIds, TypeOK
  <2>3. V!Current(r) # {}
    BY <1>2, <2>1 DEF ImplIds
  <2>4. States' = States /\ ImplState(r) = "open"
    BY <1>1, <1>2, StateStays, StateOf
  <2> QED BY <1>1, <2>2, <2>3, <2>4 DEF V!Look, States, Seen, SeenOf, ImplIds
<1>3. CASE found' = found /\ (Answer(r, "404") \/ Answer(r, "500"))
  BY <1>1, <1>3, FailSteps
<1> QED BY <1>2, <1>3 DEF FindObject, Goto

LEMMA OpenStep ==
    ASSUME TypeOK, Structure, BlobAfterUpsert, NEW r \in Requests, Open(r)
    PROVE  V!Serve(r) \/ V!Fail(r)
<1>1. /\ resp[r] = "pending" /\ req[r].op = "get" /\ r \notin committed
      /\ UNCHANGED <<objects, req, found, committed>>
  BY DEF Open, At, store, history, Structure, StepsOfOps, CommittedUploads
<1>2. PICK o \in found[r], whole \in BOOLEAN :
         \/ /\ files[o.path] # NoFile
            /\ served' = [served EXCEPT ![r] = [bytes |-> files[o.path], whole |-> whole]]
            /\ Answer(r, "200")
         \/ Answer(r, "500") /\ UNCHANGED served
  BY DEF Open
<1>3. CASE Answer(r, "500") /\ UNCHANGED served
  BY <1>1, <1>3, FailSteps
<1>4. CASE /\ files[o.path] # NoFile
           /\ served' = [served EXCEPT ![r] = [bytes |-> files[o.path], whole |-> whole]]
           /\ Answer(r, "200")
  <2>1. files[o.path] = o.id
    BY <1>4 DEF Structure, FoundAreOwn, OwnRow, RowOf, StoragePath, BlobAfterUpsert
  <2>2. o.id \in Seen[r]
    BY <1>1, <1>2 DEF Seen, SeenOf, ImplIds
  <2>3. StateMoves(r, "done") /\ ImplState(r) = "open"
    BY <1>1, <1>4, AnswerMoves, StateOf DEF Statuses
  <2>4. Seen' = Seen
    BY <1>1, SeenStays
  <2>5. Sent' = [Sent EXCEPT ![r] = o.id]
    BY <1>4, <2>1 DEF Sent, TypeOK, Body
  <2> QED BY <1>1, <1>4, <2>2, <2>3, <2>4, <2>5
          DEF V!Serve, V!Become, StateMoves, States, Seen, SeenOf, ImplIds, Sent
<1> QED BY <1>2, <1>3, <1>4

LEMMA DeleteRowStep ==
    ASSUME TypeOK, Structure, NEW r \in Requests, DeleteRow(r)
    PROVE  V!Remove(r) \/ V!Fail(r)
<1>1. /\ resp[r] = "pending" /\ req[r].op = "delete" /\ r \notin committed
      /\ UNCHANGED <<req, found, served, committed>>
  BY DEF DeleteRow, At, history, Structure, StepsOfOps, CommittedUploads
<1>0. found[r] # {}
  BY DEF DeleteRow, At, Structure, SomethingFound
<1>2. CASE objects' = objects /\ Answer(r, "500")
  BY <1>1, <1>2, FailSteps
<1>3. CASE /\ objects' = RowsKept(r)
           /\ Answer(r, "204") \/ (MayFail("ack") /\ Answer(r, "500"))
  <2>1. Current' = Current \ Seen[r]
    BY <1>1, <1>3 DEF Current, Seen, SeenOf, RowsKept, ImplIds
  <2>2. Seen[r] # {}
    BY <1>0, <1>1 DEF Seen, SeenOf, ImplIds
  <2>3. /\ StateMoves(r, "done") \/ ("ack" \in Faults /\ StateMoves(r, "failed"))
        /\ ImplState(r) = "open"
    BY <1>1, <1>3, AnswerMoves, StateOf DEF Statuses, MayFail
  <2>4. Seen' = Seen
    BY <1>1, SeenStays
  <2> QED BY <1>1, <2>1, <2>2, <2>3, <2>4
          DEF V!Remove, V!Become, StateMoves, States, Current, Seen, SeenOf
<1> QED BY <1>2, <1>3 DEF DeleteRow

LEMMA ListStep ==
    ASSUME TypeOK, Structure, NEW r \in Requests, ListByBucket(r)
    PROVE  V!List(r) \/ V!Fail(r)
<1> DEFINE rows == {o \in objects : o.bucket = req[r].bucket}
<1> DEFINE all == {v \in Current : req[v].bucket = req[r].bucket}
<1>1. /\ resp[r] = "pending" /\ req[r].op = "list" /\ r \notin committed
      /\ UNCHANGED <<objects, req, served, committed>>
  BY DEF ListByBucket, At, store, history, Structure, StepsOfOps, CommittedUploads
<1>2. CASE Answer(r, "500") /\ UNCHANGED found
  BY <1>1, <1>2, FailSteps
<1>3. ASSUME NEW part \in SUBSET rows, part = rows \/ MayFail("db"),
             found' = [found EXCEPT ![r] = part], Answer(r, "200")
      PROVE  V!List(r)
  <2>1. all = ImplIds(rows)
    BY DEF Current, ImplIds, Structure, RowsAreOwn, OwnRow, RowOf
  <2>2. ImplIds(part) \in SUBSET all /\ (ImplIds(part) = all \/ "db" \in Faults)
    BY <1>3, <2>1 DEF ImplIds, MayFail
  <2>3. Seen' = [Seen EXCEPT ![r] = ImplIds(part)]
    BY <1>1, <1>3 DEF Seen, SeenOf, ImplIds, TypeOK
  <2>4. StateMoves(r, "done") /\ ImplState(r) = "open"
    BY <1>1, <1>3, AnswerMoves, StateOf DEF Statuses
  <2> QED BY <1>1, <2>2, <2>3, <2>4
          DEF V!List, V!Become, StateMoves, States, Current, Seen, SeenOf, ImplIds
<1> QED BY <1>2, <1>3 DEF ListByBucket

LEMMA CrashStep ==
    ASSUME TypeOK, Structure, Crash
    PROVE  V!Cut(InFlight)
<1>1. \A r \in InFlight : ImplState(r) \in {"open", "committed"}
  BY StateOf DEF InFlight
<1>2. States' = [r \in Requests |-> IF r \in InFlight THEN "failed" ELSE States[r]]
  <2>1. \A r \in Requests : ImplState(r)' = IF r \in InFlight THEN "failed" ELSE ImplState(r)
    BY DEF Crash, history, ImplState, TypeOK
  <2> QED BY <2>1 DEF States
<1>3. Seen' = Seen
  BY SeenStays DEF Crash
<1>4. InFlight \subseteq Requests /\ UNCHANGED <<req, objects, served>> /\ "crash" \in Faults
  BY DEF InFlight, Crash, store, MayFail
<1> QED BY <1>1, <1>2, <1>3, <1>4 DEF V!Cut, States, Seen, SeenOf, ImplIds

-----------------------------------------------------------------------------
(* The theorem.                                                             *)

LEMMA RefinesInit == Init => V!Init
<1> SUFFICES ASSUME Init PROVE V!Init
  OBVIOUS
<1>1. /\ ImplIds(objects) = {}
      /\ \A r \in Requests : SeenOf(r) = {} /\ ImplState(r) = "open"
  BY DEF Init, ImplIds, SeenOf, ImplState
<1> QED BY <1>1 DEF V!Init, Init, SeenOf, Request, Ops

LEMMA RefinesStep ==
    ASSUME IInv, [Next]_vars
    PROVE  [V!Next]_(V!vars)
<1> USE DEF IInv, store, history
<1>1. ASSUME NEW r \in Requests, Step(r) PROVE V!Next \/ UNCHANGED V!vars
  <2>1. CASE RejectUpload(r)
    <3>1. r \notin committed /\ resp[r] = "pending" /\ Answer(r, "400")
      BY <2>1 DEF RejectUpload, At, Structure, CommittedUploads
    <3> QED BY <2>1, <3>1, FailSteps DEF RejectUpload, V!Next
  <2>2. CASE FindBucket(r)
    <3>1. r \notin committed /\ resp[r] = "pending"
      BY <2>2 DEF FindBucket, At, Structure, CommittedUploads
    <3>2. CASE resp' = resp
      BY <2>2, <3>2, StutterSteps DEF FindBucket
    <3> QED BY <2>2, <3>1, <3>2, FailSteps DEF FindBucket, Goto, V!Next
  <2>3. CASE CreateBlob(r) \/ CopyBody(r)
    <3>1. r \notin committed /\ resp[r] = "pending"
      BY <2>3 DEF CreateBlob, CopyBody, At, Structure, CommittedUploads
    <3>2. CASE resp' = resp
      BY <2>3, <3>2, StutterSteps DEF CreateBlob, CopyBody
    <3> QED BY <2>3, <3>1, <3>2, FailSteps DEF CreateBlob, CopyBody, Goto, V!Next
  <2>4. CASE FindExisting(r)
    <3>1. req[r].op = "put"
      BY <2>4 DEF FindExisting, At, Structure, StepsOfOps, PutSteps
    <3>2. \A q \in Requests : found'[q] = found[q] \/ req[q].op = "put"
      BY <2>4, <3>1 DEF FindExisting, TypeOK
    <3> QED BY <2>4, <3>2, StutterSteps DEF FindExisting, Goto
  <2>5. CASE Upsert(r)
    BY <2>5, UpsertStep DEF V!Next
  <2>6. CASE Cleanup(r)
    <3>1. resp[r] = "pending" /\ (r \in committed => MayFail("ack"))
      BY <2>6 DEF Cleanup, At, Structure, CommittedUploads
    <3> QED BY <2>6, <3>1, FailSteps DEF Cleanup, V!Next
  <2>7. CASE DropOld(r)
    BY <2>7, DropOldStep DEF V!Next
  <2>8. CASE FindObject(r)
    BY <2>8, FindObjectStep DEF V!Next
  <2>9. CASE Open(r)
    BY <2>9, OpenStep DEF V!Next
  <2>10. CASE RemoveBlob(r)
    <3>1. r \notin committed /\ resp[r] = "pending"
      BY <2>10 DEF RemoveBlob, At, Structure, CommittedUploads
    <3>2. CASE resp' = resp
      BY <2>10, <3>2, StutterSteps DEF RemoveBlob
    <3> QED BY <2>10, <3>1, <3>2, FailSteps DEF RemoveBlob, Goto, V!Next
  <2>11. CASE DeleteRow(r)
    BY <2>11, DeleteRowStep DEF V!Next
  <2>12. CASE ListByBucket(r)
    BY <2>12, ListStep DEF V!Next
  <2> QED BY <1>1, <2>1, <2>2, <2>3, <2>4, <2>5, <2>6, <2>7, <2>8, <2>9,
             <2>10, <2>11, <2>12 DEF Step
<1>2. ASSUME NEW b \in Buckets, CreateBucket(b) PROVE UNCHANGED V!vars
  <2>1. States' = States /\ Seen' = Seen
    BY <1>2, StateStays, SeenStays DEF CreateBucket
  <2> QED BY <1>2, <2>1 DEF CreateBucket, V!vars, States, Seen, SeenOf
<1>3. ASSUME Crash PROVE V!Next
  BY <1>3, CrashStep DEF V!Next, InFlight
<1>4. CASE UNCHANGED vars
  <2>1. States' = States /\ Seen' = Seen
    BY <1>4, StateStays, SeenStays DEF vars
  <2> QED BY <1>4, <2>1 DEF vars, V!vars, States, Seen, SeenOf
<1> QED BY <1>1, <1>2, <1>3, <1>4 DEF Next

\* Table and blob directory together behave as the versioned store, for any
\* number of requests, buckets and keys and whatever fails.
THEOREM Implementation == Spec => ImplementsVersionedStore
BY RefinesInit, RefinesStep, Invariance, PTL
   DEF Spec, ImplementsVersionedStore, V!Spec
=============================================================================
