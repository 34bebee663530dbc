------------------------------- MODULE Durability -------------------------------
(***************************************************************************)
(* The object store on a machine that may lose its power.  Save closes the  *)
(* file that it has written and does not sync it, nor its directory: for a  *)
(* while the bytes are in the page cache only, whereas Postgres has made    *)
(* the row durable when it acknowledges the commit.  The variables of       *)
(* ObjectStore are what the processes see; here is what the device holds.   *)
(***************************************************************************)
EXTENDS ObjectStore

VARIABLES
    device,     \* the content of each path that has reached the device
    lost        \* history: paths whose last change a power failure undid

durabilityVars == <<vars, device, lost>>

DurabilityTypeOK ==
    /\ TypeOK
    /\ device \in [Requests -> Content]
    /\ lost \subseteq Requests

DurabilityInit ==
    /\ Init
    /\ device = [p \in Requests |-> NoFile]
    /\ lost = {}

\* The kernel writes a file, or a part of it, or its removal, when it likes
Writeback(p) ==
    /\ device[p] # files[p]
    /\ \E content \in {files[p]} \cup (IF files[p] = NoFile THEN {} ELSE {Partial}) :
          device' = [device EXCEPT ![p] = content]
    /\ UNCHANGED <<vars, lost>>

\* Everything but the device and the database is gone
PowerLoss ==
    /\ files' = device
    /\ lost' = lost \cup {p \in Requests : device[p] # files[p]}
    /\ resp' = [r \in Requests |-> IF r \in InFlight THEN "dropped" ELSE resp[r]]
    /\ UNCHANGED <<buckets, objects, req, pc, found, served, history, device>>

DurabilityNext ==
    \/ Next /\ UNCHANGED <<device, lost>>
    \/ \E p \in Requests : Writeback(p)
    \/ PowerLoss

DurabilitySpec == DurabilityInit /\ [][DurabilityNext]_durabilityVars

-----------------------------------------------------------------------------
(* Properties.                                                              *)

\* A row without its bytes, which no request is about to remove, was either
\* left so by a delete that was stopped or lost them in a power failure, before
\* the kernel had written them: one that had reached the device survives any
\* number of failures, whatever the requests in flight were doing.
DamageExplained ==
    \A o \in objects :
        \/ files[o.path] = o.checksum
        \/ o.path \in lost
        \/ DeleteWindow(o)
        \/ UnackedUpsert(o)

\* Neither size nor checksum is compared when an object is read, so a file that
\* a power failure cut short is served with 200 like any other.  Only such a
\* file is: of every other a download is sent the bytes of the row, all of them
\* unless a read fails under way.
ServedUnlessLost ==
    \A r \in Requests :
        resp[r] = "200" /\ req[r].op = "get" =>
            /\ \E o \in found[r] : served[r].bytes = o.checksum \/ o.path \in lost
            /\ served[r].whole \/ MayFail("fs")

\* A delete answered 204 is final for the row.  The blob may come back with a
\* power failure, and is then a leak that nobody can download.
DeletedRowsStayDeleted ==
    \A d \in Requests : resp[d] = "204" =>
        \A o \in found[d] :
            /\ o \notin objects
            /\ files[o.path] = NoFile \/ o.path \in lost

Referenced(p) == \E o \in objects : o.path = p

\* A request stopped where it stands, by a crash or by a failed file call
Stopped(r) == resp[r] = "dropped" \/ (resp[r] # "pending" /\ MayFail("fs"))

\* The upload that owns path p is between its first byte and its commit, or
\* was stopped there, or was told that the commit failed
Uncommitted(p) ==
    /\ \/ pc[p] \in {"CopyBody", "FindExisting", "Upsert"} /\ p \notin committed
       \/ pc[p] = "Cleanup"
    /\ resp[p] = "pending" \/ Stopped(p)

\* Upload u displaced p's row and does not remove its blob: it had not seen the
\* row before its Upsert (a second writer came in between, or the look-up
\* failed), or has yet to remove it, or was stopped before it could, or was
\* told that its commit failed
Superseded(p) ==
    \E u \in committed : \E o \in replaced[u] :
        /\ o.path = p
        /\ \/ o \notin found[u]
           \/ pc[u] = "DropOld" /\ (resp[u] = "pending" \/ Stopped(u))
           \/ pc[u] = "Cleanup"

\* A blob without a row was left by an upload that was stopped or told that its
\* commit failed, by one that displaced a version it had not seen, or by a power
\* failure that undid its removal.  Nothing leaks without faults and with one
\* writer to a key at a time.
OrphansExplained ==
    \A p \in Requests :
        files[p] # NoFile =>
            Referenced(p) \/ Uncommitted(p) \/ Superseded(p) \/ p \in lost
=============================================================================
