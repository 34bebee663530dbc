----------------------------- MODULE VersionedStore -----------------------------
(***************************************************************************)
(* What the object service promises to its clients: a map from keys to      *)
(* versions, changed in one atomic step by each request.  There is neither  *)
(* a table nor a file here.  The version an upload creates is named by the  *)
(* upload.                                                                  *)
(***************************************************************************)
CONSTANTS Requests, Buckets, Keys, Faults, NoVersion

VARIABLES
    want,       \* what each request asks for
    current,    \* the versions that are the current one of their key
    seen,       \* the versions a get, delete or list has been shown
    state,      \* open, committed, done or failed
    answer      \* the version whose bytes, all or the first of them, a get was sent

vars == <<want, current, seen, state, answer>>

Init ==
    /\ want \in [Requests -> [op : {"put", "get", "delete", "list"},
                              bucket : Buckets, key : Keys]]
    /\ current = {}
    /\ seen = [r \in Requests |-> {}]
    /\ state = [r \in Requests |-> "open"]
    /\ answer = [r \in Requests |-> NoVersion]

Become(r, s) == state' = [state EXCEPT ![r] = s]

SameKey(r, v) ==
    want[v].bucket = want[r].bucket /\ want[v].key = want[r].key

\* The current version of r's key: none or one
Current(r) == {v \in current : SameKey(r, v)}

-----------------------------------------------------------------------------
\* A put makes its version the current one, once, and is answered then or later
Commit(r) ==
    /\ want[r].op = "put" /\ state[r] = "open"
    /\ current' = (current \ Current(r)) \cup {r}
    /\ Become(r, "committed") \/ Become(r, "done")
    /\ UNCHANGED <<want, seen, answer>>

Succeed(r) ==
    /\ state[r] = "committed"
    /\ Become(r, "done")
    /\ UNCHANGED <<want, current, seen, answer>>

\* A get or a delete is shown the current version, if there is one, once
Look(r) ==
    /\ want[r].op \in {"get", "delete"} /\ state[r] = "open" /\ seen[r] = {}
    /\ Current(r) # {}
    /\ seen' = [seen EXCEPT ![r] = Current(r)]
    /\ UNCHANGED <<want, current, state, answer>>

Serve(r) ==
    /\ want[r].op = "get" /\ state[r] = "open"
    /\ \E v \in seen[r] : answer' = [answer EXCEPT ![r] = v]
    /\ Become(r, "done")
    /\ UNCHANGED <<want, current, seen>>

\* A delete takes away the version it was shown, and no other
Remove(r) ==
    /\ want[r].op = "delete" /\ state[r] = "open" /\ seen[r] # {}
    /\ current' = current \ seen[r]
    /\ Become(r, "done") \/ ("ack" \in Faults /\ Become(r, "failed"))
    /\ UNCHANGED <<want, seen, answer>>

\* A list is shown the current versions of one bucket at one moment; with
\* "db" it may silently be shown only some of them
List(r) ==
    LET all == {v \in current : want[v].bucket = want[r].bucket} IN
    /\ want[r].op = "list" /\ state[r] = "open"
    /\ \E part \in SUBSET all :
          /\ part = all \/ "db" \in Faults
          /\ seen' = [seen EXCEPT ![r] = part]
    /\ Become(r, "done")
    /\ UNCHANGED <<want, current, answer>>

\* Any request may fail without effect, at any time; a put that took effect
\* may be answered as failed only with "ack"
Fail(r) ==
    /\ state[r] = "open" \/ (state[r] = "committed" /\ "ack" \in Faults)
    /\ Become(r, "failed")
    /\ UNCHANGED <<want, current, seen, answer>>

\* A crash cuts off any of the unfinished requests, whatever they have done
Cut(S) ==
    /\ "crash" \in Faults
    /\ \A r \in S : state[r] \in {"open", "committed"}
    /\ state' = [r \in Requests |-> IF r \in S THEN "failed" ELSE state[r]]
    /\ UNCHANGED <<want, current, seen, answer>>

Next ==
    \/ \E r \in Requests :
          \/ Commit(r) \/ Succeed(r) \/ Look(r) \/ Serve(r)
          \/ Remove(r) \/ List(r) \/ Fail(r)
    \/ \E S \in SUBSET Requests : Cut(S)

Spec == Init /\ [][Next]_vars
=============================================================================
