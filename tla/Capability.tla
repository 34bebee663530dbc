------------------------------- MODULE Capability -------------------------------
(***************************************************************************)
(* What signed URLs, API keys and JWTs have in common.  A capability is     *)
(* issued once and lives until it is revoked, which stands for its expiry,  *)
(* its deletion and its consumption alike; it never comes back.  A request  *)
(* is served only if it showed a capability that was alive when it was      *)
(* looked at.  It may be revoked before the request is done.                *)
(* SignedURL and Access implement this.                                     *)
(***************************************************************************)
CONSTANTS Requests, Capabilities

VARIABLES
    live,   \* the capabilities that are good now
    spent,  \* those that never will be again, among them some that never were
    shown,  \* the live capability (none or one) each request was seen with
    used    \* the requests that took effect or were answered with success

vars == <<live, spent, shown, used>>

Init ==
    /\ live \subseteq Capabilities
    /\ spent = {}
    /\ shown = [r \in Requests |-> {}]
    /\ used = {}

\* At most one request is served in a step, and it has shown a capability
Serving == \E r \in Requests : shown[r] # {} /\ used' = used \cup {r}
Quiet == UNCHANGED used

\* A request that is served may issue or revoke a capability
Issue ==
    /\ \E c \in live' : c \in Capabilities \ (live \cup spent) /\ live' = live \cup {c}
    /\ Serving \/ Quiet
    /\ UNCHANGED <<spent, shown>>

\* Any number of them, which need not have been issued
Revoke ==
    /\ spent' # spent /\ spent \subseteq spent'
    /\ spent' \subseteq Capabilities
    /\ live' = live \ spent'
    /\ Serving \/ Quiet
    /\ UNCHANGED shown

\* Some requests are decided on in the step that looks at the capability
Present(r) ==
    /\ shown[r] # shown'[r] /\ shown[r] = {}
    /\ \E c \in live : shown' = [shown EXCEPT ![r] = {c}]
    /\ used' \in {used, used \cup {r}}
    /\ UNCHANGED <<live, spent>>

Use == used' # used /\ Serving /\ UNCHANGED <<live, spent, shown>>

Next ==
    \/ Issue
    \/ Revoke
    \/ \E r \in Requests : Present(r)
    \/ Use

Spec == Init /\ [][Next]_vars
=============================================================================
