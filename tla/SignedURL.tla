------------------------------- MODULE SignedURL -------------------------------
(***************************************************************************)
(* Signed URLs: the signed_urls table, the clock, the requests that carry a *)
(* ?token= and the part of the ObjectAccess middleware that validates the   *)
(* token before the object handler runs and consumes it afterwards.  What   *)
(* the object handler does is taken from VersionedStore, which ObjectStore  *)
(* implements: an upload takes effect in one step or not at all.            *)
(***************************************************************************)
EXTENDS Integers, FiniteSets

CONSTANTS
    Requests,   \* requests that carry a token, each of which runs once
    Tokens,     \* the tokens rand.Read may draw, each drawn once
    Targets,    \* (bucket, object key) pairs
    Lifetimes,  \* the durations a client may ask for, negative ones included
    OneHour,    \* the lifetime when expires_in does not parse
    MaxTime,    \* bound on the clock
    Faults      \* a subset of FaultKinds

\* db: a statement fails without effect (or its context was cancelled first)
\* ack: the upload commits but is reported as failed    crash: the process dies
FaultKinds == {"db", "ack", "crash"}

ASSUME SignedFaultsAssumption == Faults \subseteq FaultKinds
ASSUME TimesAssumption ==
    Lifetimes \subseteq Int /\ OneHour \in Nat /\ MaxTime \in Nat

VARIABLES
    now,        \* the server's clock
    drawn,      \* tokens that Sign has drawn
    table,      \* signed_urls: a set of rows
    req,        \* what each request carries
    pc,         \* where each request is
    held,       \* the row FindByToken gave a request (none or one)
    resp,       \* the status answered, or pending, or dropped by a crash
    uploads,    \* history: requests whose upload took effect
    arrived,    \* history: the time of each request's look-up
    consumed,   \* history: requests whose Consume took effect
    doneBefore  \* history: the requests over when a request was looked up

vars == <<now, drawn, table, req, pc, held, resp, uploads, arrived, consumed,
          doneBefore>>
history == <<uploads, arrived, consumed, doneBefore>>

Operations == {"upload", "download"}
Methods == {"PUT", "GET", "DELETE", "POST"}
SignedRow == [token : Tokens, target : Targets, operation : Operations,
              expires : Int]
Carried == [token : Tokens, target : Targets, method : Methods]
Steps == {"FindToken", "CheckToken", "Handle", "Consume", "Done"}
Statuses == {"pending", "dropped", "200", "201", "204", "400", "401", "403",
             "404", "500"}

TypeOK ==
    /\ now \in 0..MaxTime
    /\ drawn \subseteq Tokens
    /\ table \subseteq SignedRow
    /\ req \in [Requests -> Carried]
    /\ pc \in [Requests -> Steps]
    /\ held \in [Requests -> SUBSET SignedRow]
    /\ resp \in [Requests -> Statuses]
    /\ uploads \subseteq Requests
    /\ arrived \in [Requests -> 0..MaxTime]
    /\ consumed \subseteq Requests
    /\ doneBefore \in [Requests -> SUBSET Requests]

Init ==
    /\ now = 0
    /\ drawn = {}
    /\ table = {}
    /\ req \in [Requests -> Carried]
    /\ pc = [r \in Requests |-> "FindToken"]
    /\ held = [r \in Requests |-> {}]
    /\ resp = [r \in Requests |-> "pending"]
    /\ uploads = {}
    /\ arrived = [r \in Requests |-> 0]
    /\ consumed = {}
    /\ doneBefore = [r \in Requests |-> {}]

Goto(r, step) == pc' = [pc EXCEPT ![r] = step]
Status(r, status) == resp' = [resp EXCEPT ![r] = status]
Refuse(r, status) == Goto(r, "Done") /\ Status(r, status)
MayFail(fault) == fault \in Faults

-----------------------------------------------------------------------------
Tick ==
    /\ now < MaxTime
    /\ now' = now + 1
    /\ UNCHANGED <<drawn, table, req, pc, held, resp, history>>

\* POST .../sign, by whoever is let in: an account, a key, or a request whose own
\* token is a download token for the path "<key>/sign".  In the latter case this
\* is the INSERT, and Handle gives the answer.

\* The body: any duration, an hour when it does not parse
AskedLives == Lifetimes \cup {OneHour}

\* mutant: the row stores the method of the URL, not the operation
SignStoringMethod(t) ==
    /\ t \notin drawn
    /\ drawn' = drawn \cup {t}
    /\ \E x \in Targets, m \in Methods, life \in AskedLives :
          table' = table \cup {[token |-> t, target |-> x, operation |-> m,
                                expires |-> now + life]}
    /\ UNCHANGED <<now, req, pc, held, resp, history>>

\* The expiry is fixed before the INSERT, of which the caller learns the outcome
Sign(t) ==
    /\ t \notin drawn
    /\ drawn' = drawn \cup {t}
    /\ \/ \E x \in Targets, op \in Operations, life \in AskedLives :
             table' = table \cup {[token |-> t, target |-> x, operation |-> op,
                                   expires |-> now + life]}
       \/ MayFail("db") /\ UNCHANGED table
    /\ UNCHANGED <<now, req, pc, held, resp, history>>

-----------------------------------------------------------------------------
(* ObjectAccess with a token.                                               *)

\* Any error of the look-up is ErrTokenNotFound, answered 401
FindToken(r) ==
    LET rows == {s \in table : s.token = req[r].token} IN
    /\ pc[r] = "FindToken"
    /\ \/ /\ rows # {}
          /\ held' = [held EXCEPT ![r] = rows]
          /\ Goto(r, "CheckToken")
          /\ UNCHANGED resp
       \/ /\ rows = {} \/ MayFail("db")
          /\ Refuse(r, "401")
          /\ UNCHANGED held
    /\ arrived' = [arrived EXCEPT ![r] = now]
    /\ doneBefore' = [doneBefore EXCEPT ![r] = {q \in Requests : pc[q] = "Done"}]
    /\ UNCHANGED <<now, drawn, table, req, uploads, consumed>>

\* Every method but PUT asks for the "download" operation: also POST .../sign
TokenOperation(r) == IF req[r].method = "PUT" THEN "upload" ELSE "download"

\* mutant: the clock is not looked at
NeverExpired(s) == FALSE

\* time.Now().UTC().After(su.ExpiresAt)
Expired(s) == now > s.expires

\* The rest of Validate, which reads the clock after the row
CheckToken(r) ==
    /\ pc[r] = "CheckToken"
    /\ \E s \in held[r] :
         \/ Expired(s) /\ Refuse(r, "401")
         \/ /\ ~Expired(s)
            /\ s.operation # TokenOperation(r) \/ s.target # req[r].target
            /\ Refuse(r, "403")
         \/ /\ ~Expired(s)
            /\ s.operation = TokenOperation(r)
            /\ s.target = req[r].target
            /\ Goto(r, "Handle")
            /\ UNCHANGED resp
    /\ UNCHANGED <<now, drawn, table, req, held, history>>

\* mutant: a failed upload uses the token up as well
HandlePutConsumingAlways(r) ==
    \/ uploads' = uploads \cup {r} /\ Goto(r, "Consume") /\ Status(r, "201")
    \/ /\ UNCHANGED uploads
       /\ \E status \in {"400", "500"} : Goto(r, "Consume") /\ Status(r, status)

\* UploadObject wrote its status: below 300 the token is to be consumed
HandlePut(r) ==
    \/ uploads' = uploads \cup {r} /\ Goto(r, "Consume") /\ Status(r, "201")
    \/ /\ UNCHANGED uploads \/ (MayFail("ack") /\ uploads' = uploads \cup {r})
       /\ \E status \in {"400", "500"} : Refuse(r, status)

HandleOther(r) ==
    /\ \E status \in {"200", "204", "400", "404", "500"} : Refuse(r, status)
    /\ UNCHANGED uploads

Handle(r) ==
    /\ pc[r] = "Handle"
    /\ \/ req[r].method = "PUT" /\ HandlePut(r)
       \/ req[r].method # "PUT" /\ HandleOther(r)
    /\ UNCHANGED <<now, drawn, table, req, held, arrived, consumed, doneBefore>>

\* mutant: the token is not deleted
ConsumeNothing(r) ==
    /\ pc[r] = "Consume"
    /\ consumed' = consumed \cup {r}
    /\ Goto(r, "Done")
    /\ UNCHANGED <<now, drawn, table, req, held, resp, uploads, arrived,
                   doneBefore>>

\* DELETE FROM signed_urls WHERE id = $1; its error is dropped.  The 201 has
\* been written already, so a client that hangs up cancels this statement.
Consume(r) ==
    /\ pc[r] = "Consume"
    /\ \/ table' = table \ held[r] /\ consumed' = consumed \cup {r}
       \/ MayFail("db") /\ UNCHANGED <<table, consumed>>
    /\ Goto(r, "Done")
    /\ UNCHANGED <<now, drawn, req, held, resp, uploads, arrived, doneBefore>>

InFlight == {r \in Requests : pc[r] \notin {"FindToken", "Done"}}

Crash ==
    /\ MayFail("crash")
    /\ InFlight # {}
    /\ pc' = [r \in Requests |-> IF r \in InFlight THEN "Done" ELSE pc[r]]
    /\ resp' = [r \in Requests |->
                   IF r \in InFlight /\ resp[r] = "pending" THEN "dropped" ELSE resp[r]]
    /\ UNCHANGED <<now, drawn, table, req, held, history>>

Step(r) == FindToken(r) \/ CheckToken(r) \/ Handle(r) \/ Consume(r)

Next ==
    \/ Tick
    \/ \E t \in Tokens : Sign(t)
    \/ \E r \in Requests : Step(r)
    \/ Crash

Spec == Init /\ [][Next]_vars

\* A request that was let in goes on: its goroutine is scheduled
Fairness == \A r \in Requests : WF_vars(Step(r))
FairSpec == Spec /\ Fairness

-----------------------------------------------------------------------------
(* A token is a capability: alive while its row is there and has not expired. *)

Alive == {s.token : s \in {row \in table : now <= row.expires}}
Succeeded == {r \in Requests : resp[r] \in {"200", "201", "204"}}

C == INSTANCE Capability WITH
        Capabilities <- Tokens,
        live <- Alive,
        spent <- drawn \ Alive,
        shown <- [r \in Requests |->
                     {s.token : s \in {row \in held[r] : arrived[r] <= row.expires}}],
        used <- uploads \cup Succeeded

\* Tokens are capabilities: each is issued once, a token that expired or was
\* consumed never becomes good again, and whoever is served had a good one when
\* it was looked up, though a token is checked in two steps and used in others.
ImplementsCapability == C!Spec

-----------------------------------------------------------------------------
(* Properties.                                                              *)

\* Two uploads with one token take effect only if their requests overlapped:
\* when the second was looked up, the first had yet to delete the row.  A first
\* upload that was over by then must have failed to delete it.
ReuseNeedsOverlap ==
    \A r, q \in uploads :
        req[r].token = req[q].token /\ r \in doneBefore[q] =>
            r \notin consumed /\ Faults # {}

\* A row leaves the table only behind an upload that was answered 201 with its
\* token: a refused or failed upload leaves the token good for a retry, and a
\* download token is good until it expires.
OnlyUploadsConsume ==
    [][\A s \in table \ table' :
          /\ s.operation = "upload"
          /\ \E r \in uploads : req[r].token = s.token /\ resp[r] = "201"]_vars

\* No request that arrives after the expiry of its token is let in, although
\* the row is read before the clock and rows outlive their expiry.
NoLateArrival ==
    \A r \in Requests : resp[r] \in {"200", "201", "204"} \/ r \in uploads =>
        \E s \in held[r] : arrived[r] <= s.expires

\* The token of an upload that was answered 201 is eventually gone from the
\* table, unless that request is over and its DELETE did not take effect: then
\* nothing ever removes the row, which no job cleans up.
TokenEventuallyGone ==
    \A r \in Requests :
        resp[r] = "201" ~>
            \/ ~(\E s \in table : s.token = req[r].token)
            \/ pc[r] = "Done" /\ r \notin consumed

\* "One-time use, deleted after upload" (signed_urls_plan.md:8)
OneTimeUse ==
    \A r, q \in uploads : req[r].token = req[q].token => r = q
=============================================================================
