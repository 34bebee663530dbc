---------------------------- MODULE SignedURL_proofs ----------------------------
(***************************************************************************)
(* For any requests, tokens, targets, lifetimes and faults, and a clock     *)
(* with any bound: late requests are refused, a token is used twice only by *)
(* uploads that overlap or after a failed DELETE, only uploads use one up,  *)
(* and tokens are capabilities; without faults, uploads in turn use a token *)
(* once.                                                                    *)
(***************************************************************************)
EXTENDS SignedURL, TLAPS

-----------------------------------------------------------------------------
(* The inductive invariant.                                                 *)

\* A token is drawn once, for one row
RowsAreDrawn ==
    /\ \A s \in table : s.token \in drawn
    /\ \A s, t \in table : s.token = t.token => s = t
    /\ \A r \in Requests : \A s \in held[r] :
          s.token = req[r].token /\ s.token \in drawn
    /\ \A r \in Requests : \A s \in held[r], t \in table : s.token = t.token => s = t
    /\ \A r \in Requests : \A s, t \in held[r] : s = t

\* How far a request is when it has a row, an answer or an effect
Stages ==
    \A r \in Requests :
        /\ pc[r] = "FindToken" => held[r] = {}
        /\ pc[r] \in {"FindToken", "CheckToken", "Handle"} =>
              resp[r] = "pending" /\ r \notin uploads
        /\ pc[r] = "Consume" => resp[r] = "201" /\ r \in uploads /\ req[r].method = "PUT"
        /\ r \in consumed => pc[r] = "Done" /\ r \in uploads
        /\ pc[r] # "FindToken" => arrived[r] <= now

\* Whoever got past Validate holds a row for what it asks that was good when it
\* was looked up
LetIn ==
    \A r \in Requests :
        \/ pc[r] \in {"Handle", "Consume"}
        \/ resp[r] \in {"200", "201", "204"}
        \/ r \in uploads
        => \E s \in held[r] : arrived[r] <= s.expires /\ s.operation = TokenOperation(r)

\* A row whose DELETE took effect is in the table no more
ConsumedGone == \A r \in consumed : \A s \in table : s.token # req[r].token

\* What was over when a request was looked up had not used its token up
OverBefore ==
    \A q \in Requests : \A r \in doneBefore[q] :
        /\ pc[r] = "Done"
        /\ r \in consumed => \A s \in held[q] : s.token # req[r].token

\* An upload is over without its DELETE only after a fault
DeletedOrFailed ==
    \A r \in uploads : pc[r] = "Done" => r \in consumed \/ Faults # {}

IInv ==
    /\ TypeOK /\ RowsAreDrawn /\ Stages /\ LetIn
    /\ ConsumedGone /\ OverBefore /\ DeletedOrFailed

-----------------------------------------------------------------------------
LEMMA InitIInv == Init => IInv
<1> SUFFICES ASSUME Init PROVE IInv
  OBVIOUS
<1> USE TimesAssumption DEF Init
<1>1. TypeOK
  BY DEF TypeOK, Steps, Statuses
<1>2. RowsAreDrawn /\ Stages /\ LetIn
  BY DEF RowsAreDrawn, Stages, LetIn
<1>3. ConsumedGone /\ OverBefore /\ DeletedOrFailed
  BY DEF ConsumedGone, OverBefore, DeletedOrFailed
<1> QED
  BY <1>1, <1>2, <1>3 DEF IInv

-----------------------------------------------------------------------------
(* Each part is kept by every step.                                         *)

\* What Sign draws is new, so its row is the only one with its token
LEMMA TypeStep ==
    ASSUME TypeOK, RowsAreDrawn, [Next]_vars
    PROVE  TypeOK'
<1> USE TimesAssumption DEF TypeOK, Steps, Statuses, Goto, Status, Refuse, history
<1>1. CASE UNCHANGED vars
  BY <1>1 DEF vars
<1>2. CASE Tick
  BY <1>2 DEF Tick
<1>3. ASSUME NEW t \in Tokens, Sign(t)
      PROVE  TypeOK'
  <2>1. ASSUME NEW x \in Targets, NEW op \in Operations, NEW life \in AskedLives
        PROVE  [token |-> t, target |-> x, operation |-> op,
                expires |-> now + life] \in SignedRow
    <3>1. now + life \in Int
      BY DEF AskedLives
    <3> QED
      BY <3>1 DEF SignedRow
  <2> QED
    BY <1>3, <2>1 DEF Sign
<1>4. ASSUME NEW r \in Requests, FindToken(r)
      PROVE  TypeOK'
  BY <1>4 DEF FindToken
<1>5. ASSUME NEW r \in Requests, CheckToken(r)
      PROVE  TypeOK'
  BY <1>5 DEF CheckToken
<1>6. ASSUME NEW r \in Requests, Handle(r)
      PROVE  TypeOK'
  BY <1>6 DEF Handle, HandlePut, HandleOther
<1>7. ASSUME NEW r \in Requests, Consume(r)
      PROVE  TypeOK'
  BY <1>7 DEF Consume
<1>8. CASE Crash
  BY <1>8 DEF Crash
<1> QED
  BY <1>1, <1>2, <1>3, <1>4, <1>5, <1>6, <1>7, <1>8 DEF Next, Step

LEMMA RowsStep ==
    ASSUME TypeOK, RowsAreDrawn, [Next]_vars
    PROVE  RowsAreDrawn'
<1> USE DEF RowsAreDrawn, Goto, Status, Refuse, history
<1>1. CASE UNCHANGED vars
  BY <1>1 DEF vars
<1>2. CASE Tick \/ Crash
  BY <1>2 DEF Tick, Crash
<1>3. ASSUME NEW t \in Tokens, Sign(t)
      PROVE  RowsAreDrawn'
  <2>1. CASE UNCHANGED table
    BY <1>3, <2>1 DEF Sign
  <2>2. ASSUME NEW s, s.token = t, table' = table \cup {s}
        PROVE  RowsAreDrawn'
    BY <1>3, <2>2 DEF Sign
  <2>3. ASSUME NEW x \in Targets, NEW op \in Operations, NEW life \in AskedLives,
               table' = table \cup {[token |-> t, target |-> x, operation |-> op,
                                     expires |-> now + life]}
        PROVE  RowsAreDrawn'
    BY <2>2, <2>3
  <2> QED
    BY <1>3, <2>1, <2>3 DEF Sign
<1>4. ASSUME NEW r \in Requests, FindToken(r)
      PROVE  RowsAreDrawn'
  BY <1>4 DEF FindToken, TypeOK
<1>5. ASSUME NEW r \in Requests, CheckToken(r) \/ Handle(r) \/ Consume(r)
      PROVE  RowsAreDrawn'
  BY <1>5 DEF CheckToken, Handle, Consume
<1> QED
  BY <1>1, <1>2, <1>3, <1>4, <1>5 DEF Next, Step

LEMMA StagesStep ==
    ASSUME TypeOK, Stages, [Next]_vars
    PROVE  Stages'
<1> USE TimesAssumption DEF TypeOK, Stages, Goto, Status, Refuse, history
<1>1. CASE UNCHANGED vars
  BY <1>1 DEF vars
<1>2. CASE Tick
  BY <1>2 DEF Tick
<1>3. ASSUME NEW t \in Tokens, Sign(t)
      PROVE  Stages'
  BY <1>3 DEF Sign
<1>4. ASSUME NEW r \in Requests, FindToken(r)
      PROVE  Stages'
  BY <1>4 DEF FindToken
<1>5. ASSUME NEW r \in Requests, CheckToken(r)
      PROVE  Stages'
  BY <1>5 DEF CheckToken
<1>6. ASSUME NEW r \in Requests, Handle(r)
      PROVE  Stages'
  BY <1>6 DEF Handle, HandlePut, HandleOther
<1>7. ASSUME NEW r \in Requests, Consume(r)
      PROVE  Stages'
  BY <1>7 DEF Consume
<1>8. CASE Crash
  BY <1>8 DEF Crash, InFlight, Steps
<1> QED
  BY <1>1, <1>2, <1>3, <1>4, <1>5, <1>6, <1>7, <1>8 DEF Next, Step

\* The clock is read after the row was, so a row that has not expired then had
\* not expired before
LEMMA LetInStep ==
    ASSUME TypeOK, Stages, LetIn, [Next]_vars
    PROVE  LetIn'
<1> USE TimesAssumption DEF LetIn, TokenOperation, Goto, Status, Refuse, history
<1>1. CASE UNCHANGED vars
  BY <1>1 DEF vars
<1>2. CASE Tick \/ Crash
  BY <1>2 DEF Tick, Crash, TypeOK
<1>3. ASSUME NEW t \in Tokens, Sign(t)
      PROVE  LetIn'
  BY <1>3 DEF Sign
<1>4. ASSUME NEW r \in Requests, FindToken(r)
      PROVE  LetIn'
  BY <1>4 DEF FindToken, TypeOK, Stages
<1>5. ASSUME NEW r \in Requests, CheckToken(r)
      PROVE  LetIn'
  <2>1. ASSUME NEW s \in held[r], ~Expired(s)
        PROVE  arrived[r] <= s.expires
    <3>1. s.expires \in Int /\ now \in Int /\ arrived[r] \in Int
      BY DEF TypeOK, SignedRow
    <3>2. arrived[r] <= now
      BY <1>5 DEF CheckToken, Stages
    <3> QED
      BY <2>1, <3>1, <3>2 DEF Expired
  <2> QED
    BY <1>5, <2>1 DEF CheckToken, TypeOK
<1>6. ASSUME NEW r \in Requests, Handle(r)
      PROVE  LetIn'
  BY <1>6 DEF Handle, HandlePut, HandleOther, TypeOK
<1>7. ASSUME NEW r \in Requests, Consume(r)
      PROVE  LetIn'
  BY <1>7 DEF Consume, TypeOK
<1> QED
  BY <1>1, <1>2, <1>3, <1>4, <1>5, <1>6, <1>7 DEF Next, Step

LEMMA ConsumedStep ==
    ASSUME TypeOK, RowsAreDrawn, Stages, LetIn, ConsumedGone, OverBefore, [Next]_vars
    PROVE  (ConsumedGone /\ OverBefore)'
<1> DEFINE Parts == ConsumedGone /\ OverBefore
<1> USE DEF ConsumedGone, OverBefore, Goto, Status, Refuse, history
<1>1. CASE UNCHANGED vars
  BY <1>1 DEF vars
<1>2. CASE Tick \/ Crash
  BY <1>2 DEF Tick, Crash, InFlight, TypeOK
<1>3. ASSUME NEW t \in Tokens, Sign(t)
      PROVE  Parts'
  <2>1. ASSUME NEW r \in consumed PROVE req[r].token # t
    BY <1>3, <2>1 DEF Sign, RowsAreDrawn, LetIn, Stages, TypeOK
  <2>2. ASSUME NEW s \in table' PROVE s \in table \/ s.token = t
    BY <1>3, <2>2 DEF Sign
  <2> QED
    BY <1>3, <2>1, <2>2 DEF Sign
<1>4. ASSUME NEW r \in Requests, FindToken(r)
      PROVE  Parts'
  <2>1. UNCHANGED <<table, req, consumed>>
    BY <1>4 DEF FindToken
  <2>2. ASSUME NEW q \in Requests, NEW p \in doneBefore'[q]
        PROVE  /\ pc'[p] = "Done"
               /\ p \in consumed' => \A s \in held'[q] : s.token # req'[p].token
    <3>1. pc[p] = "Done"
      BY <1>4, <2>2 DEF FindToken, TypeOK
    <3>2. pc'[p] = "Done"
      BY <1>4, <3>1 DEF FindToken, TypeOK
    <3>3. CASE q = r
      <4>1. \A s \in held'[q] : s \in table \/ s \in held[q]
        BY <1>4, <3>3 DEF FindToken, TypeOK
      <4>2. held[q] = {}
        BY <1>4, <3>3 DEF FindToken, Stages
      <4> QED
        BY <2>1, <3>2, <4>1, <4>2
    <3>4. CASE q # r
      BY <1>4, <2>1, <2>2, <3>2, <3>4 DEF FindToken, TypeOK
    <3> QED
      BY <3>3, <3>4
  <2> QED
    BY <2>1, <2>2
<1>5. ASSUME NEW r \in Requests, CheckToken(r)
      PROVE  Parts'
  BY <1>5 DEF CheckToken, TypeOK
<1>6. ASSUME NEW r \in Requests, Handle(r)
      PROVE  Parts'
  BY <1>6 DEF Handle, HandlePut, HandleOther, TypeOK
<1>7. ASSUME NEW r \in Requests, Consume(r)
      PROVE  Parts'
  <2>1. table' \subseteq table /\ UNCHANGED <<req, held, doneBefore>>
    BY <1>7 DEF Consume
  <2>2. r \in consumed' => \A s \in table' : s.token # req[r].token
    <3>1. PICK h \in held[r] : h.token = req[r].token
      BY <1>7 DEF Consume, LetIn, RowsAreDrawn
    <3>2. r \notin consumed
      BY <1>7 DEF Consume, Stages
    <3> QED
      BY <1>7, <3>1, <3>2 DEF Consume, RowsAreDrawn
  <2>3. ASSUME NEW q \in Requests, NEW p \in doneBefore[q]
        PROVE  p # r /\ pc'[p] = "Done"
    BY <1>7, <2>3 DEF Consume, TypeOK
  <2> QED
    BY <1>7, <2>1, <2>2, <2>3 DEF Consume
<1> QED
  BY <1>1, <1>2, <1>3, <1>4, <1>5, <1>6, <1>7 DEF Next, Step

LEMMA DeletedStep ==
    ASSUME TypeOK, Stages, DeletedOrFailed, [Next]_vars
    PROVE  DeletedOrFailed'
<1> USE DEF DeletedOrFailed, MayFail, Goto, Status, Refuse, history
<1>1. CASE UNCHANGED vars
  BY <1>1 DEF vars
<1>2. CASE Tick \/ Crash
  BY <1>2 DEF Tick, Crash
<1>3. ASSUME NEW t \in Tokens, Sign(t)
      PROVE  DeletedOrFailed'
  BY <1>3 DEF Sign
<1>4. ASSUME NEW r \in Requests, FindToken(r) \/ CheckToken(r)
      PROVE  DeletedOrFailed'
  BY <1>4 DEF FindToken, CheckToken, TypeOK, Stages
<1>5. ASSUME NEW r \in Requests, Handle(r)
      PROVE  DeletedOrFailed'
  BY <1>5 DEF Handle, HandlePut, HandleOther, TypeOK, Stages
<1>6. ASSUME NEW r \in Requests, Consume(r)
      PROVE  DeletedOrFailed'
  BY <1>6 DEF Consume, TypeOK
<1> QED
  BY <1>1, <1>2, <1>3, <1>4, <1>5, <1>6 DEF Next, Step

LEMMA Inductive == IInv /\ [Next]_vars => IInv'
BY TypeStep, RowsStep, StagesStep, LetInStep, ConsumedStep, DeletedStep DEF IInv

LEMMA InductiveInvariant == Spec => []IInv
BY InitIInv, Inductive, PTL DEF Spec

-----------------------------------------------------------------------------
(* What the invariant says.                                                 *)

\* Every variable keeps its type, for any lifetimes, also negative ones.
THEOREM TypeCorrect == Spec => []TypeOK
<1>1. IInv => TypeOK
  BY DEF IInv
<1> QED
  BY <1>1, InductiveInvariant, PTL

\* ObjectAccess lets nobody in with a token that had expired when it was looked
\* up.
THEOREM LateIsRefused == Spec => []NoLateArrival
<1>1. IInv => NoLateArrival
  BY DEF IInv, LetIn, NoLateArrival, Stages
<1> QED
  BY <1>1, InductiveInvariant, PTL

\* Two uploads with one token overlapped, or Consume failed.
THEOREM ReuseIsExplained == Spec => []ReuseNeedsOverlap
<1>1. IInv => ReuseNeedsOverlap
  <2> SUFFICES ASSUME IInv,
                      NEW r \in uploads, NEW q \in uploads,
                      req[r].token = req[q].token, r \in doneBefore[q]
               PROVE  r \notin consumed /\ Faults # {}
    BY DEF ReuseNeedsOverlap
  <2>1. r \in Requests /\ q \in Requests
    BY DEF IInv, TypeOK
  <2>2. PICK h \in held[q] : h.token = req[q].token
    BY <2>1 DEF IInv, LetIn, RowsAreDrawn
  <2>3. pc[r] = "Done" /\ r \notin consumed
    BY <2>1, <2>2 DEF IInv, OverBefore
  <2> QED
    BY <2>3 DEF IInv, DeletedOrFailed
<1> QED
  BY <1>1, InductiveInvariant, PTL

\* Only Consume deletes, and only behind an upload that was answered 201.
THEOREM TokensLast == Spec => OnlyUploadsConsume
<1> DEFINE OnlyUploads ==
       \A s \in table \ table' :
          /\ s.operation = "upload"
          /\ \E r \in uploads : req[r].token = s.token /\ resp[r] = "201"
<1>1. ASSUME IInv, [Next]_vars
      PROVE  OnlyUploads
  <2>1. CASE UNCHANGED vars
    BY <2>1 DEF vars
  <2>2. CASE Tick \/ Crash
    BY <2>2 DEF Tick, Crash
  <2>3. ASSUME NEW t \in Tokens, Sign(t)
        PROVE  OnlyUploads
    BY <2>3 DEF Sign
  <2>4. ASSUME NEW r \in Requests, FindToken(r) \/ CheckToken(r) \/ Handle(r)
        PROVE  OnlyUploads
    BY <2>4 DEF FindToken, CheckToken, Handle
  <2>5. ASSUME NEW r \in Requests, Consume(r), NEW s \in table \ table'
        PROVE  /\ s.operation = "upload"
               /\ \E q \in uploads : req[q].token = s.token /\ resp[q] = "201"
    <3>1. s \in held[r]
      BY <2>5 DEF Consume
    <3>2. /\ s.token = req[r].token
          /\ \A h \in held[r] : h = s
      BY <1>1, <3>1 DEF IInv, RowsAreDrawn
    <3>3. r \in uploads /\ resp[r] = "201" /\ req[r].method = "PUT"
      BY <1>1, <2>5 DEF IInv, Stages, Consume
    <3>4. s.operation = "upload"
      BY <1>1, <3>2, <3>3 DEF IInv, LetIn, TokenOperation
    <3> QED
      BY <3>2, <3>3, <3>4
  <2> QED
    BY <1>1, <2>1, <2>2, <2>3, <2>4, <2>5 DEF Next, Step
<1>2. IInv /\ [Next]_vars => [OnlyUploads]_vars
  BY <1>1
<1> QED
  BY <1>2, InductiveInvariant, PTL DEF Spec, OnlyUploadsConsume

-----------------------------------------------------------------------------
(* Tokens are capabilities.                                                 *)

Shown(r) == {s.token : s \in {row \in held[r] : arrived[r] <= row.expires}}
Spent == drawn \ Alive
Used == uploads \cup Succeeded
mapped == <<Alive, Spent, [r \in Requests |-> Shown(r)], Used>>

\* Whoever is let in has shown a token
LEMMA ServedHaveShown ==
    ASSUME IInv, NEW r \in Requests, pc[r] \in {"Handle", "Consume"}
    PROVE  Shown(r) # {}
<1>1. PICK h \in held[r] : arrived[r] <= h.expires
  BY DEF IInv, LetIn
<1> QED
  BY <1>1 DEF Shown

\* Only a look-up changes what is shown
LEMMA ShownKept ==
    ASSUME UNCHANGED <<held, arrived>>
    PROVE  UNCHANGED [r \in Requests |-> Shown(r)]
BY DEF Shown

\* What is alive is drawn, so tokens only die when the table shrinks or time
\* passes
LEMMA LessAlive ==
    ASSUME IInv, UNCHANGED <<drawn, held, arrived, uploads, resp>>, Alive' \subseteq Alive
    PROVE  C!Revoke \/ UNCHANGED mapped
<1>1. Alive \subseteq drawn /\ drawn \subseteq Tokens
  BY DEF IInv, RowsAreDrawn, Alive, TypeOK
<1>2. UNCHANGED Used
  BY DEF Used, Succeeded
<1>3. CASE Alive' = Alive
  BY <1>2, <1>3, ShownKept DEF mapped, Spent
<1>4. CASE Alive' # Alive
  <2>1. /\ Spent' # Spent /\ Spent \subseteq Spent'
        /\ Spent' \subseteq Tokens
        /\ Alive' = Alive \ Spent'
    BY <1>1, <1>4 DEF Spent
  <2> QED
    BY <1>2, <2>1, ShownKept DEF C!Revoke, C!Quiet, Spent, Used, Shown
<1> QED
  BY <1>3, <1>4

\* Requests that get no further than a refusal do not show in the mapping
LEMMA Unseen ==
    ASSUME UNCHANGED <<now, drawn, table, held, arrived, uploads, Succeeded>>
    PROVE  UNCHANGED mapped
BY ShownKept DEF mapped, Alive, Spent, Used

\* The row of a new token is alive at once, or was signed with a lifetime that
\* is over
LEMMA SignImplements ==
    ASSUME IInv, NEW t \in Tokens, Sign(t)
    PROVE  C!Issue \/ C!Revoke \/ UNCHANGED mapped
<1>1. Alive \subseteq drawn /\ t \notin drawn /\ drawn' = drawn \cup {t}
  BY DEF Sign, IInv, RowsAreDrawn, Alive
<1>2. drawn' \subseteq Tokens
  BY <1>1 DEF IInv, TypeOK
<1>3. UNCHANGED <<now, held, arrived, Used>>
  BY DEF Sign, Used, Succeeded, history
<1>4. UNCHANGED [r \in Requests |-> Shown(r)]
  BY <1>3, ShownKept
<1>5. Alive' = Alive \/ Alive' = Alive \cup {t}
  <2>1. CASE UNCHANGED table
    BY <1>3, <2>1 DEF Alive
  <2>2. ASSUME NEW x \in Targets, NEW op \in Operations, NEW life \in AskedLives,
               table' = table \cup {[token |-> t, target |-> x, operation |-> op,
                                     expires |-> now + life]}
        PROVE  Alive' = Alive \/ Alive' = Alive \cup {t}
    BY <1>3, <2>2 DEF Alive
  <2> QED
    BY <2>1, <2>2 DEF Sign
<1>6. CASE Alive' = Alive
  <2>1. /\ Spent' # Spent /\ Spent \subseteq Spent' /\ Spent' \subseteq Tokens
        /\ Alive' = Alive \ Spent'
    BY <1>1, <1>2, <1>6 DEF Spent
  <2> QED
    BY <1>3, <1>4, <2>1 DEF C!Revoke, C!Quiet, Spent, Used, Shown
<1>7. CASE Alive' = Alive \cup {t}
  <2>1. Spent' = Spent /\ t \in Tokens \ (Alive \cup Spent)
    BY <1>1, <1>7 DEF Spent
  <2> QED
    BY <1>3, <1>4, <1>7, <2>1 DEF C!Issue, C!Quiet, Spent, Used, Shown
<1> QED
  BY <1>5, <1>6, <1>7

\* A look-up shows the token if its row has not expired by then
LEMMA FindTokenImplements ==
    ASSUME IInv, NEW r \in Requests, FindToken(r)
    PROVE  C!Present(r) \/ UNCHANGED mapped
<1>1. UNCHANGED <<now, drawn, table, uploads>> /\ UNCHANGED <<Alive, Spent>>
  BY DEF FindToken, Alive, Spent
<1>2. held[r] = {} /\ resp[r] = "pending" /\ Shown(r) = {}
  BY DEF IInv, Stages, FindToken, Shown
<1>3. UNCHANGED Used
  BY <1>1, <1>2 DEF FindToken, Used, Succeeded, Refuse, Status, IInv, TypeOK
<1>4. \A q \in Requests : q # r => Shown(q)' = Shown(q)
  BY DEF FindToken, Shown, IInv, TypeOK
<1>5. arrived'[r] = now /\ now' = now
  BY DEF FindToken, IInv, TypeOK
<1>6. Shown(r)' = {} \/ \E c \in Alive : Shown(r)' = {c}
  <2>1. CASE held' = held
    BY <1>2, <2>1 DEF Shown
  <2>2. CASE /\ held'[r] = {s \in table : s.token = req[r].token}
             /\ {s \in table : s.token = req[r].token} # {}
    <3>1. PICK h \in table : held'[r] = {h}
      BY <2>2 DEF IInv, RowsAreDrawn
    <3>2. CASE now <= h.expires
      <4>1. h.token \in Alive
        BY <3>1, <3>2 DEF Alive
      <4>2. Shown(r)' = {h.token}
        BY <1>5, <3>1, <3>2 DEF Shown
      <4> QED
        BY <4>1, <4>2
    <3>3. CASE ~(now <= h.expires)
      BY <1>5, <3>1, <3>3 DEF Shown
    <3> QED
      BY <3>2, <3>3
  <2> QED
    BY <2>1, <2>2 DEF FindToken, IInv, TypeOK
<1>7. CASE Shown(r)' = {}
  <2>1. \A q \in Requests : Shown(q)' = Shown(q)
    BY <1>2, <1>4, <1>7
  <2>2. UNCHANGED [q \in Requests |-> Shown(q)]
    BY <2>1
  <2> QED
    BY <1>1, <1>3, <2>2 DEF mapped
<1>8. ASSUME NEW c \in Alive, Shown(r)' = {c}
      PROVE  C!Present(r)
  <2> DEFINE f == [q \in Requests |-> Shown(q)]
             g == [q \in Requests |-> Shown(q)']
  <2>1. g = [f EXCEPT ![r] = {c}]
    BY <1>4, <1>8
  <2>2. f[r] = {} /\ g[r] # {}
    BY <1>2, <1>8
  <2> QED
    BY <1>1, <1>3, <1>8, <2>1, <2>2 DEF C!Present, Shown, Spent, Used
<1> QED
  BY <1>6, <1>7, <1>8

\* Only a request that has shown a token is served
LEMMA HandleImplements ==
    ASSUME IInv, NEW r \in Requests, Handle(r)
    PROVE  C!Use \/ UNCHANGED mapped
<1>1. UNCHANGED <<now, drawn, table, held, arrived>>
  BY DEF Handle
<1>2. Used' = Used \/ Used' = Used \cup {r}
  <2>1. resp[r] = "pending" /\ r \notin uploads
    BY DEF IInv, Stages, Handle
  <2> QED
    BY <2>1 DEF Handle, HandlePut, HandleOther, Refuse, Status, Used, Succeeded,
       IInv, TypeOK
<1>3. UNCHANGED <<Alive, Spent>>
  BY <1>1 DEF Alive, Spent
<1>4. UNCHANGED [q \in Requests |-> Shown(q)]
  BY <1>1, ShownKept
<1>5. CASE Used' = Used
  BY <1>3, <1>4, <1>5 DEF mapped
<1>6. CASE Used' # Used
  <2>1. [q \in Requests |-> Shown(q)][r] # {}
    BY ServedHaveShown DEF Handle
  <2> QED
    BY <1>2, <1>3, <1>4, <1>6, <2>1 DEF C!Use, C!Serving, Spent, Used, Shown
<1> QED
  BY <1>5, <1>6

\* Every step of the middleware is a step of a capability, or shows nothing: a
\* token is issued once, and who is served had a good one when it was looked up.
THEOREM TokensAreCapabilities == Spec => ImplementsCapability
<1>1. Init => C!Init
  <2> SUFFICES ASSUME Init PROVE C!Init
    OBVIOUS
  <2>1. Alive = {} /\ drawn \ Alive = {} /\ uploads \cup Succeeded = {}
    BY DEF Init, Alive, Succeeded
  <2>2. \A r \in Requests : Shown(r) = {}
    BY DEF Init, Shown
  <2> QED
    BY <2>1, <2>2 DEF C!Init, Shown
<1>2. ASSUME IInv, [Next]_vars
      PROVE  C!Next \/ UNCHANGED mapped
  <2>1. CASE UNCHANGED vars
    <3>1. UNCHANGED Succeeded
      BY <2>1 DEF vars, Succeeded
    <3> QED
      BY <2>1, <3>1, Unseen DEF vars
  <2>2. CASE Tick
    <3>1. Alive' \subseteq Alive
      <4>1. UNCHANGED table /\ now \in Nat /\ now' = now + 1
        BY <1>2, <2>2 DEF Tick, IInv, TypeOK
      <4>2. \A row \in table : now + 1 <= row.expires => now <= row.expires
        BY <1>2, <4>1 DEF IInv, TypeOK, SignedRow
      <4> QED
        BY <4>1, <4>2 DEF Alive
    <3> QED
      BY <1>2, <2>2, <3>1, LessAlive DEF Tick, history, C!Next
  <2>3. ASSUME NEW t \in Tokens, Sign(t)
        PROVE  C!Next \/ UNCHANGED mapped
    BY <1>2, <2>3, SignImplements DEF C!Next
  <2>4. ASSUME NEW r \in Requests, FindToken(r)
        PROVE  C!Next \/ UNCHANGED mapped
    BY <1>2, <2>4, FindTokenImplements DEF C!Next
  <2>5. ASSUME NEW r \in Requests, CheckToken(r)
        PROVE  C!Next \/ UNCHANGED mapped
    <3>1. UNCHANGED Succeeded
      BY <1>2, <2>5 DEF CheckToken, Refuse, Status, Succeeded, IInv, TypeOK, Stages
    <3> QED
      BY <2>5, <3>1, Unseen DEF CheckToken, history
  <2>6. ASSUME NEW r \in Requests, Handle(r)
        PROVE  C!Next \/ UNCHANGED mapped
    BY <1>2, <2>6, HandleImplements DEF C!Next
  <2>7. ASSUME NEW r \in Requests, Consume(r)
        PROVE  C!Next \/ UNCHANGED mapped
    <3>1. Alive' \subseteq Alive
      BY <2>7 DEF Consume, Alive
    <3> QED
      BY <1>2, <2>7, <3>1, LessAlive DEF Consume, C!Next
  <2>8. CASE Crash
    <3>1. UNCHANGED Succeeded
      BY <2>8 DEF Crash, Succeeded
    <3> QED
      BY <2>8, <3>1, Unseen DEF Crash, history
  <2> QED
    BY <1>2, <2>1, <2>2, <2>3, <2>4, <2>5, <2>6, <2>7, <2>8 DEF Next, Step
<1>3. IInv /\ [Next]_vars => [C!Next]_(C!vars)
  BY <1>2 DEF mapped, C!vars, Spent, Used, Shown
<1> QED
  BY <1>1, <1>3, InductiveInvariant, PTL DEF Spec, ImplementsCapability, C!Spec

-----------------------------------------------------------------------------
(* One upload at a time with a token, and no fault.                          *)

OneAtATime ==
    \A r, q \in InFlight :
        /\ req[r].method = "PUT" /\ req[q].method = "PUT"
        /\ req[r].token = req[q].token
        => r = q

\* Of two uploads that found the row of their token, one was over when the other
\* looked
InTurn ==
    /\ \A r \in uploads : req[r].method = "PUT"
    /\ \A r, q \in Requests :
          /\ req[r].method = "PUT" /\ req[q].method = "PUT"
          /\ req[r].token = req[q].token
          /\ held[r] # {} /\ held[q] # {}
          /\ r # q
          => r \in doneBefore[q] \/ q \in doneBefore[r]

LEMMA InTurnStep ==
    ASSUME TypeOK, Stages, InTurn, OneAtATime', [Next]_vars
    PROVE  InTurn'
<1> USE DEF TypeOK, InTurn, history
<1>1. CASE UNCHANGED vars
  BY <1>1 DEF vars
<1>2. CASE Tick \/ Crash
  BY <1>2 DEF Tick, Crash
<1>3. ASSUME NEW t \in Tokens, Sign(t)
      PROVE  InTurn'
  BY <1>3 DEF Sign
<1>4. ASSUME NEW r \in Requests, FindToken(r)
      PROVE  InTurn'
  <2>1. ASSUME NEW q \in Requests, q # r, held[q] # {}, held'[r] # {},
               req[r].method = "PUT", req[q].method = "PUT",
               req[r].token = req[q].token
        PROVE  q \in doneBefore'[r]
    <3>1. pc'[q] = pc[q] /\ pc[q] # "FindToken" /\ pc'[r] = "CheckToken"
      BY <1>4, <2>1 DEF FindToken, Refuse, Goto, Stages
    <3>2. pc[q] = "Done"
      BY <1>4, <2>1, <3>1 DEF OneAtATime, InFlight, FindToken
    <3> QED
      BY <1>4, <3>2 DEF FindToken
  <2>2. /\ UNCHANGED <<req, uploads>>
        /\ \A q \in Requests \ {r} :
              held'[q] = held[q] /\ doneBefore'[q] = doneBefore[q]
    BY <1>4 DEF FindToken
  <2> QED
    BY <2>1, <2>2
<1>5. ASSUME NEW r \in Requests, CheckToken(r) \/ Consume(r)
      PROVE  InTurn'
  BY <1>5 DEF CheckToken, Consume
<1>6. ASSUME NEW r \in Requests, Handle(r)
      PROVE  InTurn'
  BY <1>6 DEF Handle, HandlePut, HandleOther
<1> QED
  BY <1>1, <1>2, <1>3, <1>4, <1>5, <1>6 DEF Next, Step

\* signed_urls_plan.md:8 holds of clients that do not use a token for two uploads
\* at once, as long as no statement fails and nothing crashes.  (SignedURL_once
\* shows that ObjectAccess does not keep it for those that do.)
THEOREM OneUseInTurn ==
    ASSUME Faults = {}
    PROVE  Spec /\ []OneAtATime => []OneTimeUse
<1>1. Init => InTurn
  BY DEF Init, InTurn
<1>2. IInv /\ InTurn /\ OneAtATime' /\ [Next]_vars => InTurn'
  BY InTurnStep DEF IInv
<1>3. IInv /\ InTurn /\ ReuseNeedsOverlap => OneTimeUse
  <2> SUFFICES ASSUME IInv, InTurn, ReuseNeedsOverlap,
                      NEW r \in uploads, NEW q \in uploads,
                      req[r].token = req[q].token, r # q
               PROVE  FALSE
    BY DEF OneTimeUse
  <2>1. r \in Requests /\ q \in Requests /\ held[r] # {} /\ held[q] # {}
    BY DEF IInv, TypeOK, LetIn
  <2>2. r \in doneBefore[q] \/ q \in doneBefore[r]
    BY <2>1 DEF InTurn
  <2> QED
    BY <2>2 DEF ReuseNeedsOverlap
<1> QED
  BY <1>1, <1>2, <1>3, InductiveInvariant, ReuseIsExplained, PTL DEF Spec
=============================================================================
