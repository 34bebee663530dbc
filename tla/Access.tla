--------------------------------- MODULE Access ---------------------------------
(***************************************************************************)
(* Accounts and credentials: users, permissions, buckets, API keys, the     *)
(* logins that turn permissions into JWTs, and the middleware that lets a   *)
(* request in by a JWT or by an API key.  Each request is a goroutine, each *)
(* statement it sends to the database is a step of its own.  The model      *)
(* starts where Startup ends: the admin exists, has a role with every       *)
(* permission, and holds a first JWT.  He has created one user already.     *)
(*                                                                          *)
(* Users, buckets, keys and JWTs are named by the request that makes them.  *)
(***************************************************************************)
EXTENDS Integers, Sequences, FiniteSets

CONSTANTS
    Requests,    \* HTTP requests, each of which runs once
    Admin,       \* the seeded user (his id, his email and his first JWT)
    Clerk,       \* a user without permissions (his id and his email)
    NewEmails, BucketNames,
    AnyBucket,   \* "*" in the bucket list of a key
    Nobody,      \* no credential
    Asks,        \* the operations that clients ask for
    Grantable,   \* the permissions that clients ask to grant
    TokenLife,   \* 24 hours
    Scopes,      \* the bucket lists asked for a key; the names need not exist
    KeyLives,    \* lifetimes asked for a key, from its creation (one that is not
                 \* to expire is one of more than MaxTime)
    MaxTime,     \* bound on the clock
    Faults       \* a subset of FaultKinds

\* db: a statement fails without effect    ack: it commits and reports an error
\* crash: the process dies and is restarted
FaultKinds == {"db", "ack", "crash"}

\* The permissions are named for the operations they open, here in the order of
\* their names in the code: apikey:create, apikey:delete, apikey:list,
\* bucket:create, :delete, :list, object:delete, :download, :list, :sign,
\* :upload, user:create, :grant-permission, :list.  Three open nothing yet.
ByName == <<"createKey", "deleteKey", "listKeys", "createBucket",
            "deleteBucket", "listBuckets", "delete", "download", "list",
            "sign", "upload", "createUser", "grant", "listUsers">>
Permissions == {ByName[i] : i \in DOMAIN ByName}
ObjectOps == {"delete", "download", "list", "sign", "upload"}
Operations == (Permissions \ {"deleteBucket", "listUsers"})
                  \cup {"login", "getBucket"}
Ids == Requests \cup {Admin, Clerk}
Emails == NewEmails \cup {Admin, Clerk}

ASSUME AccessAssumption ==
    /\ Faults \subseteq FaultKinds
    /\ Asks \subseteq Operations
    /\ Grantable \subseteq Permissions
    /\ {} \notin Scopes
    /\ TokenLife \in Nat \ {0} /\ MaxTime \in Nat /\ KeyLives \subseteq Int
    /\ {Admin, Clerk} \cap Requests = {} /\ Admin # Clerk /\ Nobody \notin Ids

VARIABLES
    now,             \* the server's clock
    users,           \* rows [id, name], the name being the email
    buckets,         \* rows [id, name]
    userPermissions, \* pairs of a user id and a permission
    apiKeys,         \* rows [id, scope, expires]
    tokens,          \* the JWTs that were signed; no table holds them
    asked, pc, resp, \* what each request asks, where it is, its status
    held,            \* the rows a request has looked up
    arrived,         \* history: when its credential was looked at
    before,          \* history: the changes that were answered when it arrived
    cut              \* history: requests that were shown less than there was

tables == <<users, buckets, userPermissions, apiKeys>>
history == <<arrived, before, cut>>
vars == <<now, tables, tokens, asked, pc, resp, held, history>>

NameRow == [id : Ids, name : Emails \cup BucketNames]
KeyRow == [id : Requests, scope : Scopes, expires : Int]
Token == [id : Ids, user : Ids, perms : SUBSET Permissions, expires : Int]
Steps == {"New", "FindAccount", "ReadPermissions", "FindEmail", "InsertUser",
          "FindName", "InsertBucket", "ListBuckets", "GetBucket", "FindUser",
          "FindPermission", "Assign", "InsertKey", "ListKeys", "DeleteKey",
          "FindKey", "CheckKey"}
Statuses == {"pending", "dropped", "200", "201", "204", "400", "401", "403",
             "404", "409", "500"}
NoRequest == [op |-> "none", by |-> Nobody, key |-> Nobody, on |-> Nobody]

TypeOK ==
    /\ now \in 0..MaxTime
    /\ users \cup buckets \subseteq NameRow
    /\ userPermissions \subseteq Ids \X Permissions
    /\ apiKeys \subseteq KeyRow
    /\ tokens \subseteq Token
    /\ \A r \in Requests :
          /\ asked[r].op \in Asks \cup {"none"}
          /\ asked[r].by \in Ids \cup {Nobody}
          /\ asked[r].key \in Requests \cup {Nobody}
          /\ asked[r].on \in Emails \cup BucketNames \cup Ids \cup {Nobody}
                              \cup (Ids \X Permissions)
          /\ held[r] \subseteq NameRow \cup KeyRow
    /\ pc \in [Requests -> Steps]
    /\ resp \in [Requests -> Statuses]
    /\ arrived \in [Requests -> 0..MaxTime]
    /\ before \in [Requests -> SUBSET Requests]
    /\ cut \subseteq Requests

Init ==
    /\ now = 0
    /\ users = {[id |-> u, name |-> u] : u \in {Admin, Clerk}}
    /\ buckets = {} /\ userPermissions = {} /\ apiKeys = {}
    /\ tokens = {[id |-> Admin, user |-> Admin, perms |-> Permissions,
                  expires |-> TokenLife]}
    /\ asked = [r \in Requests |-> NoRequest]
    /\ pc = [r \in Requests |-> "New"]
    /\ resp = [r \in Requests |-> "pending"]
    /\ held = [r \in Requests |-> {}]
    /\ arrived = [r \in Requests |-> 0]
    /\ before = [r \in Requests |-> {}]
    /\ cut = {}

At(r, step) == pc[r] = step /\ resp[r] = "pending"
Goto(r, step) == pc' = [pc EXCEPT ![r] = step] /\ UNCHANGED resp
Answer(r, status) == resp' = [resp EXCEPT ![r] = status] /\ UNCHANGED pc
MayFail(fault) == fault \in Faults
Success == {"200", "201", "204"}
Changes == {"createBucket", "grant", "createKey", "deleteKey"}
Op(r) == asked[r].op
On(r) == asked[r].on

Tick ==
    /\ now < MaxTime
    /\ now' = now + 1
    /\ UNCHANGED <<tables, tokens, asked, pc, resp, held, history>>

-----------------------------------------------------------------------------
(* Arrival: what a client may ask, and what is decided without a look-up.   *)

\* The client of a key was told it; the ids of keys can be listed
KnownKeys == {k \in Requests : Op(k) = "createKey" /\ resp[k] = "201"}

Subjects(op) ==
    CASE op \in {"login", "createUser"} -> Emails
      [] op = "grant" -> {u.id : u \in users} \X Grantable
      [] op = "deleteKey" -> {k.id : k \in apiKeys} \cup KnownKeys
      [] op \in {"createKey", "listKeys", "listBuckets"} -> {Nobody}
      [] OTHER -> BucketNames

\* mutant: a JWT is good for ever
ValidAlways(t) == TRUE

\* The signature and the exp claim; nothing is looked up
Valid(t) == now < t.expires

\* The permission each route asks for
Needs(op) == IF op = "getBucket" THEN "listBuckets" ELSE op

FirstStep(op) ==
    CASE op = "login" -> "FindAccount"
      [] op = "createUser" -> "FindEmail"
      [] op = "grant" -> "FindUser"
      [] op = "createBucket" -> "FindName"
      [] op = "listBuckets" -> "ListBuckets"
      [] op = "getBucket" -> "GetBucket"
      [] op = "createKey" -> "InsertKey"
      [] op = "listKeys" -> "ListKeys"
      [] op = "deleteKey" -> "DeleteKey"

\* RequirePermission
Allowed(t, op) == Needs(op) \in t.perms

\* Auth and RequirePermission, and the JWT branch of ObjectAccess: the claims
\* are believed, whatever was granted since the login
ByToken(r, op, by) ==
    \E t \in tokens :
       /\ t.id = by
       /\ \/ ~Valid(t) /\ Answer(r, "401")
          \/ Valid(t) /\ ~Allowed(t, op) /\ Answer(r, "403")
          \/ /\ Valid(t) /\ Allowed(t, op)
             /\ IF op \in ObjectOps THEN Answer(r, "200")
                                    ELSE Goto(r, FirstStep(op))

\* A request with no credential, or only one that cannot be a JWT
Anonymous(r) ==
    /\ At(r, "New")
    /\ Answer(r, "401")
    /\ UNCHANGED <<now, tables, tokens, asked, held, history>>

\* A body that does not parse or lacks a field, an id that is none: whoever sent
\* it and wherever to, nothing is looked up.  (For a new user without an address
\* or a password see FindEmail.)
Malformed(r) ==
    /\ At(r, "New")
    /\ Answer(r, "400")
    /\ UNCHANGED <<now, tables, tokens, asked, held, history>>

\* mutant: the JWT wins over the key
JudgedByKeyAlone(op, by, key) == op \in ObjectOps /\ key # Nobody /\ by = Nobody

\* ObjectAccess looks at the JWT only if there is no key; the other routes never
\* look at the key
JudgedByKey(op, by, key) == op \in ObjectOps /\ key # Nobody

\* A request for an object may carry a JWT and a key
Arrive(r) ==
    /\ At(r, "New")
    /\ \E op \in Asks, by \in Ids \cup {Nobody}, key \in KnownKeys \cup {Nobody} :
       \E on \in Subjects(op) :
          /\ asked' = [asked EXCEPT ![r] =
                          [op |-> op, by |-> by, key |-> key, on |-> on]]
          /\ key # Nobody => op \in ObjectOps
          /\ \/ op = "login" /\ by = Nobody /\ Goto(r, "FindAccount")
             \/ op # "login" /\ ~JudgedByKey(op, by, key) /\ ByToken(r, op, by)
             \/ /\ JudgedByKey(op, by, key)
                /\ \E t \in tokens : by \in {t.id, Nobody}
                /\ Goto(r, "FindKey")
    /\ arrived' = [arrived EXCEPT ![r] = now]
    /\ before' = [before EXCEPT ![r] =
                     {q \in Requests : Op(q) \in Changes /\ resp[q] \in Success}]
    /\ UNCHANGED <<now, tables, tokens, held, cut>>

-----------------------------------------------------------------------------
(* What the handlers answer, given whether the service returned an error.   *)

\* mutant: every error is the client's
CreateUserBadRequest(err) == IF err THEN "bad request" ELSE "201"

CreateUserStatus(err) == IF err THEN "409" ELSE "201"
CreateBucketStatus(err) == IF err THEN "500" ELSE "201"
GrantStatus(err) == IF err THEN "500" ELSE "200"
CreateKeyStatus(err) == IF err THEN "500" ELSE "201"
DeleteKeyStatus(err) == IF err THEN "500" ELSE "204"

\* What a statement that takes effect may report
Outcomes == {FALSE} \cup (IF MayFail("ack") THEN {TRUE} ELSE {})

-----------------------------------------------------------------------------
(* Login.                                                                   *)

FindAccount(r) ==
    LET rows == {u \in users : u.name = On(r)} IN
    /\ At(r, "FindAccount")
    /\ \/ /\ rows # {}
          /\ held' = [held EXCEPT ![r] = rows]
          /\ Goto(r, "ReadPermissions")
       \* no such user, an error of the look-up, or the wrong password
       \/ Answer(r, "401") /\ UNCHANGED held
    /\ UNCHANGED <<now, tables, tokens, asked, history>>

\* mutant: only the half of the UNION that reads the roles
EffectiveOfRoles(u) == IF u = Admin THEN Permissions ELSE {}

\* Granted to the user UNION granted to his role, which only the admin has
Effective(u) ==
    {p \in Permissions : <<u, p>> \in userPermissions}
        \cup (IF u = Admin THEN Permissions ELSE {})

Prefixes(perms) ==
    {perms \cap {ByName[j] : j \in 1..i} : i \in 0..Len(ByName)}

\* ORDER BY name; rows.Err is not read: a connection lost half way shortens the
\* list, and the login succeeds with fewer permissions
ReadPermissions(r) ==
    /\ At(r, "ReadPermissions")
    /\ \/ /\ \E u \in held[r] : \E part \in Prefixes(Effective(u.id)) :
                /\ part = Effective(u.id) \/ MayFail("db")
                /\ tokens' = tokens \cup {[id |-> r, user |-> u.id, perms |-> part,
                                           expires |-> now + TokenLife]}
                /\ cut' = IF part = Effective(u.id) THEN cut ELSE cut \cup {r}
          /\ Answer(r, "200")
       \/ MayFail("db") /\ Answer(r, "500") /\ UNCHANGED <<tokens, cut>>
    /\ UNCHANGED <<now, tables, asked, held, arrived, before>>

-----------------------------------------------------------------------------
(* Users and buckets: look the name up, then insert.                        *)

Named(table, name) == {x \in table : x.name = name}
NewRow(r) == [id |-> r, name |-> On(r)]

\* An error of the look-up reads like "no such address".  The service refuses an
\* address that is there, one that is blank, no password, and one that bcrypt
\* finds too long; the handler has one answer for all of them.
FindEmail(r) ==
    /\ At(r, "FindEmail")
    /\ \/ (Named(users, On(r)) = {} \/ MayFail("db")) /\ Goto(r, "InsertUser")
       \/ Answer(r, CreateUserStatus(TRUE))
    /\ UNCHANGED <<now, tables, tokens, asked, held, history>>

\* mutant: INSERT ... ON CONFLICT DO NOTHING
InsertUserOrIgnore(r) ==
    /\ At(r, "InsertUser")
    /\ users' = IF Named(users, On(r)) = {} THEN users \cup {NewRow(r)} ELSE users
    /\ Answer(r, CreateUserStatus(FALSE))
    /\ UNCHANGED <<now, buckets, userPermissions, apiKeys, tokens, asked, held,
                   history>>

\* The addresses are UNIQUE: the INSERT fails if another request was first to
\* insert this one since the look-up
InsertUser(r) ==
    /\ At(r, "InsertUser")
    /\ \/ /\ Named(users, On(r)) = {}
          /\ users' = users \cup {NewRow(r)}
          /\ \E err \in Outcomes : Answer(r, CreateUserStatus(err))
       \/ /\ Named(users, On(r)) # {} \/ MayFail("db")
          /\ Answer(r, CreateUserStatus(TRUE))
          /\ UNCHANGED users
    /\ UNCHANGED <<now, buckets, userPermissions, apiKeys, tokens, asked, held,
                   history>>

\* FindByName within CreateBucket, whose error ends the request
FindName(r) ==
    /\ At(r, "FindName")
    /\ \/ Named(buckets, On(r)) = {} /\ Goto(r, "InsertBucket")
       \/ Named(buckets, On(r)) # {} /\ Answer(r, "409")
       \/ MayFail("db") /\ Answer(r, CreateBucketStatus(TRUE))
    /\ UNCHANGED <<now, tables, tokens, asked, held, history>>

\* The names are UNIQUE too
InsertBucket(r) ==
    /\ At(r, "InsertBucket")
    /\ \/ /\ Named(buckets, On(r)) = {}
          /\ buckets' = buckets \cup {NewRow(r)}
          /\ \E err \in Outcomes : Answer(r, CreateBucketStatus(err))
       \/ /\ Named(buckets, On(r)) # {} \/ MayFail("db")
          /\ Answer(r, CreateBucketStatus(TRUE))
          /\ UNCHANGED buckets
    /\ UNCHANGED <<now, users, userPermissions, apiKeys, tokens, asked, held,
                   history>>

\* One read of a table, answered with rows.  rows.Err is not read: a connection
\* lost half way is answered 200 with a shorter list.
Read(r, rows, status) ==
    /\ \/ \E part \in SUBSET rows :
             /\ part = rows \/ MayFail("db")
             /\ held' = [held EXCEPT ![r] = part]
             /\ cut' = IF part = rows THEN cut ELSE cut \cup {r}
             /\ Answer(r, "200")
       \/ MayFail("db") /\ Answer(r, status) /\ UNCHANGED <<held, cut>>
    /\ UNCHANGED <<now, tables, tokens, asked, arrived, before>>

ListBuckets(r) == At(r, "ListBuckets") /\ Read(r, buckets, "500")

\* Any error of the look-up is "bucket not found"
GetBucket(r) ==
    LET rows == Named(buckets, On(r)) IN
    /\ At(r, "GetBucket")
    /\ \/ rows # {} /\ held' = [held EXCEPT ![r] = rows] /\ Answer(r, "200") /\ UNCHANGED cut
       \/ rows = {} /\ Answer(r, "404") /\ UNCHANGED <<held, cut>>
       \/ MayFail("db") /\ Answer(r, "404") /\ cut' = cut \cup {r} /\ UNCHANGED held
    /\ UNCHANGED <<now, tables, tokens, asked, arrived, before>>

-----------------------------------------------------------------------------
(* GrantPermission.  Users and permissions are never deleted.               *)

FindUser(r) ==
    /\ At(r, "FindUser")
    /\ Goto(r, "FindPermission") \/ (MayFail("db") /\ Answer(r, "404"))
    /\ UNCHANGED <<now, tables, tokens, asked, held, history>>

FindPermission(r) ==
    /\ At(r, "FindPermission")
    /\ Goto(r, "Assign") \/ (MayFail("db") /\ Answer(r, "404"))
    /\ UNCHANGED <<now, tables, tokens, asked, held, history>>

\* ON CONFLICT DO NOTHING: a second grant changes nothing and succeeds
Assign(r) ==
    /\ At(r, "Assign")
    /\ \/ /\ userPermissions' = userPermissions \cup {On(r)}
          /\ \E err \in Outcomes : Answer(r, GrantStatus(err))
       \/ /\ MayFail("db")
          /\ Answer(r, GrantStatus(TRUE))
          /\ UNCHANGED userPermissions
    /\ UNCHANGED <<now, users, buckets, apiKeys, tokens, asked, held, history>>

-----------------------------------------------------------------------------
(* API keys.                                                                *)

NewKeys(r) ==
    {[id |-> r, scope |-> scope, expires |-> now + life] :
        scope \in Scopes, life \in KeyLives}

InsertKey(r) ==
    /\ At(r, "InsertKey")
    /\ \/ /\ \E key \in NewKeys(r) : apiKeys' = apiKeys \cup {key}
          /\ \E err \in Outcomes : Answer(r, CreateKeyStatus(err))
       \/ MayFail("db") /\ Answer(r, CreateKeyStatus(TRUE)) /\ UNCHANGED apiKeys
    /\ UNCHANGED <<now, users, buckets, userPermissions, tokens, asked, held,
                   history>>

ListKeys(r) == At(r, "ListKeys") /\ Read(r, apiKeys, "500")

\* mutant: the key is made to expire instead
ExpireKey(r) ==
    /\ At(r, "DeleteKey")
    /\ apiKeys' = {IF k.id = On(r) THEN [k EXCEPT !.expires = now] ELSE k :
                       k \in apiKeys}
    /\ Answer(r, DeleteKeyStatus(FALSE))
    /\ UNCHANGED <<now, users, buckets, userPermissions, tokens, asked, held,
                   history>>

\* DELETE ... WHERE id = $1, which also succeeds when there is no such row
DeleteKey(r) ==
    /\ At(r, "DeleteKey")
    /\ \/ /\ apiKeys' = {k \in apiKeys : k.id # On(r)}
          /\ \E err \in Outcomes : Answer(r, DeleteKeyStatus(err))
       \/ MayFail("db") /\ Answer(r, DeleteKeyStatus(TRUE)) /\ UNCHANGED apiKeys
    /\ UNCHANGED <<now, users, buckets, userPermissions, tokens, asked, held,
                   history>>

\* Any error of the look-up is ErrKeyNotFound
FindKey(r) ==
    LET rows == {k \in apiKeys : k.id = asked[r].key} IN
    /\ At(r, "FindKey")
    /\ \/ rows # {} /\ held' = [held EXCEPT ![r] = rows] /\ Goto(r, "CheckKey")
       \/ /\ rows = {} \/ MayFail("db")
          /\ Answer(r, "403")
          /\ UNCHANGED held
    /\ arrived' = [arrived EXCEPT ![r] = now]
    /\ UNCHANGED <<now, tables, tokens, asked, before, cut>>

\* mutant: the expiry of a key is not looked at
KeyValidAlways(k) == TRUE

\* ~(key.ExpiresAt != nil && time.Now().After(*key.ExpiresAt))
KeyValid(k) == now <= k.expires

CanAccessBucket(k, name) == k.scope \cap {name, AnyBucket} # {}

\* The clock is read after the row; what the key names are buckets, and it
\* carries no permissions
CheckKey(r) ==
    /\ At(r, "CheckKey")
    /\ \E k \in held[r] :
          LET good == KeyValid(k) /\ CanAccessBucket(k, On(r))
          IN  Answer(r, IF good THEN "200" ELSE "403")
    /\ UNCHANGED <<now, tables, tokens, asked, held, history>>

-----------------------------------------------------------------------------
InFlight == {r \in Requests : resp[r] = "pending" /\ pc[r] # "New"}

Crash ==
    /\ MayFail("crash")
    /\ InFlight # {}
    /\ resp' = [r \in Requests |-> IF r \in InFlight THEN "dropped" ELSE resp[r]]
    /\ UNCHANGED <<now, tables, tokens, asked, pc, held, history>>

Step(r) ==
    \/ Anonymous(r) \/ Arrive(r) \/ Malformed(r)
    \/ FindAccount(r) \/ ReadPermissions(r)
    \/ FindEmail(r) \/ InsertUser(r)
    \/ FindName(r) \/ InsertBucket(r) \/ ListBuckets(r) \/ GetBucket(r)
    \/ FindUser(r) \/ FindPermission(r) \/ Assign(r)
    \/ InsertKey(r) \/ ListKeys(r) \/ DeleteKey(r) \/ FindKey(r) \/ CheckKey(r)

Next == Tick \/ (\E r \in Requests : Step(r)) \/ Crash

Spec == Init /\ [][Next]_vars

-----------------------------------------------------------------------------
(* JWTs and API keys are capabilities.                                      *)

Alive == {t.id : t \in {u \in tokens : Valid(u)}}
             \cup {k.id : k \in {l \in apiKeys : now <= l.expires}}

\* The JWT of the start, and what was signed or inserted by requests that are over
Issued == {Admin} \cup
    {r \in Requests : pc[r] \in {"ReadPermissions", "InsertKey"} /\ resp[r] # "pending"}

\* The credential a request was judged by, if that was good when it was looked at
Showed(r) ==
    IF JudgedByKey(Op(r), asked[r].by, asked[r].key)
    THEN {k.id : k \in {l \in held[r] : arrived[r] <= l.expires}}
    ELSE {t.id : t \in {u \in tokens : u.id = asked[r].by /\ arrived[r] < u.expires}}

Served(r) == resp[r] \in Success /\ Op(r) # "login"

C == INSTANCE Capability WITH
        Capabilities <- Ids,
        live <- Alive,
        spent <- Issued \ Alive,
        shown <- [r \in Requests |-> Showed(r)],
        used <- {r \in Requests : Served(r)}

\* However the calls of logins, deletions and requests interleave, JWTs and keys
\* are capabilities: one that expired or was deleted never becomes good again,
\* and whoever is served had a good one when it was looked at.
ImplementsCapability == C!Spec

-----------------------------------------------------------------------------
(* Properties.                                                              *)

Created(r) == resp[r] = "201" /\ Op(r) \in {"createUser", "createBucket"}

\* Of the requests that race to create one name, at most one is told 201, and
\* the row that bears the name from then on is its own, not another's.
OneOwner ==
    \A r \in Requests : Created(r) =>
        Named(IF Op(r) = "createUser" THEN users ELSE buckets, On(r)) = {NewRow(r)}

\* A login that arrives after a grant was answered 200 gets a JWT with that
\* permission; only a login whose permission list was cut short may lack it.
GrantsReachTokens ==
    \A g \in Requests, t \in tokens :
        /\ Op(g) = "grant" /\ resp[g] = "200" /\ On(g)[1] = t.user
        /\ t.id \in Requests \ cut
        /\ g \in before[t.id]
        => On(g)[2] \in t.perms

\* What an operation that was let in relied on was true.  By a key: that it
\* names the bucket and had not expired when it was looked up; a JWT that came
\* along does not make up for it.  By a JWT: that its user has the permission
\* and that it had not expired on arrival.
LetInByRight ==
    \A r \in Requests : Served(r) =>
        IF Op(r) \in ObjectOps /\ asked[r].key # Nobody
        THEN \E k \in held[r] :
                /\ k.id = asked[r].key
                /\ arrived[r] <= k.expires
                /\ CanAccessBucket(k, On(r))
        ELSE \E t \in tokens :
                /\ t.id = asked[r].by
                /\ Needs(Op(r)) \in Effective(t.user)
                /\ arrived[r] < t.expires

\* No request that arrives after a DELETE of its key was answered 204 is let
\* in, not even with the admin's JWT beside the key.
DeletedKeyRefused ==
    \A d, r \in Requests :
        /\ Op(d) = "deleteKey" /\ resp[d] = "204" /\ d \in before[r]
        /\ Op(r) \in ObjectOps /\ asked[r].key = On(d)
        => resp[r] # "200"

\* What a listing or a look-up shows is at least as new as what its client knew:
\* buckets and keys whose creation was answered before are there, keys whose
\* deletion was are not.  Only a read that failed half way shows less.
ReadsCurrent ==
    \A q, r \in Requests :
        LET shownIds == {x.id : x \in held[r]} IN
        q \in before[r] /\ resp[r] \in {"200", "404"} /\ r \notin cut =>
            /\ Op(q) = "createBucket" /\ Op(r) = "listBuckets" => q \in shownIds
            /\ Op(q) = "createBucket" /\ Op(r) = "getBucket" /\ On(q) = On(r) =>
                   q \in shownIds
            /\ Op(q) = "createKey" /\ Op(r) = "listKeys" =>
                   \/ q \in shownIds
                   \/ \E d \in Requests : Op(d) = "deleteKey" /\ On(d) = q
            /\ Op(q) = "deleteKey" /\ Op(r) = "listKeys" => On(q) \notin shownIds
=============================================================================
