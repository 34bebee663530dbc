------------------------------ MODULE Access_proofs ------------------------------
(***************************************************************************)
(* For any requests, names, permissions asked for, lifetimes and faults:    *)
(* names have one owner, a grant reaches the next login, whoever is served  *)
(* had the right to be, deleted keys open nothing, and reads are current.   *)
(***************************************************************************)
EXTENDS Access, TLAPS

-----------------------------------------------------------------------------
(* The inductive invariant.                                                 *)

Arrays ==
    /\ asked = [r \in Requests |-> asked[r]]
    /\ held = [r \in Requests |-> held[r]]

\* Which steps belong to which operation, and which of its subjects
StepsOfOps ==
    \A r \in Requests :
        /\ pc[r] = "New" /\ resp[r] = "pending" => Op(r) = "none"
        /\ pc[r] \in {"FindAccount", "ReadPermissions"} => Op(r) = "login"
        /\ pc[r] \in {"FindEmail", "InsertUser"} =>
              Op(r) = "createUser" /\ On(r) \in Emails
        /\ pc[r] \in {"FindName", "InsertBucket"} =>
              Op(r) = "createBucket" /\ On(r) \in BucketNames
        /\ pc[r] = "ListBuckets" => Op(r) = "listBuckets"
        /\ pc[r] = "GetBucket" => Op(r) = "getBucket"
        /\ pc[r] \in {"FindUser", "FindPermission", "Assign"} =>
              Op(r) = "grant" /\ On(r) \in Ids \X Permissions
        /\ pc[r] = "InsertKey" => Op(r) = "createKey"
        /\ pc[r] = "ListKeys" => Op(r) = "listKeys"
        /\ pc[r] = "DeleteKey" => Op(r) = "deleteKey"
        /\ pc[r] \in {"FindKey", "CheckKey"} => Op(r) \in ObjectOps /\ asked[r].key # Nobody

\* Where a success is answered
AnswersOfSteps ==
    \A r \in Requests :
        /\ resp[r] = "201" => pc[r] \in {"InsertUser", "InsertBucket", "InsertKey"}
        /\ resp[r] = "204" => pc[r] = "DeleteKey"
        /\ resp[r] = "404" => pc[r] \in {"FindUser", "FindPermission", "GetBucket"}
        /\ resp[r] = "200" => pc[r] \in {"New", "ReadPermissions", "ListBuckets",
                                         "GetBucket", "Assign", "ListKeys", "CheckKey"}
        /\ pc[r] = "New" /\ resp[r] = "200" =>
              Op(r) \in ObjectOps /\ asked[r].key = Nobody

\* Every name is there once
NamesUnique ==
    /\ \A u, v \in users : u.name = v.name => u = v
    /\ \A b, c \in buckets : b.name = c.name => b = c

\* JWTs and keys are made by requests that are over, once
Makers ==
    /\ \A t \in tokens : t.id # Admin =>
          t.id \in Requests /\ pc[t.id] = "ReadPermissions" /\ resp[t.id] # "pending"
    /\ \A t, u \in tokens : t.id = u.id => t = u
    /\ \A k \in apiKeys : pc[k.id] = "InsertKey" /\ resp[k.id] # "pending"
    /\ \A k, l \in apiKeys : k.id = l.id => k = l
    /\ \A d \in Requests : Op(d) = "deleteKey" =>
          On(d) \in Requests /\ pc[On(d)] = "InsertKey" /\ resp[On(d)] # "pending"

\* What an answer of success says is in the tables
Effects ==
    \A r \in Requests :
        /\ pc[r] = "InsertUser" /\ resp[r] = "201" => NewRow(r) \in users
        /\ pc[r] = "InsertBucket" /\ resp[r] = "201" => NewRow(r) \in buckets
        /\ pc[r] = "Assign" /\ resp[r] = "200" => On(r) \in userPermissions
        /\ pc[r] = "InsertKey" /\ resp[r] = "201" =>
              \/ \E k \in apiKeys : k.id = r
              \/ \E d \in Requests : Op(d) = "deleteKey" /\ On(d) = r
        /\ pc[r] = "DeleteKey" /\ resp[r] = "204" => \A k \in apiKeys : k.id # On(r)

\* What was answered before a request arrived was a change, and succeeded
BeforeOver ==
    \A r \in Requests : \A q \in before[r] : Op(q) \in Changes /\ resp[q] \in Success

\* What a JWT says of its user was true at the login and is still
PermsReal == \A t \in tokens : t.perms \subseteq Effective(t.user)

\* Whoever got past a JWT check has a JWT that was good on arrival
ByRightOfToken ==
    \A r \in Requests :
        /\ pc[r] \notin {"FindAccount", "ReadPermissions", "FindKey", "CheckKey"}
        /\ pc[r] = "New" => resp[r] = "200"
        => \E t \in tokens :
              t.id = asked[r].by /\ Needs(Op(r)) \in t.perms /\ arrived[r] < t.expires

\* The key in the memory of a request is the one it came with
ByRightOfKey ==
    \A r \in Requests :
        /\ pc[r] = "CheckKey" =>
              /\ arrived[r] <= now
              /\ \A k \in held[r] : k \in KeyRow /\ k.id = asked[r].key
        /\ pc[r] = "CheckKey" /\ resp[r] = "200" =>
              \E k \in held[r] : arrived[r] <= k.expires /\ CanAccessBucket(k, On(r))

\* and was not deleted before that arrived
HeldNotDeleted ==
    \A r \in Requests : \A d \in before[r] :
        pc[r] = "CheckKey" /\ Op(d) = "deleteKey" => \A k \in held[r] : k.id # On(d)

\* A request brings a JWT that was signed before it, and no rows
Brought ==
    \A r \in Requests :
        /\ asked[r].by # Nobody => \E t \in tokens : t.id = asked[r].by
        /\ pc[r] \in {"New", "FindKey"} => held[r] = {}

\* Before it comes it has nothing at all
Blank == \A r \in Requests : pc[r] = "New" /\ resp[r] = "pending" => asked[r] = NoRequest

IInv ==
    /\ TypeOK /\ Blank /\ Arrays /\ StepsOfOps /\ AnswersOfSteps /\ NamesUnique /\ Makers
    /\ Effects /\ BeforeOver /\ PermsReal /\ ByRightOfToken /\ ByRightOfKey
    /\ HeldNotDeleted /\ Brought /\ GrantsReachTokens /\ ReadsCurrent

-----------------------------------------------------------------------------
LEMMA InitIInv == Init => IInv
<1> SUFFICES ASSUME Init PROVE IInv
  OBVIOUS
<1> USE AccessAssumption DEF Init, Op, On, NoRequest, ObjectOps
<1>1. TypeOK
  BY DEF TypeOK, Steps, Statuses, NameRow, Token, Ids, Emails, Permissions
<1>2. Arrays /\ StepsOfOps /\ AnswersOfSteps /\ NamesUnique /\ Effects
  BY DEF Arrays, StepsOfOps, AnswersOfSteps, NamesUnique, Effects
<1>3. Makers /\ PermsReal /\ Blank
  BY DEF Makers, PermsReal, Effective, Blank
<1>4. BeforeOver /\ ByRightOfToken /\ ByRightOfKey /\ HeldNotDeleted /\ Brought
  BY DEF BeforeOver, ByRightOfToken, ByRightOfKey, HeldNotDeleted, Brought
<1>5. GrantsReachTokens /\ ReadsCurrent
  BY DEF GrantsReachTokens, ReadsCurrent
<1> QED
  BY <1>1, <1>2, <1>3, <1>4, <1>5 DEF IInv

-----------------------------------------------------------------------------
(* What one step of a request changes.                                      *)

\* The actions that follow the arrival, without CheckKey
Calls(r) ==
    \/ FindAccount(r) \/ ReadPermissions(r) \/ FindEmail(r) \/ InsertUser(r)
    \/ FindName(r) \/ InsertBucket(r) \/ ListBuckets(r) \/ GetBucket(r)
    \/ FindUser(r) \/ FindPermission(r) \/ Assign(r)
    \/ InsertKey(r) \/ ListKeys(r) \/ DeleteKey(r) \/ FindKey(r) \/ CheckKey(r)

LEMMA StepCases ==
    ASSUME NEW r \in Requests, Step(r)
    PROVE  Anonymous(r) \/ Malformed(r) \/ Arrive(r) \/ Calls(r)
BY DEF Step, Calls

\* A request that has not been answered changes nothing of the others
LEMMA OthersKept ==
    ASSUME TypeOK, Arrays, NEW r \in Requests, Step(r)
    PROVE  /\ resp[r] = "pending"
           /\ \A q \in Requests \ {r} :
                 /\ pc'[q] = pc[q] /\ resp'[q] = resp[q] /\ asked'[q] = asked[q]
                 /\ held'[q] = held[q] /\ arrived'[q] = arrived[q]
                 /\ before'[q] = before[q] /\ (q \in cut' <=> q \in cut)
           /\ cut \subseteq cut' /\ now' = now
           /\ asked' = [q \in Requests |-> asked'[q]]
           /\ held' = [q \in Requests |-> held'[q]]
           /\ pc' = [q \in Requests |-> pc'[q]]
           /\ resp' = [q \in Requests |-> resp'[q]]
<1> USE DEF TypeOK, Arrays, At, Goto, Answer, history, tables
<1>1. CASE Anonymous(r) \/ Malformed(r)
  BY <1>1 DEF Anonymous, Malformed
<1>2. CASE Arrive(r)
  BY <1>2 DEF Arrive, ByToken
<1>3. CASE FindAccount(r)
  BY <1>3 DEF FindAccount
<1>4. CASE ReadPermissions(r)
  BY <1>4 DEF ReadPermissions
<1>5. CASE FindEmail(r) \/ InsertUser(r) \/ FindName(r) \/ InsertBucket(r)
  BY <1>5 DEF FindEmail, InsertUser, FindName, InsertBucket
<1>6. CASE ListBuckets(r) \/ ListKeys(r)
  BY <1>6 DEF ListBuckets, ListKeys, Read
<1>7. CASE GetBucket(r)
  BY <1>7 DEF GetBucket
<1>8. CASE FindUser(r) \/ FindPermission(r) \/ Assign(r)
  BY <1>8 DEF FindUser, FindPermission, Assign
<1>9. CASE InsertKey(r) \/ DeleteKey(r)
  BY <1>9 DEF InsertKey, DeleteKey
<1>10. CASE FindKey(r) \/ CheckKey(r)
  BY <1>10 DEF FindKey, CheckKey
<1> QED
  BY <1>1, <1>2, <1>3, <1>4, <1>5, <1>6, <1>7, <1>8, <1>9, <1>10, StepCases DEF Calls

\* But for InsertKey and DeleteKey, tables and tokens only gain rows, and only
\* in the action of the row's maker
LEMMA TablesGrow ==
    ASSUME NEW r \in Requests, Step(r)
    PROVE  /\ users \subseteq users' /\ buckets \subseteq buckets'
           /\ userPermissions \subseteq userPermissions' /\ tokens \subseteq tokens'
           /\ users' = users \/ InsertUser(r)
           /\ buckets' = buckets \/ InsertBucket(r)
           /\ tokens' = tokens \/ ReadPermissions(r)
           /\ userPermissions' = userPermissions \/ Assign(r)
           /\ apiKeys' = apiKeys \/ InsertKey(r) \/ DeleteKey(r)
<1> USE DEF history, tables
<1>1. CASE Anonymous(r) \/ Malformed(r) \/ Arrive(r)
  BY <1>1 DEF Anonymous, Malformed, Arrive
<1>2. CASE Calls(r)
  BY <1>2 DEF Calls, FindAccount, ReadPermissions, FindEmail, InsertUser, FindName,
     InsertBucket, ListBuckets, ListKeys, Read, GetBucket, FindUser, FindPermission,
     Assign, InsertKey, DeleteKey, FindKey, CheckKey
<1> QED
  BY <1>1, <1>2, StepCases

\* What a request looks up is rows of one table
LEMMA HeldFrom ==
    ASSUME Arrays, NEW r \in Requests, Calls(r)
    PROVE  \/ held' = held
           \/ FindAccount(r) /\ held'[r] \subseteq users
           \/ ListBuckets(r) /\ held'[r] \subseteq buckets
           \/ GetBucket(r) /\ held'[r] \subseteq buckets
           \/ ListKeys(r) /\ held'[r] \subseteq apiKeys
           \/ FindKey(r) /\ held'[r] \subseteq apiKeys
<1>1. CASE \/ ReadPermissions(r) \/ FindEmail(r) \/ InsertUser(r) \/ FindName(r)
           \/ InsertBucket(r) \/ FindUser(r) \/ FindPermission(r) \/ Assign(r)
           \/ InsertKey(r) \/ DeleteKey(r) \/ CheckKey(r)
  BY <1>1 DEF ReadPermissions, FindEmail, InsertUser, FindName, InsertBucket, FindUser,
     FindPermission, Assign, InsertKey, DeleteKey, CheckKey
<1>2. CASE FindAccount(r)
  BY <1>2 DEF FindAccount, Arrays
<1>3. CASE ListBuckets(r) \/ ListKeys(r)
  BY <1>3 DEF ListBuckets, ListKeys, Read, Arrays
<1>4. CASE GetBucket(r)
  BY <1>4 DEF GetBucket, Named, Arrays
<1>5. CASE FindKey(r)
  BY <1>5 DEF FindKey, Arrays
<1> QED
  BY <1>1, <1>2, <1>3, <1>4, <1>5 DEF Calls

\* How a request may get past the routes
LEMMA Arrivals ==
    ASSUME TypeOK, Arrays, NEW r \in Requests, Arrive(r)
    PROVE  /\ pc[r] = "New" /\ resp[r] = "pending"
           /\ arrived'[r] = now /\ UNCHANGED <<now, tables, tokens, held, cut>>
           /\ before'[r] = {q \in Requests : Op(q) \in Changes /\ resp[q] \in Success}
           /\ Op(r)' \in Asks /\ On(r)' \in Subjects(Op(r)')
           /\ asked'[r].by \in Ids \cup {Nobody}
           /\ asked'[r].key \in KnownKeys \cup {Nobody}
           /\ \/ pc'[r] = "New" /\ resp'[r] \in {"401", "403"}
              \/ pc'[r] = "FindAccount" /\ resp'[r] = "pending" /\ Op(r)' = "login"
              \/ /\ pc'[r] = "FindKey" /\ resp'[r] = "pending"
                 /\ Op(r)' \in ObjectOps /\ asked'[r].key # Nobody
              \/ /\ \E t \in tokens :
                       /\ t.id = asked'[r].by /\ Needs(Op(r)') \in t.perms
                       /\ now < t.expires
                 /\ \/ /\ pc'[r] = "New" /\ resp'[r] = "200"
                       /\ Op(r)' \in ObjectOps /\ asked'[r].key = Nobody
                    \/ /\ Op(r)' \notin ObjectOps \cup {"login"}
                       /\ pc'[r] = FirstStep(Op(r)') /\ resp'[r] = "pending"
<1>1. PICK op \in Asks, by \in Ids \cup {Nobody}, key \in KnownKeys \cup {Nobody} :
      \E on \in Subjects(op) :
          /\ asked' = [asked EXCEPT ![r] =
                          [op |-> op, by |-> by, key |-> key, on |-> on]]
          /\ \/ op = "login" /\ by = Nobody /\ Goto(r, "FindAccount")
             \/ op # "login" /\ ~JudgedByKey(op, by, key) /\ ByToken(r, op, by)
             \/ JudgedByKey(op, by, key) /\ Goto(r, "FindKey")
  BY DEF Arrive
<1>2. PICK on \in Subjects(op) :
          asked' = [asked EXCEPT ![r] = [op |-> op, by |-> by, key |-> key, on |-> on]]
  BY <1>1
<1>3. asked'[r] = [op |-> op, by |-> by, key |-> key, on |-> on]
  BY <1>2 DEF Arrays
<1>4. Op(r)' = op /\ On(r)' = on /\ asked'[r].by = by /\ asked'[r].key = key
  BY <1>3 DEF Op, On
<1>5. /\ pc[r] = "New" /\ resp[r] = "pending"
      /\ arrived'[r] = now /\ UNCHANGED <<now, tables, tokens, held, cut>>
      /\ before'[r] = {q \in Requests : Op(q) \in Changes /\ resp[q] \in Success}
  BY DEF Arrive, At, TypeOK
<1>6. CASE op = "login" /\ Goto(r, "FindAccount")
  BY <1>2, <1>4, <1>5, <1>6 DEF Goto, TypeOK
<1>7. CASE op # "login" /\ ~JudgedByKey(op, by, key) /\ ByToken(r, op, by)
  <2>1. PICK t \in tokens :
          /\ t.id = by
          /\ \/ ~Valid(t) /\ Answer(r, "401")
             \/ Valid(t) /\ ~Allowed(t, op) /\ Answer(r, "403")
             \/ /\ Valid(t) /\ Allowed(t, op)
                /\ IF op \in ObjectOps THEN Answer(r, "200")
                                       ELSE Goto(r, FirstStep(op))
    BY <1>7 DEF ByToken
  <2>2. CASE Answer(r, "401") \/ Answer(r, "403")
    BY <1>2, <1>4, <1>5, <2>2 DEF Answer, TypeOK
  <2>3. CASE Valid(t) /\ Allowed(t, op) /\ op \in ObjectOps /\ Answer(r, "200")
    <3>1. key = Nobody
      BY <1>7, <2>3 DEF JudgedByKey
    <3> QED
      BY <1>2, <1>4, <1>5, <2>1, <2>3, <3>1 DEF Answer, TypeOK, Valid, Allowed
  <2>4. CASE Valid(t) /\ Allowed(t, op) /\ op \notin ObjectOps /\ Goto(r, FirstStep(op))
    BY <1>2, <1>4, <1>5, <1>7, <2>1, <2>4 DEF Goto, TypeOK, Valid, Allowed
  <2> QED
    BY <2>1, <2>2, <2>3, <2>4
<1>8. CASE JudgedByKey(op, by, key) /\ Goto(r, "FindKey")
  BY <1>2, <1>4, <1>5, <1>8 DEF Goto, TypeOK, JudgedByKey
<1> QED
  BY <1>1, <1>6, <1>7, <1>8

\* Where a call leads, and what is answered after which
LEMMA Moves ==
    ASSUME TypeOK, NEW r \in Requests, Calls(r)
    PROVE  /\ pc[r] # "New" /\ resp[r] = "pending" /\ asked' = asked /\ before' = before
           /\ \/ /\ resp'[r] = "pending"
                 /\ \/ pc[r] = "FindAccount" /\ pc'[r] = "ReadPermissions"
                    \/ pc[r] = "FindEmail" /\ pc'[r] = "InsertUser"
                    \/ pc[r] = "FindName" /\ pc'[r] = "InsertBucket"
                    \/ pc[r] = "FindUser" /\ pc'[r] = "FindPermission"
                    \/ pc[r] = "FindPermission" /\ pc'[r] = "Assign"
                    \/ pc[r] = "FindKey" /\ pc'[r] = "CheckKey"
              \/ /\ pc'[r] = pc[r]
                 /\ \/ resp'[r] \in {"401", "403", "409", "500"}
                    \/ /\ pc[r] \in {"FindUser", "FindPermission", "GetBucket"}
                       /\ resp'[r] = "404"
                    \/ /\ pc[r] \in {"InsertUser", "InsertBucket", "InsertKey"}
                       /\ resp'[r] = "201"
                    \/ pc[r] = "DeleteKey" /\ resp'[r] = "204"
                    \/ /\ pc[r] \in {"ReadPermissions", "ListBuckets", "GetBucket",
                                     "Assign", "ListKeys", "CheckKey"}
                       /\ resp'[r] = "200"
<1> USE DEF TypeOK, At, Goto, Answer, history, CreateUserStatus, CreateBucketStatus,
        GrantStatus, CreateKeyStatus, DeleteKeyStatus
<1>1. CASE FindAccount(r) \/ ReadPermissions(r)
  BY <1>1 DEF FindAccount, ReadPermissions
<1>2. CASE FindEmail(r) \/ InsertUser(r)
  BY <1>2 DEF FindEmail, InsertUser
<1>3. CASE FindName(r) \/ InsertBucket(r)
  BY <1>3 DEF FindName, InsertBucket
<1>4. CASE ListBuckets(r) \/ ListKeys(r) \/ GetBucket(r)
  BY <1>4 DEF ListBuckets, ListKeys, Read, GetBucket
<1>5. CASE FindUser(r) \/ FindPermission(r) \/ Assign(r)
  BY <1>5 DEF FindUser, FindPermission, Assign
<1>6. CASE InsertKey(r) \/ DeleteKey(r)
  BY <1>6 DEF InsertKey, DeleteKey
<1>7. CASE FindKey(r) \/ CheckKey(r)
  BY <1>7 DEF FindKey, CheckKey
<1> QED
  BY <1>1, <1>2, <1>3, <1>4, <1>5, <1>6, <1>7 DEF Calls

\* A call is made by the action of its step
LEMMA OwnStep ==
    ASSUME NEW r \in Requests, Calls(r)
    PROVE  /\ pc[r] = "InsertUser" => InsertUser(r)
           /\ pc[r] = "InsertBucket" => InsertBucket(r)
           /\ pc[r] = "Assign" => Assign(r)
           /\ pc[r] = "InsertKey" => InsertKey(r)
           /\ pc[r] = "DeleteKey" => DeleteKey(r)
           /\ pc[r] = "ReadPermissions" => ReadPermissions(r)
           /\ pc[r] = "ListBuckets" => ListBuckets(r)
           /\ pc[r] = "ListKeys" => ListKeys(r)
           /\ pc[r] = "GetBucket" => GetBucket(r)
           /\ pc[r] = "FindKey" => FindKey(r)
           /\ pc[r] = "CheckKey" => CheckKey(r)
BY DEF Calls, At, FindAccount, ReadPermissions, FindEmail, InsertUser, FindName,
   InsertBucket, ListBuckets, ListKeys, GetBucket, FindUser, FindPermission, Assign,
   InsertKey, DeleteKey, FindKey, CheckKey

\* The names of ByName
LEMMA PermissionNames ==
    Permissions = {"createKey", "deleteKey", "listKeys", "createBucket",
                   "deleteBucket", "listBuckets", "delete", "download", "list",
                   "sign", "upload", "createUser", "grant", "listUsers"}
<1>1. DOMAIN ByName = 1..14
  BY DEF ByName
<1>2. \A i \in 1..14 : i \in {1, 2, 3, 4, 5, 6, 7, 8, 9, 10, 11, 12, 13, 14}
  OBVIOUS
<1>3. /\ ByName[1] = "createKey" /\ ByName[2] = "deleteKey" /\ ByName[3] = "listKeys"
      /\ ByName[4] = "createBucket" /\ ByName[5] = "deleteBucket"
      /\ ByName[6] = "listBuckets" /\ ByName[7] = "delete" /\ ByName[8] = "download"
      /\ ByName[9] = "list" /\ ByName[10] = "sign" /\ ByName[11] = "upload"
      /\ ByName[12] = "createUser" /\ ByName[13] = "grant" /\ ByName[14] = "listUsers"
  BY DEF ByName
<1> QED
  BY <1>1, <1>2, <1>3 DEF Permissions

\* The operations that have a handler of their own
LEMMA FirstSteps ==
    ASSUME NEW op \in Operations \ (ObjectOps \cup {"login"})
    PROVE  \/ op = "createUser" /\ FirstStep(op) = "FindEmail"
           \/ op = "grant" /\ FirstStep(op) = "FindUser"
           \/ op = "createBucket" /\ FirstStep(op) = "FindName"
           \/ op = "listBuckets" /\ FirstStep(op) = "ListBuckets"
           \/ op = "getBucket" /\ FirstStep(op) = "GetBucket"
           \/ op = "createKey" /\ FirstStep(op) = "InsertKey"
           \/ op = "listKeys" /\ FirstStep(op) = "ListKeys"
           \/ op = "deleteKey" /\ FirstStep(op) = "DeleteKey"
BY PermissionNames DEF Operations, ObjectOps, FirstStep

-----------------------------------------------------------------------------
(* Each part is kept by every step.                                         *)

\* What a client may ask about has the type of its operation
LEMMA SubjectTypes ==
    ASSUME TypeOK, NEW op \in Operations, NEW on \in Subjects(op)
    PROVE  /\ on \in Emails \cup BucketNames \cup Ids \cup {Nobody}
                      \cup (Ids \X Permissions)
           /\ op = "createUser" => on \in Emails
           /\ op = "createBucket" => on \in BucketNames
           /\ op = "grant" => on \in Ids \X Permissions
           /\ op = "deleteKey" =>
                 on \in Requests /\ (on \in KnownKeys \/ \E k \in apiKeys : k.id = on)
<1>1. /\ \A u \in users : u.id \in Ids
      /\ \A k \in apiKeys : k.id \in Requests
      /\ Requests \subseteq Ids /\ KnownKeys \subseteq Requests
  BY DEF TypeOK, NameRow, KeyRow, Ids, KnownKeys
<1>2. CASE op = "grant"
  <2>1. Subjects(op) = {u.id : u \in users} \X Grantable
    BY <1>2 DEF Subjects
  <2>2. PICK i \in Ids, p \in Grantable : on = <<i, p>>
    BY <1>1, <2>1
  <2> QED
    BY <1>2, <2>2, AccessAssumption
<1>3. CASE op \in {"login", "createUser"}
  BY <1>3 DEF Subjects
<1>4. CASE op = "deleteKey"
  BY <1>1, <1>4 DEF Subjects
<1>5. CASE op \in {"createKey", "listKeys", "listBuckets"}
  BY <1>5 DEF Subjects
<1>6. CASE op \notin {"grant", "login", "createUser", "deleteKey", "createKey",
                      "listKeys", "listBuckets"}
  BY <1>6 DEF Subjects
<1> QED
  BY <1>2, <1>3, <1>4, <1>5, <1>6

LEMMA ControlStep ==
    ASSUME TypeOK, Arrays, StepsOfOps, AnswersOfSteps, [Next]_vars
    PROVE  (Arrays /\ StepsOfOps /\ AnswersOfSteps)'
<1> DEFINE Parts == Arrays /\ StepsOfOps /\ AnswersOfSteps
<1> USE DEF Arrays, StepsOfOps, AnswersOfSteps, Op, On
<1>1. CASE UNCHANGED vars
  BY <1>1 DEF vars
<1>2. CASE Tick
  BY <1>2 DEF Tick
<1>3. CASE Crash
  BY <1>3 DEF Crash, InFlight, TypeOK
<1>4. ASSUME NEW r \in Requests, Anonymous(r) \/ Malformed(r)
      PROVE  Parts'
  BY <1>4 DEF Anonymous, Malformed, At, Answer, TypeOK
<1>5. ASSUME NEW r \in Requests, Arrive(r)
      PROVE  Parts'
  <2>1. Step(r)
    BY <1>5 DEF Step
  <2>2. Op(r)' \in Operations
    BY <1>5, Arrivals, AccessAssumption
  <2>3. /\ Op(r)' = "createUser" => On(r)' \in Emails
        /\ Op(r)' = "createBucket" => On(r)' \in BucketNames
        /\ Op(r)' = "grant" => On(r)' \in Ids \X Permissions
    BY <1>5, <2>2, Arrivals, SubjectTypes
  <2>4. \/ pc'[r] \in {"New", "FindAccount", "FindKey"}
        \/ Op(r)' \in Operations \ (ObjectOps \cup {"login"})
    BY <1>5, <2>2, Arrivals
  <2> QED
    BY <1>5, <2>1, <2>2, <2>3, <2>4, Arrivals, OthersKept, FirstSteps
<1>6. ASSUME NEW r \in Requests, Calls(r)
      PROVE  Parts'
  <2>1. Step(r)
    BY <1>6 DEF Calls, Step
  <2> QED
    BY <1>6, <2>1, Moves, OthersKept
<1> QED
  BY <1>1, <1>2, <1>3, <1>4, <1>5, <1>6, StepCases DEF Next

\* Types: what is read comes from the tables, what is written from its request
LEMMA TypeStep ==
    ASSUME TypeOK, Arrays, StepsOfOps, [Next]_vars
    PROVE  TypeOK'
<1> USE AccessAssumption DEF history, tables
<1>1. CASE UNCHANGED vars
  BY <1>1 DEF vars, TypeOK
<1>2. CASE Tick
  BY <1>2 DEF Tick, TypeOK
<1>3. CASE Crash
  BY <1>3 DEF Crash, TypeOK, Statuses
<1>4. ASSUME NEW r \in Requests, Anonymous(r) \/ Malformed(r)
      PROVE  TypeOK'
  BY <1>4 DEF Anonymous, Malformed, Answer, TypeOK, Statuses
<1>5. ASSUME NEW r \in Requests, Arrive(r)
      PROVE  TypeOK'
  <2>1. Step(r)
    BY <1>5 DEF Step
  <2>2. /\ Op(r)' \in Operations /\ Op(r)' \in Asks
        /\ asked'[r].by \in Ids \cup {Nobody}
        /\ asked'[r].key \in Requests \cup {Nobody}
        /\ pc'[r] \in Steps /\ resp'[r] \in Statuses
    BY <1>5, Arrivals, FirstSteps DEF KnownKeys, Steps, Statuses
  <2>3. On(r)' \in Emails \cup BucketNames \cup Ids \cup {Nobody}
                    \cup (Ids \X Permissions)
    BY <1>5, <2>2, Arrivals, SubjectTypes
  <2>4. pc' \in [Requests -> Steps] /\ resp' \in [Requests -> Statuses]
    BY <1>5, <2>1, <2>2, OthersKept DEF Arrive, ByToken, Goto, Answer, TypeOK
  <2>5. arrived' \in [Requests -> 0..MaxTime] /\ before' \in [Requests -> SUBSET Requests]
    BY <1>5 DEF Arrive, TypeOK
  <2> QED
    BY <1>5, <2>1, <2>2, <2>3, <2>4, <2>5, OthersKept DEF Arrive, TypeOK, Op, On
<1>6. ASSUME NEW r \in Requests, Calls(r)
      PROVE  TypeOK'
  <2>1. Step(r) /\ UNCHANGED <<asked, before>>
    BY <1>6, Moves DEF Calls, Step
  <2>2. pc' \in [Requests -> Steps] /\ resp' \in [Requests -> Statuses]
    <3>1. pc'[r] \in Steps /\ resp'[r] \in Statuses
      BY <1>6, Moves DEF Steps, Statuses, TypeOK
    <3>2. \A q \in Requests : pc'[q] \in Steps /\ resp'[q] \in Statuses
      BY <2>1, <3>1, OthersKept DEF TypeOK
    <3> QED
      BY <2>1, <3>2, OthersKept
  <2>3. /\ users' \cup buckets' \subseteq NameRow
        /\ userPermissions' \subseteq Ids \X Permissions
        /\ apiKeys' \subseteq KeyRow
    <3>1. CASE InsertUser(r) \/ InsertBucket(r)
      <4>1. NewRow(r) \in NameRow
        BY <3>1 DEF InsertUser, InsertBucket, At, StepsOfOps, NewRow, NameRow, Ids
      <4> QED
        BY <3>1, <4>1 DEF InsertUser, InsertBucket, TypeOK
    <3>2. CASE Assign(r)
      BY <3>2 DEF Assign, At, StepsOfOps, TypeOK
    <3>3. CASE InsertKey(r)
      <4>1. now \in Int /\ KeyLives \subseteq Int
        BY DEF TypeOK
      <4>2. ASSUME NEW scope \in Scopes, NEW life \in KeyLives
            PROVE  [id |-> r, scope |-> scope, expires |-> now + life] \in KeyRow
        BY <4>1 DEF KeyRow
      <4>3. NewKeys(r) \subseteq KeyRow
        BY <4>2 DEF NewKeys
      <4> QED
        BY <3>3, <4>3 DEF InsertKey, TypeOK
    <3>4. CASE DeleteKey(r)
      BY <3>4 DEF DeleteKey, TypeOK
    <3> QED
      BY <2>1, <3>1, <3>2, <3>3, <3>4, TablesGrow DEF TypeOK
  <2>4. tokens' \subseteq Token
    <3>1. CASE ReadPermissions(r)
      <4>1. \A u \in held[r], i \in Ids : \A part \in Prefixes(Effective(i)) :
                part \subseteq Permissions
        BY DEF Prefixes, Effective
      <4>2. held[r] \subseteq NameRow \cup KeyRow
        BY DEF TypeOK
      <4>3. \A u \in held[r] : u.id \in Ids
        BY <4>2 DEF NameRow, KeyRow, Ids
      <4>4. now + TokenLife \in Int
        BY DEF TypeOK
      <4>5. ASSUME NEW u \in held[r], NEW part \in Prefixes(Effective(u.id))
            PROVE  [id |-> r, user |-> u.id, perms |-> part,
                    expires |-> now + TokenLife] \in Token
        BY <4>1, <4>3, <4>4 DEF Token, Ids
      <4> QED
        BY <3>1, <4>5 DEF ReadPermissions, TypeOK
    <3> QED
      BY <2>1, <3>1, TablesGrow DEF TypeOK
  <2>5. held'[r] \subseteq NameRow \cup KeyRow
    <3>1. \/ held'[r] = held[r]
          \/ held'[r] \subseteq users \/ held'[r] \subseteq buckets
          \/ held'[r] \subseteq apiKeys
      BY <1>6, HeldFrom
    <3> QED
      BY <3>1 DEF TypeOK
  <2>6. arrived' \in [Requests -> 0..MaxTime] /\ cut' \subseteq Requests
    BY <1>6 DEF TypeOK, Calls, FindAccount, ReadPermissions, FindEmail,
       InsertUser, FindName, InsertBucket, ListBuckets, ListKeys, Read, GetBucket,
       FindUser, FindPermission, Assign, InsertKey, DeleteKey, FindKey, CheckKey
  <2> QED
    BY <2>1, <2>2, <2>3, <2>4, <2>5, <2>6, OthersKept DEF TypeOK
<1> QED
  BY <1>1, <1>2, <1>3, <1>4, <1>5, <1>6, StepCases DEF Next

\* The INSERTs are refused for a name that is there
LEMMA NamesStep ==
    ASSUME NamesUnique, [Next]_vars
    PROVE  NamesUnique'
<1> USE DEF NamesUnique, tables
<1>1. CASE UNCHANGED vars \/ Tick \/ Crash
  BY <1>1 DEF vars, Tick, Crash
<1>2. ASSUME NEW r \in Requests, Step(r)
      PROVE  NamesUnique'
  <2>0. NewRow(r).name = On(r)
    BY DEF NewRow
  <2>1. CASE InsertUser(r)
    <3>1. /\ buckets' = buckets
          /\ \/ users' = users
             \/ users' = users \cup {NewRow(r)} /\ \A u \in users : u.name # On(r)
      BY <2>1 DEF InsertUser, Named
    <3> QED
      BY <2>0, <3>1
  <2>2. CASE InsertBucket(r)
    <3>1. /\ users' = users
          /\ \/ buckets' = buckets
             \/ buckets' = buckets \cup {NewRow(r)} /\ \A b \in buckets : b.name # On(r)
      BY <2>2 DEF InsertBucket, Named
    <3> QED
      BY <2>0, <3>1
  <2>3. CASE users' = users /\ buckets' = buckets
    BY <2>3
  <2>4. CASE InsertUser(r) \/ InsertBucket(r)
    BY <2>1, <2>2, <2>4
  <2> QED
    BY <1>2, <2>1, <2>2, <2>3, TablesGrow DEF InsertUser, InsertBucket
<1> QED
  BY <1>1, <1>2 DEF Next

\* A request signs or inserts in the step that answers it, and a key to be
\* deleted has been inserted
LEMMA MakersStep ==
    ASSUME TypeOK, Arrays, StepsOfOps, AnswersOfSteps, Makers, [Next]_vars
    PROVE  Makers'
<1> USE DEF Makers, Op, On, tables
<1>1. CASE UNCHANGED vars
  BY <1>1 DEF vars
<1>2. CASE Tick
  BY <1>2 DEF Tick
<1>3. CASE Crash
  BY <1>3 DEF Crash, TypeOK, KeyRow, InFlight
<1>4. ASSUME NEW r \in Requests, Anonymous(r) \/ Malformed(r)
      PROVE  Makers'
  BY <1>4 DEF Anonymous, Malformed, At, Answer, TypeOK, KeyRow
<1>5. ASSUME NEW r \in Requests, Arrive(r)
      PROVE  Makers'
  <2>1. Step(r)
    BY <1>5 DEF Step
  <2>2. Op(r)' \in Operations
    BY <1>5, Arrivals, AccessAssumption
  <2>3. Op(r)' = "deleteKey" =>
           /\ On(r)' \in Requests
           /\ On(r)' \in KnownKeys \/ \E k \in apiKeys : k.id = On(r)'
    BY <1>5, <2>2, Arrivals, SubjectTypes
  <2>4. Op(r)' = "deleteKey" =>
           pc[On(r)'] = "InsertKey" /\ resp[On(r)'] # "pending"
    BY <2>3 DEF KnownKeys, AnswersOfSteps, StepsOfOps
  <2>5. \A k \in apiKeys : k.id \in Requests
    BY DEF TypeOK, KeyRow
  <2> QED
    BY <1>5, <2>1, <2>3, <2>4, <2>5, Arrivals, OthersKept
<1>6. ASSUME NEW r \in Requests, Calls(r)
      PROVE  Makers'
  <2>1. Step(r) /\ UNCHANGED asked /\ resp[r] = "pending"
    BY <1>6, Moves DEF Calls, Step
  <2>2. \A k \in apiKeys : k.id \in Requests
    BY DEF TypeOK, KeyRow
  <2>3. \A q \in Requests : q # r => pc'[q] = pc[q] /\ resp'[q] = resp[q]
    BY <2>1, OthersKept
  <2>4. CASE ReadPermissions(r)
    <3>1. r # Admin
      BY AccessAssumption
    <3>2. \A t \in tokens' : t \in tokens \/ (t.id = r /\ tokens' = tokens \cup {t})
      BY <2>4 DEF ReadPermissions
    <3>3. tokens' # tokens => pc'[r] = "ReadPermissions" /\ resp'[r] = "200"
      BY <2>4 DEF ReadPermissions, At, Answer, TypeOK
    <3>4. \A t \in tokens : t.id # r
      BY <2>1, <3>1
    <3> QED
      BY <2>1, <2>2, <2>3, <2>4, <3>1, <3>2, <3>3, <3>4 DEF ReadPermissions
  <2>5. CASE InsertKey(r)
    <3>1. pc'[r] = "InsertKey" /\ resp'[r] # "pending"
      BY <2>5 DEF InsertKey, At, Answer, CreateKeyStatus, TypeOK
    <3>2. \A k \in NewKeys(r) : k.id = r
      BY DEF NewKeys
    <3>3. \/ apiKeys' = apiKeys
          \/ \E k : k.id = r /\ apiKeys' = apiKeys \cup {k}
      BY <2>5, <3>2 DEF InsertKey
    <3>4. tokens' = tokens /\ \A k \in apiKeys : k.id # r
      BY <2>1, <2>5 DEF InsertKey
    <3> QED
      BY <2>1, <2>2, <2>3, <3>1, <3>3, <3>4
  <2>6. CASE tokens' = tokens /\ apiKeys' \subseteq apiKeys
    BY <2>1, <2>2, <2>3, <2>6
  <2> QED
    BY <2>1, <2>4, <2>5, <2>6, TablesGrow DEF DeleteKey
<1> QED
  BY <1>1, <1>2, <1>3, <1>4, <1>5, <1>6, StepCases DEF Next

\* An answer is final, and so are the claims of a request that has one
LEMMA AnsweredKept ==
    ASSUME TypeOK, Arrays, [Next]_vars, NEW q \in Requests, resp[q] # "pending"
    PROVE  /\ pc'[q] = pc[q] /\ resp'[q] = resp[q] /\ asked'[q] = asked[q]
           /\ held'[q] = held[q] /\ arrived'[q] = arrived[q]
           /\ before'[q] = before[q] /\ (q \in cut' <=> q \in cut)
<1>1. CASE UNCHANGED vars \/ Tick
  BY <1>1 DEF vars, Tick, history
<1>2. CASE Crash
  BY <1>2 DEF Crash, InFlight, history, TypeOK
<1>3. ASSUME NEW r \in Requests, Step(r)
      PROVE  q # r
  BY <1>3, OthersKept
<1> QED
  BY <1>1, <1>2, <1>3, OthersKept DEF Next

\* The rows of what succeeded stay, but for keys that are deleted
LEMMA EffectsStep ==
    ASSUME TypeOK, Arrays, StepsOfOps, AnswersOfSteps, Makers, Effects, [Next]_vars
    PROVE  Effects'
<1> USE DEF Effects, Op, On, tables
<1>1. CASE UNCHANGED vars
  BY <1>1 DEF vars, NewRow
<1>2. CASE Tick
  BY <1>2 DEF Tick, NewRow
<1>3. CASE Crash
  BY <1>3 DEF Crash, TypeOK, NewRow
<1>4. ASSUME NEW r \in Requests, Anonymous(r) \/ Malformed(r)
      PROVE  Effects'
  BY <1>4 DEF Anonymous, Malformed, At, Answer, TypeOK, NewRow
<1>5. ASSUME NEW r \in Requests, Arrive(r)
      PROVE  Effects'
  <2>1. Step(r) /\ UNCHANGED tables
    BY <1>5 DEF Step, Arrive
  <2>2. pc[r] = "New" /\ resp[r] = "pending" /\ resp'[r] \notin {"201", "204"}
    BY <1>5, Arrivals
  <2>3. ~(pc'[r] = "Assign" /\ resp'[r] = "200")
    BY <1>5, Arrivals
  <2>4. \A d \in Requests : Op(d) = "deleteKey" => d # r
    BY <2>2 DEF StepsOfOps
  <2> QED
    BY <2>1, <2>2, <2>3, <2>4, OthersKept DEF NewRow
<1>6. ASSUME NEW r \in Requests, Calls(r)
      PROVE  Effects'
  <2>1. Step(r) /\ UNCHANGED asked /\ resp[r] = "pending"
    BY <1>6, Moves DEF Calls, Step
  <2>2. \A q \in Requests : q # r => pc'[q] = pc[q] /\ resp'[q] = resp[q]
    BY <2>1, OthersKept
  <2>3. \A q \in Requests : NewRow(q)' = NewRow(q)
    BY <2>1 DEF NewRow
  <2>4. CASE InsertKey(r)
    <3>0. \A k \in NewKeys(r) : k.id = r
      BY DEF NewKeys
    <3>1. pc'[r] = "InsertKey"
      BY <2>4 DEF InsertKey, At, Answer
    <3>2. resp'[r] = "201" => \E k \in apiKeys' : k.id = r
      BY <2>4, <3>0 DEF InsertKey, Answer, CreateKeyStatus, TypeOK
    <3>3. apiKeys \subseteq apiKeys' /\ \A k \in apiKeys' : k \in apiKeys \/ k.id = r
      BY <2>4, <3>0 DEF InsertKey
    <3>4. \A d \in Requests : pc[d] = "DeleteKey" => On(d) # r
      BY <2>1 DEF StepsOfOps, Makers
    <3> QED
      BY <2>1, <2>2, <2>3, <3>1, <3>2, <3>3, <3>4, TablesGrow
  <2>5. CASE DeleteKey(r)
    <3>1. pc[r] = "DeleteKey" /\ pc'[r] = "DeleteKey" /\ Op(r) = "deleteKey"
      BY <2>5 DEF DeleteKey, At, Answer, StepsOfOps
    <3>2. resp'[r] = "204" => \A k \in apiKeys' : k.id # On(r)
      BY <2>5 DEF DeleteKey, Answer, DeleteKeyStatus, TypeOK
    <3>3. apiKeys' \subseteq apiKeys
          /\ \A k \in apiKeys : k \in apiKeys' \/ k.id = On(r)
      BY <2>5 DEF DeleteKey
    <3> QED
      BY <2>1, <2>2, <2>3, <3>1, <3>2, <3>3, TablesGrow
  <2>6. CASE ~InsertKey(r) /\ ~DeleteKey(r)
    <3>1. apiKeys' = apiKeys
      BY <2>1, <2>6, TablesGrow
    <3>2. /\ pc'[r] = "InsertKey" => resp'[r] # "201"
          /\ pc'[r] = "DeleteKey" => resp'[r] # "204"
      BY <1>6, <2>6, OwnStep, Moves
    <3>3. pc'[r] = "InsertUser" /\ resp'[r] = "201" => NewRow(r) \in users'
      <4>1. CASE InsertUser(r)
        BY <4>1 DEF InsertUser, Answer, CreateUserStatus, TypeOK
      <4> QED
        BY <1>6, <4>1, OwnStep, Moves
    <3>4. pc'[r] = "InsertBucket" /\ resp'[r] = "201" => NewRow(r) \in buckets'
      <4>1. CASE InsertBucket(r)
        BY <4>1 DEF InsertBucket, Answer, CreateBucketStatus, TypeOK
      <4> QED
        BY <1>6, <4>1, OwnStep, Moves
    <3>5. pc'[r] = "Assign" /\ resp'[r] = "200" => On(r) \in userPermissions'
      <4>1. CASE Assign(r)
        BY <4>1 DEF Assign, Answer, GrantStatus, TypeOK
      <4> QED
        BY <1>6, <4>1, OwnStep, Moves
    <3> QED
      BY <2>1, <2>2, <2>3, <3>1, <3>2, <3>3, <3>4, <3>5, TablesGrow
  <2> QED
    BY <2>4, <2>5, <2>6
<1> QED
  BY <1>1, <1>2, <1>3, <1>4, <1>5, <1>6, StepCases DEF Next

\* Which step a success of each change was answered by
LEMMA ChangesDone ==
    ASSUME StepsOfOps, AnswersOfSteps, NEW q \in Requests, resp[q] \in Success
    PROVE  /\ Op(q) = "createBucket" => pc[q] = "InsertBucket" /\ resp[q] = "201"
           /\ Op(q) = "grant" => pc[q] = "Assign" /\ resp[q] = "200"
           /\ Op(q) = "createKey" => pc[q] = "InsertKey" /\ resp[q] = "201"
           /\ Op(q) = "deleteKey" => pc[q] = "DeleteKey" /\ resp[q] = "204"
BY DEF StepsOfOps, AnswersOfSteps, Success, ObjectOps

LEMMA BeforeStep ==
    ASSUME TypeOK, Arrays, BeforeOver, [Next]_vars
    PROVE  BeforeOver'
<1> SUFFICES ASSUME NEW r \in Requests, NEW q \in before'[r]
             PROVE  Op(q)' \in Changes /\ resp'[q] \in Success
  BY DEF BeforeOver
<1>1. q \in Requests /\ Op(q) \in Changes /\ resp[q] \in Success
  <2>1. CASE UNCHANGED before
    BY <2>1 DEF BeforeOver, TypeOK
  <2>2. ASSUME NEW p \in Requests, Step(p)
        PROVE  q \in Requests /\ Op(q) \in Changes /\ resp[q] \in Success
    <3>1. CASE Arrive(p)
      BY <2>2, <3>1, Arrivals, OthersKept DEF BeforeOver, TypeOK
    <3>2. CASE UNCHANGED before
      BY <3>2 DEF BeforeOver, TypeOK
    <3> QED
      BY <2>2, <3>1, <3>2, StepCases, Moves DEF Anonymous, Malformed, history
  <2> QED
    BY <2>1, <2>2 DEF Next, vars, Tick, Crash, history
<1> QED
  BY <1>1, AnsweredKept DEF Success, Op

\* Permissions are never taken away
LEMMA PermsStep ==
    ASSUME PermsReal, [Next]_vars
    PROVE  PermsReal'
<1>1. userPermissions \subseteq userPermissions' /\ tokens \subseteq tokens'
  BY TablesGrow DEF Next, vars, Tick, Crash, tables
<1>2. \A u : Effective(u) \subseteq Effective(u)'
  BY <1>1 DEF Effective
<1>3. ASSUME NEW t \in tokens' \ tokens
      PROVE  t.perms \subseteq Effective(t.user)
  <2>1. PICK r \in Requests : ReadPermissions(r)
    BY <1>3, TablesGrow DEF Next, vars, Tick, Crash
  <2>2. PICK u \in held[r] : \E part \in Prefixes(Effective(u.id)) :
            t = [id |-> r, user |-> u.id, perms |-> part, expires |-> now + TokenLife]
    BY <1>3, <2>1 DEF ReadPermissions
  <2>3. PICK part \in Prefixes(Effective(u.id)) :
            t = [id |-> r, user |-> u.id, perms |-> part, expires |-> now + TokenLife]
    BY <2>2
  <2>4. part \subseteq Effective(u.id)
    BY DEF Prefixes
  <2> QED
    BY <2>3, <2>4
<1> QED
  BY <1>2, <1>3 DEF PermsReal

\* A JWT is looked at once, when it comes
LEMMA ByTokenStep ==
    ASSUME TypeOK, Arrays, ByRightOfToken, [Next]_vars
    PROVE  ByRightOfToken'
<1> USE DEF ByRightOfToken, Op
<1>1. CASE UNCHANGED vars
  BY <1>1 DEF vars, history
<1>2. CASE Tick
  BY <1>2 DEF Tick, history
<1>3. CASE Crash
  BY <1>3 DEF Crash, InFlight, TypeOK, history
<1>4. ASSUME NEW r \in Requests, Anonymous(r) \/ Malformed(r)
      PROVE  ByRightOfToken'
  BY <1>4 DEF Anonymous, Malformed, At, Answer, TypeOK, history
<1>5. ASSUME NEW r \in Requests, Arrive(r)
      PROVE  ByRightOfToken'
  <2>1. Step(r)
    BY <1>5 DEF Step
  <2> QED
    BY <1>5, <2>1, Arrivals, OthersKept, TablesGrow
<1>6. ASSUME NEW r \in Requests, Calls(r)
      PROVE  ByRightOfToken'
  <2>1. Step(r)
    BY <1>6 DEF Calls, Step
  <2>2. arrived' = arrived \/ pc'[r] \in {"FindKey", "CheckKey"}
    BY <1>6 DEF Calls, FindAccount, ReadPermissions, FindEmail,
       InsertUser, FindName, InsertBucket, ListBuckets, ListKeys, Read, GetBucket,
       FindUser, FindPermission, Assign, InsertKey, DeleteKey, FindKey, CheckKey,
       history, At, Goto, Answer, TypeOK
  <2> QED
    BY <1>6, <2>1, <2>2, Moves, OthersKept, TablesGrow
<1> QED
  BY <1>1, <1>2, <1>3, <1>4, <1>5, <1>6, StepCases DEF Next

\* The expiry of a key is compared with a clock that is read after the row
LEMMA ByKeyStep ==
    ASSUME TypeOK, Arrays, ByRightOfKey, [Next]_vars
    PROVE  ByRightOfKey'
<1> USE DEF ByRightOfKey, Op, On, CanAccessBucket
<1>1. CASE UNCHANGED vars
  BY <1>1 DEF vars, history
<1>2. CASE Tick
  BY <1>2 DEF Tick, history, TypeOK
<1>3. CASE Crash
  BY <1>3 DEF Crash, TypeOK, history
<1>4. ASSUME NEW r \in Requests, Anonymous(r) \/ Malformed(r)
      PROVE  ByRightOfKey'
  BY <1>4 DEF Anonymous, Malformed, At, Answer, TypeOK, history
<1>5. ASSUME NEW r \in Requests, Arrive(r)
      PROVE  ByRightOfKey'
  <2>1. Step(r) /\ pc'[r] # "CheckKey"
    <3>1. Op(r)' \in Operations
      BY <1>5, Arrivals, AccessAssumption
    <3> QED
      BY <1>5, <3>1, Arrivals, FirstSteps DEF Step
  <2> QED
    BY <1>5, <2>1, OthersKept
<1>6. ASSUME NEW r \in Requests, Calls(r)
      PROVE  ByRightOfKey'
  <2>1. Step(r) /\ UNCHANGED asked
    BY <1>6, Moves DEF Calls, Step
  <2>2. CASE FindKey(r)
    <3>1. pc'[r] = "CheckKey" =>
             /\ held'[r] = {k \in apiKeys : k.id = asked[r].key}
             /\ arrived'[r] = now /\ now' = now /\ resp'[r] = "pending"
      BY <2>2 DEF FindKey, At, Goto, Answer, TypeOK, Arrays
    <3>2. now <= now /\ apiKeys \subseteq KeyRow
      BY DEF TypeOK
    <3> QED
      BY <2>1, <3>1, <3>2, OthersKept
  <2>3. CASE CheckKey(r)
    <3>1. UNCHANGED <<pc, held, arrived, now>> /\ pc[r] = "CheckKey"
      BY <2>3 DEF CheckKey, At, Answer, history
    <3>2. resp'[r] = "200" => \E k \in held[r] : now <= k.expires /\ CanAccessBucket(k, On(r))
      BY <2>3 DEF CheckKey, Answer, TypeOK, KeyValid
    <3>3. /\ arrived[r] <= now /\ arrived[r] \in Int /\ now \in Int
          /\ \A k \in held[r] : k.expires \in Int
      BY <3>1 DEF TypeOK, KeyRow
    <3>4. resp'[r] = "200" =>
             \E k \in held[r] : arrived[r] <= k.expires /\ CanAccessBucket(k, On(r))
      BY <3>2, <3>3
    <3> QED
      BY <2>1, <3>1, <3>4, OthersKept
  <2>4. CASE ~FindKey(r) /\ ~CheckKey(r)
    <3>1. pc'[r] # "CheckKey"
      BY <1>6, <2>4, Moves, OwnStep
    <3> QED
      BY <2>1, <3>1, OthersKept
  <2> QED
    BY <2>2, <2>3, <2>4
<1> QED
  BY <1>1, <1>2, <1>3, <1>4, <1>5, <1>6, StepCases DEF Next

\* A key that was deleted before a request came is not found by it
LEMMA HeldStep ==
    ASSUME TypeOK, Arrays, StepsOfOps, AnswersOfSteps, Effects, BeforeOver,
           HeldNotDeleted, [Next]_vars
    PROVE  HeldNotDeleted'
<1> SUFFICES ASSUME NEW r \in Requests, NEW d \in before'[r],
                    pc'[r] = "CheckKey", Op(d)' = "deleteKey"
             PROVE  \A k \in held'[r] : k.id # On(d)'
  BY DEF HeldNotDeleted
<1>1. CASE before'[r] = before[r] /\ held'[r] = held[r] /\ pc[r] = "CheckKey"
  <2>1. d \in Requests /\ resp[d] # "pending"
    BY <1>1 DEF BeforeOver, TypeOK, Success
  <2>2. asked'[d] = asked[d]
    BY <2>1, AnsweredKept
  <2> QED
    BY <1>1, <2>2 DEF HeldNotDeleted, Op, On
<1>2. CASE FindKey(r)
  <2>1. /\ before' = before /\ asked' = asked
        /\ held'[r] \subseteq apiKeys
    BY <1>2 DEF FindKey, At, Goto, Answer, TypeOK, Arrays
  <2>2. d \in Requests /\ resp[d] \in Success /\ Op(d) = "deleteKey"
    BY <2>1 DEF BeforeOver, TypeOK, Op
  <2>3. \A k \in apiKeys : k.id # On(d)
    BY <2>2, ChangesDone DEF Effects
  <2> QED
    BY <2>1, <2>3 DEF On
<1>3. \/ before'[r] = before[r] /\ held'[r] = held[r] /\ pc[r] = "CheckKey"
      \/ FindKey(r)
  <2>1. CASE UNCHANGED vars \/ Tick \/ Crash
    BY <2>1 DEF vars, Tick, Crash, history
  <2>2. ASSUME NEW q \in Requests \ {r}, Step(q)
        PROVE  before'[r] = before[r] /\ held'[r] = held[r] /\ pc[r] = "CheckKey"
    BY <2>2, OthersKept
  <2>3. CASE Anonymous(r) \/ Malformed(r)
    BY <2>3 DEF Anonymous, Malformed, At, Answer
  <2>4. CASE Arrive(r)
    <3>1. Op(r)' \in Operations
      BY <2>4, Arrivals, AccessAssumption
    <3> QED
      BY <2>4, <3>1, Arrivals, FirstSteps
  <2>5. CASE Calls(r)
    <3>1. CASE pc[r] = "CheckKey"
      BY <2>5, <3>1, OwnStep, Moves DEF CheckKey, history
    <3>2. CASE pc[r] # "CheckKey"
      BY <2>5, <3>2, OwnStep, Moves
    <3> QED
      BY <3>1, <3>2
  <2> QED
    BY <2>1, <2>2, <2>3, <2>4, <2>5, StepCases DEF Next
<1> QED
  BY <1>1, <1>2, <1>3

LEMMA BlankStep ==
    ASSUME TypeOK, Arrays, Blank, [Next]_vars
    PROVE  Blank'
<1> USE DEF Blank
<1>1. CASE UNCHANGED vars \/ Tick \/ Crash
  BY <1>1 DEF vars, Tick, Crash, InFlight, TypeOK
<1>2. ASSUME NEW r \in Requests, Step(r)
      PROVE  Blank'
  <2>1. pc'[r] = "New" => resp'[r] # "pending"
    <3>1. CASE Anonymous(r) \/ Malformed(r)
      BY <3>1 DEF Anonymous, Malformed, Answer, TypeOK
    <3>2. CASE Arrive(r)
      <4>1. Op(r)' \in Operations
        BY <3>2, Arrivals, AccessAssumption
      <4> QED
        BY <3>2, <4>1, Arrivals, FirstSteps
    <3> QED
      BY <1>2, <3>1, <3>2, StepCases, Moves
  <2> QED
    BY <1>2, <2>1, OthersKept
<1> QED
  BY <1>1, <1>2 DEF Next

LEMMA BroughtStep ==
    ASSUME TypeOK, Arrays, Brought, [Next]_vars
    PROVE  Brought'
<1> USE DEF Brought, Op
<1>1. CASE UNCHANGED vars
  BY <1>1 DEF vars
<1>2. CASE Tick \/ Crash
  BY <1>2 DEF Tick, Crash
<1>3. ASSUME NEW r \in Requests, Anonymous(r) \/ Malformed(r)
      PROVE  Brought'
  BY <1>3 DEF Anonymous, Malformed, Answer
<1>4. ASSUME NEW r \in Requests, Arrive(r)
      PROVE  Brought'
  <2>1. Step(r) /\ UNCHANGED <<tokens, held>> /\ held[r] = {}
    BY <1>4 DEF Step, Arrive, At
  <2>2. asked'[r].by # Nobody => \E t \in tokens : t.id = asked'[r].by
    <3>1. PICK op \in Asks, by \in Ids \cup {Nobody}, key \in KnownKeys \cup {Nobody} :
          \E on \in Subjects(op) :
              /\ asked' = [asked EXCEPT ![r] =
                              [op |-> op, by |-> by, key |-> key, on |-> on]]
              /\ \/ op = "login" /\ by = Nobody
                 \/ ByToken(r, op, by)
                 \/ \E t \in tokens : by \in {t.id, Nobody}
      BY <1>4 DEF Arrive
    <3>2. asked'[r].by = by
      BY <3>1 DEF Arrays
    <3> QED
      BY <3>1, <3>2 DEF ByToken
  <2> QED
    BY <2>1, <2>2, OthersKept
<1>5. ASSUME NEW r \in Requests, Calls(r)
      PROVE  Brought'
  <2>1. Step(r) /\ UNCHANGED asked
    BY <1>5, Moves DEF Calls, Step
  <2>2. pc'[r] \in {"New", "FindKey"} => held'[r] = {}
    BY <1>5, Moves, OwnStep DEF FindKey, At, Goto, Answer, TypeOK
  <2> QED
    BY <2>1, <2>2, OthersKept, TablesGrow
<1> QED
  BY <1>1, <1>2, <1>3, <1>4, <1>5, StepCases DEF Next

\* A login reads all permissions in one statement, so that it sees every grant
\* that was over when it came
LEMMA GrantsStep ==
    ASSUME TypeOK, Arrays, StepsOfOps, AnswersOfSteps, Makers, Effects, BeforeOver,
           GrantsReachTokens, [Next]_vars
    PROVE  GrantsReachTokens'
<1> SUFFICES ASSUME NEW g \in Requests, NEW t \in tokens',
                    Op(g)' = "grant", resp'[g] = "200", On(g)'[1] = t.user,
                    t.id \in Requests \ cut', g \in before'[t.id]
             PROVE  On(g)'[2] \in t.perms
  BY DEF GrantsReachTokens
<1>1. CASE t \in tokens
  <2>1. t.id # Admin /\ resp[t.id] # "pending"
    BY <1>1, AccessAssumption DEF Makers
  <2>2. g \in before[t.id] /\ t.id \notin cut
    BY <2>1, AnsweredKept
  <2>3. resp[g] # "pending"
    BY <2>2 DEF BeforeOver, Success
  <2>4. resp'[g] = resp[g] /\ asked'[g] = asked[g]
    BY <2>3, AnsweredKept
  <2> QED
    BY <1>1, <2>2, <2>4 DEF GrantsReachTokens, Op, On
<1>2. CASE t \notin tokens
  <2>1. PICK r \in Requests : ReadPermissions(r)
    BY <1>2, TablesGrow DEF Next, vars, Tick, Crash
  <2>2. PICK u \in held[r] : \E part \in Prefixes(Effective(u.id)) :
            /\ tokens' = tokens \cup {[id |-> r, user |-> u.id, perms |-> part,
                                       expires |-> now + TokenLife]}
            /\ cut' = IF part = Effective(u.id) THEN cut ELSE cut \cup {r}
    BY <1>2, <2>1 DEF ReadPermissions
  <2>3. PICK part \in Prefixes(Effective(u.id)) :
            /\ t = [id |-> r, user |-> u.id, perms |-> part,
                    expires |-> now + TokenLife]
            /\ cut' = IF part = Effective(u.id) THEN cut ELSE cut \cup {r}
    BY <1>2, <2>2
  <2>4. t.id = r /\ t.user = u.id /\ t.perms = Effective(u.id)
    BY <2>3
  <2>5. g \in before[r] /\ UNCHANGED asked
    BY <2>1, <2>4 DEF ReadPermissions
  <2>6. resp[g] \in Success /\ Op(g) = "grant" /\ On(g)' = On(g)
    BY <2>5 DEF BeforeOver, Op, On
  <2>7. On(g) \in userPermissions /\ On(g) \in Ids \X Permissions
    BY <2>6, ChangesDone DEF Effects, StepsOfOps
  <2>8. On(g) = <<u.id, On(g)[2]>> /\ On(g)[2] \in Permissions
    BY <2>4, <2>6, <2>7
  <2> QED
    BY <2>4, <2>6, <2>7, <2>8 DEF Effective
<1> QED
  BY <1>1, <1>2

\* A read is one statement as well
LEMMA ReadsStep ==
    ASSUME TypeOK, Arrays, StepsOfOps, AnswersOfSteps, Makers, Effects, BeforeOver,
           ReadsCurrent, [Next]_vars
    PROVE  ReadsCurrent'
<1> SUFFICES ASSUME NEW q \in Requests, NEW r \in Requests, q \in before'[r],
                    resp'[r] \in {"200", "404"}, r \notin cut'
             PROVE  LET shownIds == {x.id : x \in held'[r]} IN
                    /\ Op(q)' = "createBucket" /\ Op(r)' = "listBuckets" => q \in shownIds
                    /\ Op(q)' = "createBucket" /\ Op(r)' = "getBucket"
                          /\ On(q)' = On(r)' => q \in shownIds
                    /\ Op(q)' = "createKey" /\ Op(r)' = "listKeys" =>
                          \/ q \in shownIds
                          \/ \E d \in Requests : Op(d)' = "deleteKey" /\ On(d)' = q
                    /\ Op(q)' = "deleteKey" /\ Op(r)' = "listKeys" =>
                          On(q)' \notin shownIds
  BY DEF ReadsCurrent
<1> DEFINE shownIds == {x.id : x \in held'[r]}
<1>1. \A d \in Requests : Op(d) = "deleteKey" => Op(d)' = "deleteKey" /\ On(d)' = On(d)
  <2>1. CASE UNCHANGED asked
    BY <2>1 DEF Op, On
  <2>2. ASSUME NEW p \in Requests, Arrive(p)
        PROVE  \A d \in Requests : Op(d) = "deleteKey" => asked'[d] = asked[d]
    BY <2>2, Arrivals, OthersKept DEF Step, StepsOfOps
  <2> QED
    BY <2>1, <2>2, StepCases, Moves DEF Next, vars, Tick, Crash, Anonymous, Malformed,
       Op, On
<1>2. CASE resp[r] # "pending"
  <2>1. /\ resp'[r] = resp[r] /\ asked'[r] = asked[r] /\ held'[r] = held[r]
        /\ before'[r] = before[r] /\ r \notin cut
    BY <1>2, AnsweredKept
  <2>2. resp[q] # "pending"
    BY <2>1 DEF BeforeOver, Success
  <2>3. asked'[q] = asked[q]
    BY <2>2, AnsweredKept
  <2> QED
    BY <1>1, <2>1, <2>3 DEF ReadsCurrent, Op, On
<1>3. CASE resp[r] = "pending"
  <2>1. Arrive(r) \/ Calls(r)
    <3>1. CASE UNCHANGED vars \/ Tick \/ Crash
      BY <1>3, <3>1 DEF vars, Tick, Crash, InFlight
    <3>2. ASSUME NEW p \in Requests, Step(p)
          PROVE  Arrive(r) \/ Calls(r)
      <4>1. p = r
        BY <1>3, <3>2, OthersKept
      <4>2. ~Anonymous(r) /\ ~Malformed(r)
        BY DEF Anonymous, Malformed, Answer, TypeOK
      <4> QED
        BY <3>2, <4>1, <4>2, StepCases
    <3> QED
      BY <3>1, <3>2 DEF Next
  <2>2. CASE Arrive(r)
    BY <2>2, Arrivals DEF ObjectOps
  <2>3. CASE Calls(r)
    <3>1. UNCHANGED <<asked, before>> /\ pc'[r] = pc[r]
      BY <2>3, Moves
    <3>2. resp[q] \in Success
      BY <3>1 DEF BeforeOver
    <3>3. /\ Op(q) = "createBucket" => \E b \in buckets : b = NewRow(q)
          /\ Op(q) = "createKey" =>
                \/ \E k \in apiKeys : k.id = q
                \/ \E d \in Requests : Op(d) = "deleteKey" /\ On(d) = q
          /\ Op(q) = "deleteKey" => \A k \in apiKeys : k.id # On(q)
      BY <3>2, ChangesDone DEF Effects
    <3>4. NewRow(q).id = q /\ NewRow(q).name = On(q)
      BY DEF NewRow
    <3>5. /\ Op(r) = "listBuckets" => ListBuckets(r)
          /\ Op(r) = "getBucket" => GetBucket(r)
          /\ Op(r) = "listKeys" => ListKeys(r)
      BY <2>3, Moves, OwnStep DEF StepsOfOps, ObjectOps
    <3>6. CASE ListBuckets(r)
      <4>1. held'[r] = buckets /\ Op(r) = "listBuckets"
        BY <3>6 DEF ListBuckets, Read, At, Answer, TypeOK, Arrays, StepsOfOps
      <4> QED
        BY <3>1, <3>3, <3>4, <4>1 DEF Op, On
    <3>7. CASE GetBucket(r)
      <4>1. \A b \in buckets : b.name = On(r) => b \in held'[r]
        BY <3>7 DEF GetBucket, Named, Answer, TypeOK, Arrays
      <4>2. Op(r) = "getBucket"
        BY <3>7 DEF GetBucket, At, StepsOfOps
      <4> QED
        BY <3>1, <3>3, <3>4, <4>1, <4>2 DEF Op, On
    <3>8. CASE ListKeys(r)
      <4>1. held'[r] = apiKeys /\ Op(r) = "listKeys"
        BY <3>8 DEF ListKeys, Read, At, Answer, TypeOK, Arrays, StepsOfOps
      <4> QED
        BY <1>1, <3>1, <3>3, <4>1 DEF Op, On
    <3> QED
      BY <3>1, <3>5, <3>6, <3>7, <3>8 DEF Op
  <2> QED
    BY <2>1, <2>2, <2>3
<1> QED
  BY <1>2, <1>3

LEMMA Inductive == IInv /\ [Next]_vars => IInv'
BY TypeStep, ControlStep, NamesStep, MakersStep, EffectsStep, BeforeStep, PermsStep,
   ByTokenStep, ByKeyStep, HeldStep, BlankStep, BroughtStep, GrantsStep, ReadsStep DEF IInv

LEMMA InductiveInvariant == Spec => []IInv
BY InitIInv, Inductive, PTL DEF Spec

-----------------------------------------------------------------------------
(* What the invariant says.                                                 *)

\* Every variable keeps its type, for any requests and faults.
THEOREM TypeCorrect == Spec => []TypeOK
<1>1. IInv => TypeOK
  BY DEF IInv
<1> QED
  BY <1>1, InductiveInvariant, PTL

\* Look-up then INSERT makes one owner of a name, thanks to the unique indexes.
THEOREM NamesHaveOneOwner == Spec => []OneOwner
<1>1. IInv => OneOwner
  <2> SUFFICES ASSUME IInv, NEW r \in Requests, Created(r)
               PROVE  Named(IF Op(r) = "createUser" THEN users ELSE buckets, On(r))
                          = {NewRow(r)}
    BY DEF OneOwner
  <2>1. NewRow(r).name = On(r)
    BY DEF NewRow
  <2>2. CASE Op(r) = "createUser"
    <3>1. NewRow(r) \in users
      BY <2>2 DEF IInv, Created, AnswersOfSteps, StepsOfOps, Effects
    <3> QED
      BY <2>1, <2>2, <3>1 DEF IInv, NamesUnique, Named
  <2>3. CASE Op(r) = "createBucket"
    <3>1. NewRow(r) \in buckets
      BY <2>3 DEF IInv, Created, AnswersOfSteps, StepsOfOps, Effects
    <3> QED
      BY <2>1, <2>3, <3>1 DEF IInv, NamesUnique, Named
  <2> QED
    BY <2>2, <2>3 DEF Created
<1> QED
  BY <1>1, InductiveInvariant, PTL

\* A grant that was answered reaches every later login of its user.
THEOREM GrantsReachLogins == Spec => []GrantsReachTokens
<1>1. IInv => GrantsReachTokens
  BY DEF IInv
<1> QED
  BY <1>1, InductiveInvariant, PTL

\* Auth, RequirePermission and ObjectAccess serve nobody without the right.
THEOREM ServedByRight == Spec => []LetInByRight
<1>1. IInv => LetInByRight
  <2> SUFFICES ASSUME IInv, NEW r \in Requests, Served(r)
               PROVE  IF Op(r) \in ObjectOps /\ asked[r].key # Nobody
                      THEN \E k \in held[r] :
                              /\ k.id = asked[r].key
                              /\ arrived[r] <= k.expires
                              /\ CanAccessBucket(k, On(r))
                      ELSE \E t \in tokens :
                              /\ t.id = asked[r].by
                              /\ Needs(Op(r)) \in Effective(t.user)
                              /\ arrived[r] < t.expires
    BY DEF LetInByRight
  <2>1. CASE Op(r) \in ObjectOps /\ asked[r].key # Nobody
    <3>1. pc[r] = "CheckKey" /\ resp[r] = "200"
      BY <2>1 DEF Served, Success, IInv, AnswersOfSteps, StepsOfOps, ObjectOps
    <3> QED
      BY <2>1, <3>1 DEF IInv, ByRightOfKey
  <2>2. CASE ~(Op(r) \in ObjectOps /\ asked[r].key # Nobody)
    <3>1. /\ pc[r] \notin {"FindAccount", "ReadPermissions", "FindKey", "CheckKey"}
          /\ pc[r] = "New" => resp[r] = "200"
      BY <2>2 DEF Served, Success, IInv, AnswersOfSteps, StepsOfOps
    <3> QED
      BY <2>2, <3>1 DEF IInv, ByRightOfToken, PermsReal
  <2> QED
    BY <2>1, <2>2
<1> QED
  BY <1>1, InductiveInvariant, PTL

\* ObjectAccess looks a key up anew for each request, so a deleted one is refused.
THEOREM DeletedKeysOpenNothing == Spec => []DeletedKeyRefused
<1>1. IInv => DeletedKeyRefused
  <2> SUFFICES ASSUME IInv, NEW d \in Requests, NEW r \in Requests,
                      Op(d) = "deleteKey", d \in before[r],
                      Op(r) \in ObjectOps, asked[r].key = On(d), resp[r] = "200"
               PROVE  FALSE
    BY DEF DeletedKeyRefused
  <2>1. On(d) \in Requests /\ asked[r].key # Nobody
    BY AccessAssumption DEF IInv, Makers, Ids
  <2>2. pc[r] = "CheckKey"
    BY <2>1 DEF IInv, AnswersOfSteps, StepsOfOps, ObjectOps
  <2>3. PICK k \in held[r] : k.id = On(d)
    BY <2>2 DEF IInv, ByRightOfKey
  <2> QED
    BY <2>2, <2>3 DEF IInv, HeldNotDeleted
<1> QED
  BY <1>1, InductiveInvariant, PTL

\* Listings and look-ups show what was answered before they were asked.
THEOREM ReadsAreCurrent == Spec => []ReadsCurrent
<1>1. IInv => ReadsCurrent
  BY DEF IInv
<1> QED
  BY <1>1, InductiveInvariant, PTL

-----------------------------------------------------------------------------
(* JWTs and API keys are capabilities.                                      *)

Spent == Issued \ Alive
Used == {r \in Requests : Served(r)}
mapped == <<Alive, Spent, [r \in Requests |-> Showed(r)], Used>>

\* Nothing is alive that was not issued, and it was issued by a request that is
\* over
LEMMA AliveIssued ==
    ASSUME IInv
    PROVE  /\ Alive \subseteq Issued /\ Issued \subseteq Ids
           /\ \A t \in tokens : t.id \in Issued
           /\ \A k \in apiKeys : k.id \in Issued
<1>1. Issued \subseteq Ids
  BY DEF Issued, Ids
<1>2. \A t \in tokens : t.id \in Issued
  BY DEF IInv, Makers, Issued
<1>3. \A k \in apiKeys : k.id \in Requests
  BY DEF IInv, TypeOK, KeyRow
<1>4. \A k \in apiKeys : k.id \in Issued
  BY <1>3 DEF IInv, Makers, Issued
<1> QED
  BY <1>1, <1>2, <1>4 DEF Alive

\* A step in which what was issued grows or what is alive shrinks, and nothing
\* is shown, is a revocation
LEMMA RevokeCase ==
    ASSUME IInv, IInv', Issued \subseteq Issued', Alive' \subseteq Alive,
           UNCHANGED [r \in Requests |-> Showed(r)],
           \/ UNCHANGED Used
           \/ \E r \in Requests : Showed(r) # {} /\ Used' = Used \cup {r}
    PROVE  C!Next \/ UNCHANGED mapped
<1>1. Alive \subseteq Issued /\ Alive' \subseteq Issued'
  BY AliveIssued
<1>2. Issued' \subseteq Ids
  BY DEF Issued, Ids
<1>3. C!Serving \/ C!Quiet
  BY DEF C!Serving, C!Quiet, Used, Showed
<1>4. CASE Spent' # Spent
  <2>1. Spent \subseteq Spent' /\ Spent' \subseteq Ids
    BY <1>1, <1>2 DEF Spent
  <2>2. Alive' = Alive \ Spent'
    BY <1>1 DEF Spent
  <2>3. C!Revoke
    BY <1>3, <1>4, <2>1, <2>2 DEF C!Revoke, Spent, Used, Showed
  <2> QED
    BY <2>3 DEF C!Next
<1>5. CASE Spent' = Spent
  <2>1. Alive' = Alive
    BY <1>1, <1>5 DEF Spent
  <2>2. CASE Used' = Used
    BY <1>5, <2>1, <2>2 DEF mapped
  <2>3. CASE Used' # Used
    <3>1. C!Use
      BY <1>3, <1>5, <2>1, <2>3 DEF C!Use, C!Quiet, C!Serving, Spent, Used, Showed
    <3> QED
      BY <3>1 DEF C!Next
  <2> QED
    BY <2>2, <2>3
<1> QED
  BY <1>4, <1>5

\* A request is over and has issued one
LEMMA IssueCase ==
    ASSUME IInv, NEW c \in Ids \ Issued, Issued' = Issued \cup {c},
           Alive' = Alive \/ Alive' = Alive \cup {c},
           IInv', UNCHANGED [r \in Requests |-> Showed(r)],
           \/ UNCHANGED Used
           \/ \E r \in Requests : Showed(r) # {} /\ Used' = Used \cup {r}
    PROVE  C!Next \/ UNCHANGED mapped
<1>1. CASE Alive' = Alive
  BY <1>1, RevokeCase
<1>2. CASE Alive' = Alive \cup {c}
  <2>1. Alive \subseteq Issued
    BY AliveIssued
  <2>2. C!Serving \/ C!Quiet
    BY DEF C!Serving, C!Quiet, Used, Showed
  <2>3. Spent' = Spent /\ c \in Ids \ (Alive \cup Spent)
    BY <1>2, <2>1 DEF Spent
  <2>4. C!Issue
    BY <1>2, <2>2, <2>3 DEF C!Issue, Spent, Used, Showed
  <2> QED
    BY <2>4 DEF C!Next
<1> QED
  BY <1>1, <1>2

\* What a request was judged by does not change after its look-up, since a JWT
\* or a key is made once
LEMMA ShowedKept ==
    ASSUME IInv, IInv', NEW q \in Requests,
           asked'[q] = asked[q], held'[q] = held[q] \/ Op(q) \notin ObjectOps,
           arrived'[q] = arrived[q],
           tokens \subseteq tokens'
    PROVE  Showed(q)' = Showed(q)
<1>1. {u \in tokens' : u.id = asked[q].by} = {u \in tokens : u.id = asked[q].by}
  <2>1. CASE asked[q].by = Nobody
    <3>1. \A u \in tokens' : u.id # Nobody
      BY AccessAssumption DEF IInv, TypeOK, Token
    <3> QED
      BY <2>1, <3>1
  <2>2. CASE asked[q].by # Nobody
    <3>1. PICK t \in tokens : t.id = asked[q].by
      BY <2>2 DEF IInv, Brought
    <3>2. \A u \in tokens' : u.id = t.id => u = t
      BY DEF IInv, Makers
    <3> QED
      BY <3>1, <3>2
  <2> QED
    BY <2>1, <2>2
<1>2. {u \in tokens' : u.id = asked[q].by /\ arrived[q] < u.expires}
        = {u \in tokens : u.id = asked[q].by /\ arrived[q] < u.expires}
  BY <1>1
<1> QED
  BY <1>2 DEF Showed, Op, JudgedByKey

\* Whoever is served has shown a capability
ServedShowed == \A r \in Requests : Served(r) => Showed(r) # {}

LEMMA ServedHaveShown == IInv => ServedShowed
<1> SUFFICES ASSUME IInv, NEW r \in Requests, Served(r)
             PROVE  Showed(r) # {}
  BY DEF ServedShowed
<1>1. CASE Op(r) \in ObjectOps /\ asked[r].key # Nobody
  <2>1. pc[r] = "CheckKey" /\ resp[r] = "200"
    BY <1>1 DEF Served, Success, IInv, AnswersOfSteps, StepsOfOps, ObjectOps
  <2>2. PICK k \in held[r] : arrived[r] <= k.expires
    BY <2>1 DEF IInv, ByRightOfKey
  <2> QED
    BY <1>1, <2>2 DEF Showed, JudgedByKey
<1>2. CASE ~(Op(r) \in ObjectOps /\ asked[r].key # Nobody)
  <2>1. /\ pc[r] \notin {"FindAccount", "ReadPermissions", "FindKey", "CheckKey"}
        /\ pc[r] = "New" => resp[r] = "200"
    BY <1>2 DEF Served, Success, IInv, AnswersOfSteps, StepsOfOps
  <2>2. PICK t \in tokens : t.id = asked[r].by /\ arrived[r] < t.expires
    BY <2>1 DEF IInv, ByRightOfToken
  <2> QED
    BY <1>2, <2>2 DEF Showed, JudgedByKey
<1> QED
  BY <1>1, <1>2

LEMMA ServedHaveShownNext == IInv' => ServedShowed'
BY ServedHaveShown, PTL

\* In a step of r nobody else gets issued, shown or served
LEMMA OthersShow ==
    ASSUME IInv, IInv', NEW r \in Requests, Step(r)
    PROVE  /\ \A q \in Requests \ {r} : Showed(q)' = Showed(q)
           /\ \A q \in Requests \ {r} : Served(q)' = Served(q)
           /\ Issued' = Issued \/ Issued' = Issued \cup {r}
           /\ ~Served(r) /\ r \notin Issued
           /\ Used' = IF Served(r)' THEN Used \cup {r} ELSE Used
<1>1. TypeOK /\ Arrays
  BY DEF IInv
<1>2. \A q \in Requests \ {r} : Showed(q)' = Showed(q)
  BY <1>1, OthersKept, ShowedKept, TablesGrow
<1>3. \A q \in Requests \ {r} : Served(q)' = Served(q)
  BY <1>1, OthersKept DEF Served, Op
<1>4. resp[r] = "pending" /\ r # Admin
  BY <1>1, OthersKept, AccessAssumption
<1>5. ~Served(r) /\ r \notin Issued
  BY <1>4 DEF Served, Issued, Success
<1>6. Issued' = Issued \/ Issued' = Issued \cup {r}
  <2>1. \A q \in Ids \ {r} : q \in Issued' <=> q \in Issued
    BY <1>1, OthersKept DEF Issued
  <2>2. Issued \subseteq Ids /\ Issued' \subseteq Ids /\ r \in Ids
    BY DEF Issued, Ids
  <2> QED
    BY <1>5, <2>1, <2>2
<1>7. Used' = IF Served(r)' THEN Used \cup {r} ELSE Used
  BY <1>3, <1>5 DEF Used
<1> QED
  BY <1>2, <1>3, <1>5, <1>6, <1>7

\* The clock only ends lives
LEMMA TickImplements ==
    ASSUME IInv, IInv', Tick
    PROVE  C!Next \/ UNCHANGED mapped
<1>1. /\ now \in Nat /\ now' = now + 1 /\ UNCHANGED <<apiKeys, tokens>>
      /\ \A t \in tokens : t.expires \in Int
      /\ \A k \in apiKeys : k.expires \in Int
  BY AccessAssumption DEF Tick, tables, IInv, TypeOK, Token, KeyRow
<1>2. Alive' \subseteq Alive
  <2>1. \A t \in tokens : now + 1 < t.expires => now < t.expires
    BY <1>1
  <2>2. \A k \in apiKeys : now + 1 <= k.expires => now <= k.expires
    BY <1>1
  <2> QED
    BY <1>1, <2>1, <2>2 DEF Alive, Valid
<1>3. UNCHANGED <<Issued, Used>> /\ UNCHANGED [r \in Requests |-> Showed(r)]
  BY DEF Tick, history, Issued, Used, Served, Op, Showed
<1> QED
  BY <1>2, <1>3, RevokeCase

\* What a login or a key was about to issue when the process died never will be
LEMMA CrashImplements ==
    ASSUME IInv, IInv', Crash
    PROVE  C!Next \/ UNCHANGED mapped
<1>1. TypeOK
  BY DEF IInv
<1>2. Issued \subseteq Issued'
  BY <1>1 DEF Crash, InFlight, Issued, TypeOK
<1>3. \A r \in Requests : Served(r)' = Served(r)
  BY <1>1 DEF Crash, InFlight, Served, Success, Op, TypeOK
<1>4. UNCHANGED <<Alive, Used>> /\ UNCHANGED [r \in Requests |-> Showed(r)]
  BY <1>3 DEF Crash, tables, history, Alive, Valid, Used, Op, Showed
<1> QED
  BY <1>2, <1>4, RevokeCase

\* Who is refused without a look shows nothing
LEMMA RefusalImplements ==
    ASSUME IInv, IInv', NEW r \in Requests, Anonymous(r) \/ Malformed(r)
    PROVE  C!Next \/ UNCHANGED mapped
<1>1. TypeOK /\ Step(r)
  BY DEF IInv, Step
<1>2. resp'[r] \notin Success /\ UNCHANGED <<tables, tokens, asked, held, history, now, pc>>
  BY <1>1 DEF Anonymous, Malformed, Answer, Success, TypeOK
<1>3. UNCHANGED Alive /\ UNCHANGED [q \in Requests |-> Showed(q)]
  BY <1>2 DEF tables, history, Alive, Valid, Op, Showed
<1>4. UNCHANGED Used /\ Issued \subseteq Issued'
  BY <1>1, <1>2, OthersShow DEF Served
<1> QED
  BY <1>3, <1>4, RevokeCase

\* One that shows something new in this step
LEMMA PresentCase ==
    ASSUME IInv, NEW r \in Requests, UNCHANGED <<Alive, Issued>>,
           \A q \in Requests \ {r} : Showed(q)' = Showed(q),
           Showed(r) = {}, NEW c \in Alive, Showed(r)' = {c},
           Used' \in {Used, Used \cup {r}}
    PROVE  C!Next
<1> DEFINE f == [q \in Requests |-> Showed(q)]
           g == [q \in Requests |-> Showed(q)']
<1>1. g = [f EXCEPT ![r] = {c}]
  OBVIOUS
<1>2. f[r] = {} /\ g[r] # {}
  OBVIOUS
<1>3. C!Present(r)
  BY <1>1, <1>2 DEF C!Present, Showed, Spent, Used
<1> QED
  BY <1>3 DEF C!Next

\* Who comes shows his JWT if that is good, or has a key to be looked up first
LEMMA ArriveImplements ==
    ASSUME IInv, IInv', NEW r \in Requests, Arrive(r)
    PROVE  C!Next \/ UNCHANGED mapped
<1>1. TypeOK /\ Arrays /\ Step(r)
  BY DEF IInv, Step
<1>2. UNCHANGED <<now, tables, tokens, held, Alive>>
  BY DEF Arrive, tables, Alive, Valid
<1>3. Issued' = Issued
  <2>1. Op(r)' \in Operations
    BY <1>1, Arrivals, AccessAssumption
  <2>2. pc'[r] \in {"ReadPermissions", "InsertKey"} => resp'[r] = "pending"
    BY <1>1, <2>1, Arrivals, FirstSteps
  <2>3. r \notin Issued'
    BY <2>2, AccessAssumption DEF Issued
  <2> QED
    BY <1>1, <2>3, OthersShow
<1>4. Showed(r) = {}
  <2>1. Op(r) = "none" /\ held[r] = {} /\ pc[r] = "New"
    BY DEF Arrive, At, IInv, StepsOfOps, Brought
  <2>2. asked[r].by = Nobody \/ asked[r].by # Nobody
    OBVIOUS
  <2>3. asked[r] = NoRequest
    BY <2>1 DEF IInv, Blank, Arrive, At
  <2>4. \A u \in tokens : u.id # Nobody
    BY AccessAssumption DEF IInv, TypeOK, Token
  <2> QED
    BY <2>1, <2>3, <2>4 DEF Showed, JudgedByKey, ObjectOps, NoRequest
<1>5. Showed(r)' = {} \/ \E c \in Alive : Showed(r)' = {c}
  <2>1. CASE JudgedByKey(Op(r), asked[r].by, asked[r].key)'
    <3>1. held'[r] = {}
      BY <1>2 DEF Arrive, At, IInv, Brought
    <3> QED
      BY <2>1, <3>1 DEF Showed
  <2>2. CASE ~JudgedByKey(Op(r), asked[r].by, asked[r].key)'
    <3>1. Showed(r)' = {t.id : t \in {u \in tokens : u.id = asked'[r].by /\ now < u.expires}}
      BY <1>1, <1>2, <2>2, Arrivals DEF Showed
    <3>2. CASE \E t \in tokens : t.id = asked'[r].by /\ now < t.expires
      <4>1. PICK t \in tokens : t.id = asked'[r].by /\ now < t.expires
        BY <3>2
      <4>2. t.id \in Alive
        BY <4>1 DEF Alive, Valid
      <4>3. Showed(r)' = {t.id}
        BY <3>1, <4>1
      <4> QED
        BY <4>2, <4>3
    <3>3. CASE ~\E t \in tokens : t.id = asked'[r].by /\ now < t.expires
      BY <3>1, <3>3
    <3> QED
      BY <3>2, <3>3
  <2> QED
    BY <2>1, <2>2
<1>6. \A q \in Requests \ {r} : Showed(q)' = Showed(q)
  BY <1>1, OthersShow
<1>7. Used' \in {Used, Used \cup {r}}
  BY <1>1, OthersShow
<1>8. CASE Showed(r)' = {}
  <2>1. ~Served(r)'
    BY <1>8, ServedHaveShownNext DEF ServedShowed
  <2>2. UNCHANGED [q \in Requests |-> Showed(q)]
    BY <1>4, <1>6, <1>8
  <2>3. UNCHANGED Used
    BY <1>1, <2>1, OthersShow
  <2> QED
    BY <1>2, <1>3, <2>2, <2>3, RevokeCase
<1> QED
  BY <1>2, <1>3, <1>4, <1>5, <1>6, <1>7, <1>8, PresentCase

\* A key is looked up after the request came, and shown then if it is good
LEMMA FindKeyImplements ==
    ASSUME IInv, IInv', NEW r \in Requests, FindKey(r)
    PROVE  C!Next \/ UNCHANGED mapped
<1>1. TypeOK /\ Arrays /\ Step(r) /\ Calls(r)
  BY DEF IInv, Step, Calls
<1>2. /\ UNCHANGED <<now, tables, tokens, asked, Alive>>
      /\ arrived'[r] = now /\ pc[r] = "FindKey" /\ held[r] = {}
      /\ resp'[r] \notin Success /\ pc'[r] \in {"FindKey", "CheckKey"}
      /\ \/ held'[r] = {}
         \/ held'[r] = {k \in apiKeys : k.id = asked[r].key} /\ held'[r] # {}
  BY <1>1 DEF FindKey, At, Goto, Answer, tables, Alive, Valid, TypeOK, Arrays, IInv,
     Brought, Success
<1>3. JudgedByKey(Op(r), asked[r].by, asked[r].key) /\ UNCHANGED Op(r)
  BY <1>2 DEF IInv, StepsOfOps, JudgedByKey, Op
<1>4. Showed(r) = {}
  BY <1>2, <1>3 DEF Showed
<1>5. Showed(r)' = {k.id : k \in {l \in held'[r] : now <= l.expires}}
  BY <1>2, <1>3 DEF Showed
<1>6. Showed(r)' = {} \/ \E c \in Alive : Showed(r)' = {c}
  <2>1. CASE held'[r] = {}
    BY <1>5, <2>1
  <2>2. CASE held'[r] # {}
    <3>1. PICK k \in apiKeys : held'[r] = {k}
      BY <1>2, <2>2 DEF IInv, Makers
    <3>2. CASE now <= k.expires
      <4>1. k.id \in Alive
        BY <3>2 DEF Alive
      <4>2. Showed(r)' = {k.id}
        BY <1>5, <3>1, <3>2
      <4> QED
        BY <4>1, <4>2
    <3>3. CASE ~(now <= k.expires)
      BY <1>5, <3>1, <3>3
    <3> QED
      BY <3>2, <3>3
  <2> QED
    BY <2>1, <2>2
<1>7. UNCHANGED <<Issued, Used>>
  <2>1. r \notin Issued'
    BY <1>2, AccessAssumption DEF Issued
  <2> QED
    BY <1>1, <1>2, <2>1, OthersShow DEF Served
<1>8. \A q \in Requests \ {r} : Showed(q)' = Showed(q)
  BY <1>1, OthersShow
<1>9. CASE Showed(r)' = {}
  <2>1. UNCHANGED [q \in Requests |-> Showed(q)]
    BY <1>4, <1>8, <1>9
  <2> QED
    BY <1>2, <1>7, <2>1, RevokeCase
<1> QED
  BY <1>2, <1>4, <1>6, <1>7, <1>8, <1>9, PresentCase

\* All other calls act on what was shown before
LEMMA CallsImplement ==
    ASSUME IInv, IInv', NEW r \in Requests, Calls(r), ~FindKey(r)
    PROVE  C!Next \/ UNCHANGED mapped
<1>1. TypeOK /\ Arrays /\ Step(r) /\ asked' = asked /\ pc[r] # "FindKey"
  BY OwnStep, Moves DEF IInv, Step, Calls
<1>2. now' = now /\ arrived'[r] = arrived[r] /\ tokens \subseteq tokens'
  BY <1>1, OthersKept, TablesGrow DEF Calls, FindAccount, ReadPermissions, FindEmail,
     InsertUser, FindName, InsertBucket, ListBuckets, ListKeys, Read, GetBucket,
     FindUser, FindPermission, Assign, InsertKey, DeleteKey, CheckKey, history
<1>3. held'[r] = held[r] \/ Op(r) \notin ObjectOps
  <2>1. CASE held' = held
    BY <2>1
  <2>2. CASE FindAccount(r) \/ ListBuckets(r) \/ GetBucket(r) \/ ListKeys(r)
    BY <2>2 DEF FindAccount, ListBuckets, GetBucket, ListKeys, At, IInv, StepsOfOps,
       ObjectOps
  <2> QED
    BY <1>1, <2>1, <2>2, HeldFrom
<1>4. UNCHANGED [q \in Requests |-> Showed(q)]
  <2>1. Showed(r)' = Showed(r)
    BY <1>1, <1>2, <1>3, ShowedKept
  <2> QED
    BY <1>1, <2>1, OthersShow
<1>5. \/ UNCHANGED Used
      \/ \E q \in Requests : Showed(q) # {} /\ Used' = Used \cup {q}
  <2>1. Served(r)' => Showed(r)' # {}
    BY ServedHaveShownNext DEF ServedShowed
  <2>2. Showed(r)' = Showed(r)
    BY <1>1, <1>2, <1>3, ShowedKept
  <2> QED
    BY <1>1, <2>1, <2>2, OthersShow
<1>6. Issued' = Issued \/ (Issued' = Issued \cup {r} /\ r \in Ids \ Issued)
  BY <1>1, OthersShow DEF Ids
<1>7. CASE ReadPermissions(r) /\ tokens' # tokens
  <2>1. r \in Issued'
    BY <1>1, <1>7 DEF ReadPermissions, At, Answer, Issued, TypeOK
  <2>2. PICK t : t.id = r /\ tokens' = tokens \cup {t}
    BY <1>7 DEF ReadPermissions
  <2>3. apiKeys' = apiKeys
    BY <1>7 DEF ReadPermissions, tables
  <2>4. Alive' = Alive \/ Alive' = Alive \cup {r}
    BY <1>2, <2>2, <2>3 DEF Alive, Valid
  <2>5. Issued' = Issued \cup {r} /\ r \in Ids \ Issued
    BY <1>1, <1>6, <2>1, OthersShow
  <2> QED
    BY <1>4, <1>5, <2>4, <2>5, IssueCase
<1>8. CASE InsertKey(r) /\ apiKeys' # apiKeys
  <2>1. r \in Issued'
    BY <1>1, <1>8 DEF InsertKey, At, Answer, CreateKeyStatus, Issued, TypeOK
  <2>2. \A k \in NewKeys(r) : k.id = r
    BY DEF NewKeys
  <2>3. PICK k : k.id = r /\ apiKeys' = apiKeys \cup {k}
    BY <1>8, <2>2 DEF InsertKey
  <2>4. tokens' = tokens
    BY <1>8 DEF InsertKey
  <2>5. Alive' = Alive \/ Alive' = Alive \cup {r}
    BY <1>2, <2>3, <2>4 DEF Alive, Valid
  <2>6. Issued' = Issued \cup {r} /\ r \in Ids \ Issued
    BY <1>1, <1>6, <2>1, OthersShow
  <2> QED
    BY <1>4, <1>5, <2>5, <2>6, IssueCase
<1>9. CASE tokens' = tokens /\ apiKeys' \subseteq apiKeys
  <2>1. Alive' \subseteq Alive
    BY <1>2, <1>9 DEF Alive, Valid
  <2> QED
    BY <1>4, <1>5, <1>6, <2>1, RevokeCase
<1> QED
  BY <1>1, <1>7, <1>8, <1>9, TablesGrow DEF DeleteKey, InsertKey, ReadPermissions, tables

\* JWTs and API keys, with all that happens to them, are capabilities: each is
\* issued once, and who is served had a good one when it was looked at.
THEOREM CredentialsAreCapabilities == Spec => ImplementsCapability
<1>1. Init => C!Init
  <2> SUFFICES ASSUME Init PROVE C!Init
    OBVIOUS
  <2>1. IInv
    BY InitIInv
  <2>2. Issued = {Admin} /\ Alive = {Admin} /\ Alive \subseteq Ids
    <3>1. Issued = {Admin}
      BY DEF Init, Issued
    <3>2. Admin \in Alive
      <4>1. PICK t \in tokens : t.id = Admin /\ t.expires = TokenLife
        BY DEF Init
      <4>2. Valid(t)
        BY <4>1, AccessAssumption DEF Init, Valid
      <4> QED
        BY <4>1, <4>2 DEF Alive
    <3> QED
      BY <2>1, <3>1, <3>2, AliveIssued DEF Ids
  <2>3. {r \in Requests : Served(r)} = {}
    BY DEF Init, Served, Success
  <2>4. \A r \in Requests : Showed(r) = {}
    BY AccessAssumption DEF Init, Showed, JudgedByKey, NoRequest, Op, ObjectOps, Ids
  <2> QED
    BY <2>2, <2>3, <2>4 DEF C!Init, Showed
<1>2. ASSUME IInv, IInv', [Next]_vars
      PROVE  C!Next \/ UNCHANGED mapped
  <2>1. CASE UNCHANGED vars
    BY <2>1 DEF vars, tables, history, mapped, Alive, Valid, Spent, Issued, Used,
       Served, Op, Showed
  <2>2. ASSUME NEW r \in Requests, Step(r)
        PROVE  C!Next \/ UNCHANGED mapped
    BY <1>2, <2>2, StepCases, RefusalImplements, ArriveImplements, FindKeyImplements,
       CallsImplement
  <2> QED
    BY <1>2, <2>1, <2>2, TickImplements, CrashImplements DEF Next
<1>3. IInv /\ IInv' /\ [Next]_vars => [C!Next]_(C!vars)
  BY <1>2 DEF mapped, C!vars, Spent, Used, Showed
<1> QED
  BY <1>1, <1>3, InductiveInvariant, PTL DEF Spec, ImplementsCapability, C!Spec
=============================================================================
