-------------------------------- MODULE Startup --------------------------------
(***************************************************************************)
(* What a server does before it listens: it reads its configuration, opens  *)
(* its log and the database, runs the migration files and seeds permissions,*)
(* the admin role and the admin user; and, once it listens, how it answers  *)
(* the readiness probe.  The statements share no transaction and no lock, a *)
(* server may die between any two, and several servers may start at once in *)
(* one directory on one database (a rolling restart).                       *)
(*                                                                          *)
(* Migration files and permission names are numbered.  A release of the     *)
(* program is the number of permission names it knows: later ones add names.*)
(***************************************************************************)
EXTENDS Naturals, FiniteSets

CONSTANTS
    Servers,        \* processes started on the database
    NumFiles,       \* number of migration files
    Releases,       \* the releases that are started
    Emails,         \* the values ADMIN_EMAIL is given, one at each start
    NormalForm,     \* their lower-case, trimmed forms
    Blank,          \* the normal form of an address of nothing but blanks
    Passwords,      \* the values ADMIN_PASSWORD is given, one at each start
    TooLong,        \* those of more than 72 bytes, which bcrypt refuses
    Faults          \* a subset of FaultKinds

\* db: a statement fails without effect     ack: it commits and reports an error
\* crash: a server dies while it starts     fs: a call to the file system fails
FaultKinds == {"db", "ack", "crash", "fs"}

ASSUME StartupAssumption ==
    /\ NumFiles \in Nat
    /\ Releases \subseteq Nat
    /\ Blank \notin Emails
    /\ NormalForm \in [Emails -> Emails \cup {Blank}]
    /\ \A e \in Emails :
          NormalForm[e] # Blank => NormalForm[NormalForm[e]] = NormalForm[e]
    /\ Faults \subseteq FaultKinds

Files == 1..NumFiles
Names == UNION {1..n : n \in Releases}

VARIABLES
    schema,         \* migration files whose statements have taken effect
    applied,        \* the migrations table
    permissions,    \* the permissions table
    adminRole,      \* roles has the admin role
    rolePermissions,\* the permissions of the admin role
    users,          \* the addresses in users that seeding put there
    admins,         \* those that user_roles links to the admin role
    blobDir,        \* ./data/blobs exists
    pc,             \* the next statement of each server
    release,        \* the release each server runs
    email,          \* its ADMIN_EMAIL
    password,       \* its ADMIN_PASSWORD
    at,             \* its loop index over files or names
    listed,         \* permissions it has yet to give to the role
    probe,          \* how far it is with a readiness probe
    ready           \* its last answer to one since it came up

migrated == <<schema, applied>>
seeded == <<permissions, adminRole, rolePermissions, users, admins>>
config == <<release, email, password>>
running == <<config, listed>>
health == <<blobDir, probe, ready>>
vars == <<migrated, seeded, running, health, pc, at>>

Migrating == {"CreateTable", "CheckApplied", "Execute", "Record"}
Opening == {"OpenLog", "Connect"}
Seeding == {"LookPermission", "CreatePermission", "FindAdmin", "CreateRole",
            "ListPermissions", "AssignPermission", "FindUser", "CreateUser",
            "AssignRole"}
FillingIn == {"ListPermissions", "AssignPermission", "FindUser", "CreateUser",
              "AssignRole"}
Starting == Opening \cup Migrating \cup Seeding

TypeOK ==
    /\ schema \subseteq Files /\ applied \subseteq Files
    /\ permissions \subseteq Names /\ rolePermissions \subseteq Names
    /\ {adminRole, blobDir} \subseteq BOOLEAN
    /\ users \subseteq Emails /\ admins \subseteq Emails
    /\ pc \in [Servers -> Starting \cup {"Down", "Up"}]
    /\ release \in [Servers -> Releases]
    /\ email \in [Servers -> Emails]
    /\ password \in [Servers -> Passwords]
    /\ at \in [Servers -> Nat]
    /\ listed \in [Servers -> SUBSET Names]
    /\ probe \in [Servers -> {"none", "ok", "unhealthy"}]
    /\ ready \in [Servers -> {"unknown", "ok", "degraded"}]

Init ==
    /\ schema = {} /\ applied = {} /\ permissions = {} /\ rolePermissions = {}
    /\ adminRole = FALSE /\ users = {} /\ admins = {} /\ blobDir = FALSE
    /\ pc = [s \in Servers |-> "Down"]
    /\ release \in [Servers -> Releases]
    /\ email \in [Servers -> Emails]
    /\ password \in [Servers -> Passwords]
    /\ at = [s \in Servers |-> 1]
    /\ listed = [s \in Servers |-> {}]
    /\ probe = [s \in Servers |-> "none"]
    /\ ready = [s \in Servers |-> "unknown"]

MayFail(fault) == fault \in Faults
Goto(s, step) == pc' = [pc EXCEPT ![s] = step]
GotoAt(s, step, i) == Goto(s, step) /\ at' = [at EXCEPT ![s] = i]
Stay(s, step) == Goto(s, step) /\ UNCHANGED at

-----------------------------------------------------------------------------
(* Processes.                                                               *)

\* Load takes what the environment says at this start, or a default: it never
\* fails, and nothing ties it to the start before
Load(s) ==
    /\ \E n \in Releases : release' = [release EXCEPT ![s] = n]
    /\ \E e \in Emails : email' = [email EXCEPT ![s] = e]
    /\ \E p \in Passwords : password' = [password EXCEPT ![s] = p]
    /\ listed' = [listed EXCEPT ![s] = {}]

Start(s) ==
    /\ pc[s] = "Down"
    /\ Load(s)
    /\ GotoAt(s, "OpenLog", 1)
    /\ UNCHANGED <<migrated, seeded, health>>

\* A server that is up exits: it is stopped, to be replaced or restarted, or
\* cannot listen on its port
Stop(s) ==
    /\ pc[s] = "Up"
    /\ Stay(s, "Down")
    /\ probe' = [probe EXCEPT ![s] = "none"]
    /\ ready' = [ready EXCEPT ![s] = "unknown"]
    /\ UNCHANGED <<migrated, seeded, running, blobDir>>

Crash(s) ==
    /\ MayFail("crash")
    /\ pc[s] \in Starting
    /\ Stay(s, "Down")
    /\ UNCHANGED <<migrated, seeded, running, health>>

\* A log that cannot be opened is a panic
OpenLog(s) ==
    /\ pc[s] = "OpenLog"
    /\ Stay(s, "Connect") \/ (MayFail("fs") /\ Stay(s, "Down"))
    /\ UNCHANGED <<migrated, seeded, running, health>>

\* sql.Open only parses: it is the Ping that fails, and nothing retries it
Connect(s) ==
    /\ pc[s] = "Connect"
    /\ Stay(s, "CreateTable") \/ (MayFail("db") /\ Stay(s, "Down"))
    /\ UNCHANGED <<migrated, seeded, running, health>>

-----------------------------------------------------------------------------
(* migrations.Run: any error is fatal, and the next start begins again.     *)

\* Another server has just made the migrations table, or run the file that s is
\* at.  IF NOT EXISTS does not protect s when its own statement was under way
\* by then: it may break a unique index of the catalogue.
JustMade(s) ==
    applied = {} /\ \E t \in Servers \ {s} : pc[t] \in Migrating \ {"CreateTable"}

JustRun(s) == \E t \in Servers \ {s} : pc[t] = "Record" /\ at[t] = at[s]

CreateTable(s) ==
    /\ pc[s] = "CreateTable"
    /\ \/ Stay(s, "CheckApplied")
       \/ (MayFail("db") \/ JustMade(s)) /\ Stay(s, "Down")
    /\ UNCHANGED <<migrated, seeded, running, health>>

\* mutant: files that were applied before are executed again
CheckAppliedNever(s) ==
    /\ pc[s] = "CheckApplied"
    /\ \/ at[s] > NumFiles /\ GotoAt(s, "LookPermission", 1)
       \/ at[s] \in Files /\ Stay(s, "Execute")
    /\ UNCHANGED <<migrated, seeded, running, health>>

\* mutant: an error of the query reads like "applied"
CheckAppliedOrSkip(s) ==
    /\ pc[s] = "CheckApplied"
    /\ \/ at[s] > NumFiles /\ GotoAt(s, "LookPermission", 1)
       \/ /\ at[s] \in applied \/ (at[s] \in Files /\ MayFail("db"))
          /\ GotoAt(s, "CheckApplied", at[s] + 1)
       \/ at[s] \in Files \ applied /\ Stay(s, "Execute")
    /\ UNCHANGED <<migrated, seeded, running, health>>

CheckApplied(s) ==
    /\ pc[s] = "CheckApplied"
    /\ \/ at[s] > NumFiles /\ GotoAt(s, "LookPermission", 1)
       \/ at[s] \in applied /\ GotoAt(s, "CheckApplied", at[s] + 1)
       \/ at[s] \in Files \ applied /\ Stay(s, "Execute")
       \/ at[s] \in Files /\ MayFail("db") /\ Stay(s, "Down")
    /\ UNCHANGED <<migrated, seeded, running, health>>

\* mutant: an error of the file is taken for "already there"
ExecuteAnyway(s) ==
    /\ pc[s] = "Execute"
    /\ \/ schema' = schema \cup {at[s]}
       \/ MayFail("db") /\ UNCHANGED schema
    /\ Stay(s, "Record")
    /\ UNCHANGED <<applied, seeded, running, health>>

\* The statements of a file are one implicit transaction.  They all say IF NOT
\* EXISTS, so that running them again changes nothing; they refer to tables of
\* earlier files.
Execute(s) ==
    /\ pc[s] = "Execute"
    /\ \/ /\ 1..(at[s] - 1) \subseteq schema
          /\ schema' = schema \cup {at[s]}
          /\ Stay(s, "Record") \/ (MayFail("ack") /\ Stay(s, "Down"))
       \/ /\ MayFail("db") \/ JustRun(s) \/ ~(1..(at[s] - 1) \subseteq schema)
          /\ Stay(s, "Down")
          /\ UNCHANGED schema
    /\ UNCHANGED <<applied, seeded, running, health>>

\* migrations.name is UNIQUE: the second of two servers to get here is refused
\* and exits, although the migration it ran is in place
Record(s) ==
    /\ pc[s] = "Record"
    /\ \/ /\ at[s] \notin applied
          /\ applied' = applied \cup {at[s]}
          /\ \/ GotoAt(s, "CheckApplied", at[s] + 1)
             \/ MayFail("ack") /\ Stay(s, "Down")
       \/ /\ at[s] \in applied \/ MayFail("db")
          /\ Stay(s, "Down")
          /\ UNCHANGED applied
    /\ UNCHANGED <<schema, seeded, running, health>>

-----------------------------------------------------------------------------
(* SeedIfNeeded: every error is logged, and the server comes up all the same.*)

LookPermission(s) ==
    /\ pc[s] = "LookPermission"
    /\ \/ at[s] > release[s] /\ Stay(s, "FindAdmin")
       \/ /\ at[s] \in permissions \cap (1..release[s])
          /\ GotoAt(s, "LookPermission", at[s] + 1)
       \/ /\ at[s] \in 1..release[s]
          /\ at[s] \notin permissions \/ MayFail("db")
          /\ Stay(s, "CreatePermission")
    /\ UNCHANGED <<migrated, seeded, running, health>>

\* mutant: the first permission that cannot be created ends the loop
CreatePermissionOrStop(s) ==
    /\ pc[s] = "CreatePermission"
    /\ \/ at[s] \notin permissions /\ GotoAt(s, "LookPermission", at[s] + 1)
       \/ at[s] \in permissions /\ Stay(s, "FindAdmin")
    /\ permissions' = permissions \cup {at[s]}
    /\ UNCHANGED <<migrated, adminRole, rolePermissions, users, admins,
                   running, health>>

\* mutant: off by one
CreateNextPermission(s) ==
    /\ pc[s] = "CreatePermission"
    /\ permissions' = permissions \cup {at[s] + 1}
    /\ GotoAt(s, "LookPermission", at[s] + 1)
    /\ UNCHANGED <<migrated, adminRole, rolePermissions, users, admins,
                   running, health>>

\* The names are UNIQUE: the INSERT of one that another server was first to add
\* fails
InsertPermission(name) ==
    \/ permissions' = permissions \cup {name}
    \/ MayFail("db") /\ UNCHANGED permissions

\* An INSERT that fails is logged and the loop goes on
CreatePermission(s) ==
    /\ pc[s] = "CreatePermission"
    /\ InsertPermission(at[s])
    /\ GotoAt(s, "LookPermission", at[s] + 1)
    /\ UNCHANGED <<migrated, adminRole, rolePermissions, users, admins,
                   running, health>>

\* The address is looked up as it is configured, and stored in its normal form.
\* Any error counts as "no admin"
FindAdmin(s) ==
    /\ pc[s] = "FindAdmin"
    /\ \/ email[s] \in users /\ Stay(s, "Up")
       \/ email[s] \notin users /\ Stay(s, "CreateRole")
       \/ MayFail("db") /\ Stay(s, "CreateRole")
    /\ UNCHANGED <<migrated, seeded, running, health>>

\* mutant: INSERT ... ON CONFLICT DO NOTHING, and on with the role there is
CreateRoleIfMissing(s) ==
    /\ pc[s] = "CreateRole"
    /\ adminRole' = TRUE
    /\ Stay(s, "ListPermissions")
    /\ UNCHANGED <<migrated, permissions, rolePermissions, users, admins,
                   running, health>>

\* roles.name is UNIQUE
InsertRole(err) ==
    \/ ~adminRole /\ adminRole' = TRUE /\ (err => MayFail("ack"))
    \/ (adminRole \/ MayFail("db")) /\ err /\ UNCHANGED adminRole

\* With a role there, whoever made it, seeding ends here
CreateRole(s) ==
    /\ pc[s] = "CreateRole"
    /\ \E err \in BOOLEAN :
          /\ InsertRole(err)
          /\ Stay(s, IF err THEN "Up" ELSE "ListPermissions")
    /\ UNCHANGED <<migrated, permissions, rolePermissions, users, admins,
                   running, health>>

\* rows.Err is not read, so that a lost connection shortens the list
ListPermissions(s) ==
    /\ pc[s] = "ListPermissions"
    /\ \/ /\ \E part \in SUBSET permissions :
                /\ part = permissions \/ MayFail("db")
                /\ listed' = [listed EXCEPT ![s] = part]
          /\ Stay(s, "AssignPermission")
       \/ MayFail("db") /\ Stay(s, "Up") /\ UNCHANGED listed
    /\ UNCHANGED <<migrated, seeded, config, health>>

\* The role is new, so that it has none of the permissions yet
GiveToRole(p) ==
    \/ rolePermissions' = rolePermissions \cup {p}
    \/ MayFail("db") /\ UNCHANGED rolePermissions

AssignPermission(s) ==
    /\ pc[s] = "AssignPermission"
    /\ \/ /\ listed[s] = {}
          /\ Stay(s, "FindUser")
          /\ UNCHANGED <<rolePermissions, listed>>
       \/ \E p \in listed[s] :
             /\ listed' = [listed EXCEPT ![s] = @ \ {p}]
             /\ GiveToRole(p)
             /\ Stay(s, "AssignPermission")
    /\ UNCHANGED <<migrated, permissions, adminRole, users, admins, config,
                   health>>

\* UserService.Create looks the address up in its normal form, unless nothing is
\* left of it: then it gives up before the look-up
FindUser(s) ==
    /\ pc[s] = "FindUser"
    /\ \/ NormalForm[email[s]] \in users \cup {Blank} /\ Stay(s, "Up")
       \/ /\ NormalForm[email[s]] # Blank
          /\ NormalForm[email[s]] \notin users \/ MayFail("db")
          /\ Stay(s, "CreateUser")
    /\ UNCHANGED <<migrated, seeded, running, health>>

\* The password is hashed, which fails if it is too long, and the row inserted
CreateUser(s) ==
    /\ pc[s] = "CreateUser"
    /\ \/ /\ password[s] \notin TooLong
          /\ NormalForm[email[s]] \notin users
          /\ users' = users \cup {NormalForm[email[s]]}
          /\ Stay(s, "AssignRole") \/ (MayFail("ack") /\ Stay(s, "Up"))
       \/ /\ \/ password[s] \in TooLong
             \/ NormalForm[email[s]] \in users
             \/ MayFail("db")
          /\ Stay(s, "Up")
          /\ UNCHANGED users
    /\ UNCHANGED <<migrated, permissions, adminRole, rolePermissions,
                   admins, running, health>>

AssignToUser(e) ==
    \/ admins' = admins \cup {e}
    \/ MayFail("db") /\ UNCHANGED admins

AssignRole(s) ==
    /\ pc[s] = "AssignRole"
    /\ AssignToUser(NormalForm[email[s]])
    /\ Stay(s, "Up")
    /\ UNCHANGED <<migrated, permissions, adminRole, rolePermissions, users,
                   running, health>>

-----------------------------------------------------------------------------
(* A server that is up.                                                     *)

\* Save makes the directories of its path: until some upload has got that far
\* there is none, and what becomes of that upload afterwards does not matter.
\* Nobody can upload before the admin has logged in.
FirstUpload(s) ==
    /\ pc[s] = "Up"
    /\ ~blobDir
    /\ admins # {} /\ rolePermissions # {}
    /\ blobDir' = TRUE
    /\ UNCHANGED <<migrated, seeded, running, pc, at, probe, ready>>

\* GET /health/ready: a Ping of at most 3 seconds, ...
CheckDB(s) ==
    /\ pc[s] = "Up"
    /\ probe[s] = "none"
    /\ \E answer \in {"ok", "unhealthy"} :
          /\ answer = "ok" \/ MayFail("db")
          /\ probe' = [probe EXCEPT ![s] = answer]
    /\ UNCHANGED <<migrated, seeded, running, pc, at, blobDir, ready>>

\* mutant: the answer is that of the database alone
DegradedNever(database, storage) == database

Status(database, storage) ==
    IF database = "ok" /\ storage = "ok" THEN "ok" ELSE "degraded"

\* ... and, whatever it said, an os.Stat of the directory
CheckStorage(s) ==
    /\ pc[s] = "Up"
    /\ probe[s] # "none"
    /\ \E storage \in {"ok", "unhealthy"} :
          /\ storage = "ok" => blobDir
          /\ storage = "unhealthy" => ~blobDir \/ MayFail("fs")
          /\ ready' = [ready EXCEPT ![s] = Status(probe[s], storage)]
    /\ probe' = [probe EXCEPT ![s] = "none"]
    /\ UNCHANGED <<migrated, seeded, running, pc, at, blobDir>>

-----------------------------------------------------------------------------
Migrate(s) == CreateTable(s) \/ CheckApplied(s) \/ Execute(s) \/ Record(s)

Seed(s) ==
    \/ LookPermission(s) \/ CreatePermission(s) \/ FindAdmin(s)
    \/ CreateRole(s) \/ ListPermissions(s) \/ AssignPermission(s)
    \/ FindUser(s) \/ CreateUser(s) \/ AssignRole(s)

Run(s) == OpenLog(s) \/ Connect(s) \/ Migrate(s) \/ Seed(s)
Serve(s) == FirstUpload(s) \/ CheckDB(s) \/ CheckStorage(s)

Next == \E s \in Servers : Start(s) \/ Stop(s) \/ Crash(s) \/ Run(s) \/ Serve(s)

Spec == Init /\ [][Next]_vars

\* A started process runs, and one that exited is started again
Fairness ==
    \A s \in Servers : WF_vars(Start(s)) /\ WF_vars(Run(s))
FairSpec == Spec /\ Fairness

-----------------------------------------------------------------------------
(* Properties.                                                              *)

Upto(i) == 1..(i - 1)

\* A file recorded in the migrations table has taken effect, and so have all
\* before it: however servers race and die between a file and its record, no
\* file is ever skipped.
RecordedMeansExecuted ==
    /\ applied \subseteq schema
    /\ \A i \in schema : Upto(i) \subseteq applied

\* No server seeds or serves before every file has been executed and recorded.
NoSeedBeforeSchema ==
    \A s \in Servers : pc[s] \in Seeding \cup {"Up"} => applied = Files

\* The parts of the admin account appear in the order in which their links
\* need them, no two servers ever fill in the same admin role, and whatever
\* ADMIN_EMAIL is changed to, seeding makes one admin at most.
OneSeeder ==
    /\ admins \subseteq users
    /\ users # {} \/ rolePermissions # {} => adminRole
    /\ rolePermissions \subseteq permissions
    /\ Cardinality(users) <= 1
    /\ \A s, t \in Servers :
          /\ pc[s] \in FillingIn
          /\ pc[t] \in FillingIn
          => s = t

\* A server answers a readiness probe with 200 only when it has come through its
\* start and some upload has got as far as making its directory: a fresh
\* deployment is not ready before its first upload, whether that one succeeds
\* or not, and a router that waits for ready never lets it in.
ReadyOnlyAfterUpload ==
    \A s \in Servers : ready[s] = "ok" =>
        /\ pc[s] = "Up"
        /\ applied = Files
        /\ blobDir
        /\ \E e \in admins : e \in users
        /\ rolePermissions # {}

AdminReady ==
    /\ adminRole /\ users # {} /\ admins = users
    /\ \A s \in Servers : pc[s] = "Up" => 1..release[s] \subseteq rolePermissions

\* UserService.Create takes the address and the password that s was given
Fit(s) == NormalForm[email[s]] # Blank /\ password[s] \notin TooLong

FitFiller == \A s \in Servers : pc[s] \in FillingIn => Fit(s)

\* Without faults and with one release, the admin account is complete in the
\* end and stays so, also when servers start together and make each other exit,
\* if the one server that comes to make the role has a fit configuration.
AdminReadyInTheEnd == []FitFiller => <>[]AdminReady

\* A role whose maker has given up before there was a user
Orphaned ==
    adminRole /\ users = {} /\ \A s \in Servers : pc[s] \notin FillingIn

\* A server that is started again whenever it exits comes up in the end, also
\* when another one keeps taking the record of a file from it.
EveryServerComesUp == \A s \in Servers : []<>(pc[s] = "Up")

\* A server is up and none is still starting
Settled ==
    /\ \E s \in Servers : pc[s] = "Up"
    /\ \A s \in Servers : pc[s] \in {"Up", "Down"}

\* "If not, create admin user [...] Assign admin role" at start
\* (Phase 2_task_breakdown.md, Task 2.7)
AdminSeeded == Settled => users # {} /\ admins = users

\* "Admin role has all permissions" (Phase 2_task_breakdown.md, Task 3.5)
AdminRoleHasAllPermissions ==
    Settled /\ adminRole =>
        \A s \in Servers : pc[s] = "Up" => 1..release[s] \subseteq rolePermissions
=============================================================================
