----------------------------- MODULE Startup_proofs -----------------------------
(***************************************************************************)
(* For any number of servers, files, releases and addresses, and under any  *)
(* faults: migrations are never skipped, nothing is seeded before them,     *)
(* seeding makes one admin at most, and no server is ready before the first *)
(* upload.  And where no statement fails and nobody dies at it, the account *)
(* is as the design has it, and stays so.                                   *)
(***************************************************************************)
EXTENDS Startup, FiniteSetTheorems, TLAPS

-----------------------------------------------------------------------------
(* The inductive invariant.                                                 *)

\* The loops of a server stay within their bounds
Indices ==
    \A s \in Servers :
        /\ pc[s] \in {"Execute", "Record"} => at[s] \in Files
        /\ pc[s] = "CreatePermission" => at[s] \in 1..release[s]
        /\ pc[s] \in {"CreateUser", "AssignRole"} => NormalForm[email[s]] # Blank

\* What a server has passed in the list of files is recorded, whoever did it
Passed ==
    \A s \in Servers :
        /\ pc[s] \in Opening \cup Migrating => Upto(at[s]) \subseteq applied
        /\ pc[s] = "Record" => at[s] \in schema

\* The role comes first, and the user before its role; what is listed exists
RoleFirst ==
    /\ ~adminRole => users = {} /\ rolePermissions = {}
    /\ admins \subseteq users
    /\ rolePermissions \subseteq permissions
    /\ \A s \in Servers : pc[s] = "AssignPermission" => listed[s] \subseteq permissions

\* The server that made the role is the only one that fills it in, and there
\* is no user before it makes one
OneFillsIn ==
    /\ \A s \in Servers : pc[s] \in FillingIn => adminRole
    /\ \A s, t \in Servers : pc[s] \in FillingIn /\ pc[t] \in FillingIn => s = t
    /\ \A s \in Servers : pc[s] \in FillingIn \ {"AssignRole"} => users = {}
    /\ \A s \in Servers : pc[s] = "AssignRole" => NormalForm[email[s]] \in users
    /\ \A e, f \in users : e = f

\* Who is ready is up, and the directory was there when it was looked at
UploadFirst ==
    /\ blobDir => admins # {} /\ rolePermissions # {}
    /\ \A s \in Servers : ready[s] = "ok" => pc[s] = "Up" /\ blobDir

IInv ==
    /\ TypeOK /\ Indices /\ Passed
    /\ RecordedMeansExecuted /\ NoSeedBeforeSchema
    /\ RoleFirst /\ OneFillsIn /\ UploadFirst

-----------------------------------------------------------------------------
\* All that a step of a server changes, one action at a time
LEMMA StepCases ==
    ASSUME [Next]_vars
    PROVE  \/ UNCHANGED vars
           \/ \E s \in Servers :
                \/ Start(s) \/ Stop(s) \/ Crash(s) \/ OpenLog(s) \/ Connect(s)
                \/ CreateTable(s) \/ CheckApplied(s) \/ Execute(s) \/ Record(s)
                \/ LookPermission(s) \/ CreatePermission(s) \/ FindAdmin(s)
                \/ CreateRole(s) \/ ListPermissions(s) \/ AssignPermission(s)
                \/ FindUser(s) \/ CreateUser(s) \/ AssignRole(s)
                \/ FirstUpload(s) \/ CheckDB(s) \/ CheckStorage(s)
BY DEF Next, Run, Migrate, Seed, Serve

LEMMA InitIInv == Init => IInv
<1> SUFFICES ASSUME Init PROVE IInv
  OBVIOUS
<1> USE DEF Init
<1>1. TypeOK
  BY DEF TypeOK, Starting
<1>2. Indices /\ Passed /\ NoSeedBeforeSchema
  BY DEF Indices, Passed, NoSeedBeforeSchema, Opening, Migrating, Seeding
<1>3. RecordedMeansExecuted
  BY DEF RecordedMeansExecuted
<1>4. RoleFirst /\ OneFillsIn /\ UploadFirst
  BY DEF RoleFirst, OneFillsIn, UploadFirst, FillingIn
<1> QED
  BY <1>1, <1>2, <1>3, <1>4 DEF IInv

-----------------------------------------------------------------------------
(* Each part is kept by every step.                                         *)

LEMMA TypeStep ==
    ASSUME TypeOK, Indices, [Next]_vars
    PROVE  TypeOK'
<1> USE StartupAssumption DEF TypeOK, Starting, Opening, Migrating, Seeding,
        Stay, GotoAt, Goto
<1>1. CASE UNCHANGED vars
  BY <1>1 DEF vars, migrated, seeded, running, config, health
<1>2. ASSUME NEW s \in Servers, Start(s) \/ Stop(s) \/ Crash(s)
      PROVE  TypeOK'
  BY <1>2 DEF Start, Load, Stop, Crash, migrated, seeded, running, config, health
<1>3. ASSUME NEW s \in Servers, OpenLog(s) \/ Connect(s) \/ CreateTable(s)
      PROVE  TypeOK'
  BY <1>3 DEF OpenLog, Connect, CreateTable, migrated, seeded, running, config, health
<1>4. ASSUME NEW s \in Servers, CheckApplied(s) \/ Execute(s) \/ Record(s)
      PROVE  TypeOK'
  <2>1. CASE CheckApplied(s)
    BY <2>1 DEF CheckApplied, Files, migrated, seeded, running, config, health
  <2>2. CASE Execute(s)
    BY <2>2 DEF Execute, Indices, seeded, running, config, health
  <2>3. CASE Record(s)
    <3>1. at[s] \in Files /\ at[s] + 1 \in Nat
      BY <2>3 DEF Record, Indices
    <3> QED
      BY <2>3, <3>1 DEF Record, seeded, running, config, health
  <2> QED
    BY <1>4, <2>1, <2>2, <2>3
<1>5. ASSUME NEW s \in Servers, LookPermission(s) \/ CreatePermission(s)
      PROVE  TypeOK'
  <2>1. CASE LookPermission(s)
    BY <1>5, <2>1 DEF LookPermission, migrated, seeded, running, config, health
  <2>2. CASE CreatePermission(s)
    <3>1. release[s] \in Releases /\ at[s] \in 1..release[s]
      BY <2>2 DEF CreatePermission, Indices
    <3>2. at[s] \in Names
      <4>1. 1..release[s] \in {1..n : n \in Releases}
        BY <3>1
      <4> QED
        BY <3>1, <4>1, Zenon DEF Names
    <3> QED
      BY <2>2, <3>2 DEF CreatePermission, InsertPermission, migrated, running, config,
         health
  <2> QED
    BY <1>5, <2>1, <2>2
<1>6. ASSUME NEW s \in Servers, FindAdmin(s) \/ CreateRole(s) \/ FindUser(s)
      PROVE  TypeOK'
  BY <1>6 DEF FindAdmin, CreateRole, InsertRole, FindUser, migrated, seeded,
     running, config, health
<1>7. ASSUME NEW s \in Servers, ListPermissions(s) \/ AssignPermission(s)
      PROVE  TypeOK'
  BY <1>7 DEF ListPermissions, AssignPermission, GiveToRole, migrated, seeded,
     config, health
<1>8. ASSUME NEW s \in Servers, CreateUser(s) \/ AssignRole(s)
      PROVE  TypeOK'
  <2>1. NormalForm[email[s]] \in Emails
    BY <1>8 DEF CreateUser, AssignRole, Indices
  <2> QED
    BY <1>8, <2>1 DEF CreateUser, AssignRole, AssignToUser, migrated, running,
       config, health
<1>9. ASSUME NEW s \in Servers, FirstUpload(s) \/ CheckDB(s) \/ CheckStorage(s)
      PROVE  TypeOK'
  BY <1>9 DEF FirstUpload, CheckDB, CheckStorage, Status, migrated, seeded, running, config
<1> QED
  BY <1>1, <1>2, <1>3, <1>4, <1>5, <1>6, <1>7, <1>8, <1>9, StepCases

\* The migration files: a server's step moves its own index and adds at most
\* the file it is at
LEMMA MigrationStep ==
    ASSUME IInv, [Next]_vars
    PROVE  (Indices /\ Passed /\ RecordedMeansExecuted /\ NoSeedBeforeSchema)'
<1> DEFINE Parts == Indices /\ Passed /\ RecordedMeansExecuted /\ NoSeedBeforeSchema
<1>0. TypeOK /\ Parts
  BY DEF IInv
<1> USE <1>0, StartupAssumption DEF Indices, Passed, RecordedMeansExecuted,
        NoSeedBeforeSchema, Opening, Migrating, Seeding, Starting, Stay, GotoAt,
        Goto, migrated
<1>1. CASE UNCHANGED vars
  BY <1>1 DEF vars, running, config, Upto
<1>2. ASSUME NEW s \in Servers, Start(s)
      PROVE  Parts'
  <2>1. Upto(1) = {}
    BY DEF Upto
  <2> QED
    BY <1>2, <2>1 DEF Start, Load, TypeOK
<1>3. ASSUME NEW s \in Servers,
             Stop(s) \/ Crash(s) \/ OpenLog(s) \/ Connect(s) \/ CreateTable(s)
      PROVE  Parts'
  BY <1>3 DEF Stop, Crash, OpenLog, Connect, CreateTable, TypeOK, running, config
<1>4. ASSUME NEW s \in Servers, CheckApplied(s)
      PROVE  Parts'
  <2>1. at[s] \in Nat /\ Upto(at[s]) \subseteq applied /\ applied \subseteq Files
    BY <1>4 DEF CheckApplied, TypeOK
  <2>2. CASE at[s] > NumFiles /\ GotoAt(s, "LookPermission", 1)
    <3>1. ASSUME NEW i \in Files PROVE i \in applied
      <4>1. i \in Upto(at[s])
        BY <2>1, <2>2 DEF Upto, Files
      <4> QED
        BY <2>1, <4>1
    <3>2. applied = Files
      BY <2>1, <3>1
    <3> QED
      BY <1>4, <2>2, <3>2 DEF CheckApplied, TypeOK, running, config
  <2>3. CASE at[s] \in applied /\ GotoAt(s, "CheckApplied", at[s] + 1)
    <3>1. Upto(at[s] + 1) \subseteq applied
      BY <2>1, <2>3 DEF Upto
    <3> QED
      BY <1>4, <2>3, <3>1 DEF CheckApplied, TypeOK, running, config
  <2>4. CASE at[s] \in Files /\ (Stay(s, "Execute") \/ Stay(s, "Down"))
    BY <1>4, <2>4 DEF CheckApplied, TypeOK, running, config
  <2> QED
    BY <1>4, <2>2, <2>3, <2>4 DEF CheckApplied
<1>5. ASSUME NEW s \in Servers, Execute(s)
      PROVE  Parts'
  <2>1. at[s] \in Files /\ Upto(at[s]) \subseteq applied
    BY <1>5 DEF Execute
  <2> QED
    BY <1>5, <2>1 DEF Execute, TypeOK, running, config
<1>6. ASSUME NEW s \in Servers, Record(s)
      PROVE  Parts'
  <2>1. /\ at[s] \in Nat /\ at[s] \in Files /\ at[s] \in schema
        /\ Upto(at[s]) \subseteq applied
    BY <1>6 DEF Record, TypeOK
  <2>2. Upto(at[s] + 1) \subseteq applied \cup {at[s]}
    BY <2>1 DEF Upto
  <2>3. applied \subseteq applied' /\ applied' \subseteq schema' /\ applied' \subseteq Files
    BY <1>6, <2>1 DEF Record, TypeOK
  <2> QED
    BY <1>6, <2>1, <2>2, <2>3 DEF Record, TypeOK, running, config
<1>7. ASSUME NEW s \in Servers, LookPermission(s) \/ CreatePermission(s)
      PROVE  Parts'
  BY <1>7 DEF LookPermission, CreatePermission, TypeOK, running, config
<1>8. ASSUME NEW s \in Servers,
             \/ FindAdmin(s) \/ CreateRole(s) \/ ListPermissions(s)
             \/ AssignPermission(s) \/ FindUser(s) \/ CreateUser(s) \/ AssignRole(s)
      PROVE  Parts'
  BY <1>8 DEF FindAdmin, CreateRole, ListPermissions, AssignPermission, FindUser,
     CreateUser, AssignRole, TypeOK, running, config
<1>9. ASSUME NEW s \in Servers, FirstUpload(s) \/ CheckDB(s) \/ CheckStorage(s)
      PROVE  Parts'
  BY <1>9 DEF FirstUpload, CheckDB, CheckStorage, running, config
<1> QED
  BY <1>1, <1>2, <1>3, <1>4, <1>5, <1>6, <1>7, <1>8, <1>9, StepCases

\* The admin account: who finds no role makes it and is alone with it
LEMMA SeedStep ==
    ASSUME IInv, [Next]_vars
    PROVE  (RoleFirst /\ OneFillsIn)'
<1> DEFINE Parts == RoleFirst /\ OneFillsIn
<1>0. TypeOK /\ Parts
  BY DEF IInv
<1> USE <1>0, StartupAssumption DEF RoleFirst, OneFillsIn, FillingIn, Opening,
        Migrating, Seeding, Starting, Stay, GotoAt, Goto, seeded
<1>1. CASE UNCHANGED vars
  BY <1>1 DEF vars, running, config
<1>2. ASSUME NEW s \in Servers, Start(s)
      PROVE  Parts'
  BY <1>2 DEF Start, Load, TypeOK
<1>3. ASSUME NEW s \in Servers,
             \/ Stop(s) \/ Crash(s) \/ OpenLog(s) \/ Connect(s) \/ CreateTable(s)
             \/ CheckApplied(s) \/ Execute(s) \/ Record(s)
      PROVE  Parts'
  BY <1>3 DEF Stop, Crash, OpenLog, Connect, CreateTable, CheckApplied, Execute,
     Record, TypeOK, running, config
<1>4. ASSUME NEW s \in Servers, LookPermission(s) \/ CreatePermission(s)
      PROVE  Parts'
  BY <1>4 DEF LookPermission, CreatePermission, InsertPermission, TypeOK, running, config
<1>5. ASSUME NEW s \in Servers, FindAdmin(s) \/ FindUser(s)
      PROVE  Parts'
  BY <1>5 DEF FindAdmin, FindUser, TypeOK, running, config
<1>6. ASSUME NEW s \in Servers, CreateRole(s)
      PROVE  Parts'
  BY <1>6 DEF CreateRole, InsertRole, TypeOK, running, config
<1>7. ASSUME NEW s \in Servers, ListPermissions(s) \/ AssignPermission(s)
      PROVE  Parts'
  BY <1>7 DEF ListPermissions, AssignPermission, GiveToRole, TypeOK
<1>8. ASSUME NEW s \in Servers, CreateUser(s) \/ AssignRole(s)
      PROVE  Parts'
  BY <1>8 DEF CreateUser, AssignRole, AssignToUser, TypeOK, running, config
<1>9. ASSUME NEW s \in Servers, FirstUpload(s) \/ CheckDB(s) \/ CheckStorage(s)
      PROVE  Parts'
  BY <1>9 DEF FirstUpload, CheckDB, CheckStorage, running, config
<1> QED
  BY <1>1, <1>2, <1>3, <1>4, <1>5, <1>6, <1>7, <1>8, <1>9, StepCases

\* The directory is never removed, and an answer is forgotten when its server
\* goes down
LEMMA ReadyStep ==
    ASSUME IInv, [Next]_vars
    PROVE  UploadFirst'
<1>0. TypeOK /\ UploadFirst
  BY DEF IInv
<1> USE <1>0 DEF UploadFirst, Opening, Migrating, Starting, Stay, GotoAt,
        Goto, seeded, health
<1>1. CASE UNCHANGED vars
  BY <1>1 DEF vars
<1>2. ASSUME NEW s \in Servers, Start(s) \/ Stop(s) \/ Crash(s)
      PROVE  UploadFirst'
  BY <1>2 DEF Start, Stop, Crash, Seeding, TypeOK
<1>3. ASSUME NEW s \in Servers,
             \/ OpenLog(s) \/ Connect(s) \/ CreateTable(s)
             \/ CheckApplied(s) \/ Execute(s) \/ Record(s)
      PROVE  UploadFirst'
  BY <1>3 DEF OpenLog, Connect, CreateTable, CheckApplied, Execute, Record, TypeOK
<1>4. ASSUME NEW s \in Servers,
             \/ LookPermission(s) \/ CreatePermission(s) \/ FindAdmin(s)
             \/ CreateRole(s) \/ ListPermissions(s) \/ FindUser(s)
      PROVE  UploadFirst'
  BY <1>4 DEF LookPermission, CreatePermission, FindAdmin, CreateRole,
     ListPermissions, FindUser, TypeOK
<1>5. ASSUME NEW s \in Servers, AssignPermission(s) \/ CreateUser(s) \/ AssignRole(s)
      PROVE  UploadFirst'
  BY <1>5 DEF AssignPermission, GiveToRole, CreateUser, AssignRole, AssignToUser,
     TypeOK
<1>6. ASSUME NEW s \in Servers, FirstUpload(s) \/ CheckDB(s)
      PROVE  UploadFirst'
  BY <1>6 DEF FirstUpload, CheckDB, TypeOK
<1>7. ASSUME NEW s \in Servers, CheckStorage(s)
      PROVE  UploadFirst'
  BY <1>7 DEF CheckStorage, Status, TypeOK
<1> QED
  BY <1>1, <1>2, <1>3, <1>4, <1>5, <1>6, <1>7, StepCases

LEMMA InductiveInvariant == Spec => []IInv
<1>1. IInv /\ [Next]_vars => IInv'
  BY TypeStep, MigrationStep, SeedStep, ReadyStep DEF IInv
<1> QED
  BY <1>1, InitIInv, PTL DEF Spec

-----------------------------------------------------------------------------
(* What the invariant says.                                                 *)

\* Every variable keeps its type, through every start, fault and crash.
THEOREM TypeCorrect == Spec => []TypeOK
<1>1. IInv => TypeOK
  BY DEF IInv
<1> QED
  BY <1>1, InductiveInvariant, PTL

\* migrations.Run never records a file that has not taken effect and never
\* executes one before all earlier files are recorded.
THEOREM MigrationsNeverSkipped == Spec => []RecordedMeansExecuted
<1>1. IInv => RecordedMeansExecuted
  BY DEF IInv
<1> QED
  BY <1>1, InductiveInvariant, PTL

\* main seeds and serves only behind a complete migrations table.
THEOREM SchemaBeforeSeed == Spec => []NoSeedBeforeSchema
<1>1. IInv => NoSeedBeforeSchema
  BY DEF IInv
<1> QED
  BY <1>1, InductiveInvariant, PTL

\* Seed makes one admin at most, from one server, in the order its links need.
THEOREM SeedsOneAdmin == Spec => []OneSeeder
<1>1. IInv => OneSeeder
  <2> SUFFICES ASSUME IInv PROVE OneSeeder
    OBVIOUS
  <2>1. RoleFirst /\ OneFillsIn
    BY DEF IInv
  <2>2. Cardinality(users) <= 1
    <3>1. CASE users = {}
      BY <3>1, FS_EmptySet
    <3>2. CASE users # {}
      <4>1. PICK e \in users : TRUE
        BY <3>2
      <4>2. users = {e}
        BY <2>1 DEF OneFillsIn
      <4>3. Cardinality({e}) = 1
        BY FS_Singleton, Zenon
      <4> QED
        BY <4>2, <4>3
    <3> QED
      BY <3>1, <3>2
  <2> QED
    BY <2>1, <2>2 DEF OneSeeder, RoleFirst, OneFillsIn
<1> QED
  BY <1>1, InductiveInvariant, PTL

\* Ready answers 200 only behind a complete start and an upload, by whichever
\* server that came.
THEOREM NotReadyBeforeUpload == Spec => []ReadyOnlyAfterUpload
<1>1. IInv => ReadyOnlyAfterUpload
  BY DEF IInv, UploadFirst, RoleFirst, NoSeedBeforeSchema, ReadyOnlyAfterUpload
<1> QED
  BY <1>1, InductiveInvariant, PTL

-----------------------------------------------------------------------------
(* The one way that the design leaves no way back from.                     *)

\* Once SeedIfNeeded has given up between the role and the user, for whatever
\* reason (a crash, a failed statement, a blank address, a password that is too
\* long), no start ever seeds a user: not after the database is back, and not
\* with another configuration.
THEOREM OrphanedRoleIsFinal == Spec => [][Orphaned => Orphaned']_vars
<1>1. ASSUME IInv, Orphaned, [Next]_vars
      PROVE  Orphaned'
  <2>0. TypeOK
    BY <1>1 DEF IInv
  <2> USE <1>1, <2>0 DEF Orphaned, FillingIn, Opening, Migrating, Seeding, Starting,
          TypeOK, Stay, GotoAt, Goto, seeded
  <2>1. CASE UNCHANGED vars
    BY <2>1 DEF vars
  <2>2. ASSUME NEW s \in Servers,
               \/ Start(s) \/ Stop(s) \/ Crash(s) \/ OpenLog(s) \/ Connect(s)
               \/ CreateTable(s) \/ CheckApplied(s) \/ Execute(s) \/ Record(s)
        PROVE  Orphaned'
    BY <2>2 DEF Start, Stop, Crash, OpenLog, Connect, CreateTable, CheckApplied,
       Execute, Record
  <2>3. ASSUME NEW s \in Servers,
               LookPermission(s) \/ CreatePermission(s) \/ FindAdmin(s)
        PROVE  Orphaned'
    BY <2>3 DEF LookPermission, CreatePermission, FindAdmin
  <2>4. ASSUME NEW s \in Servers, CreateRole(s)
        PROVE  Orphaned'
    BY <2>4 DEF CreateRole, InsertRole
  <2>5. ASSUME NEW s \in Servers,
               \/ ListPermissions(s) \/ AssignPermission(s) \/ FindUser(s)
               \/ CreateUser(s) \/ AssignRole(s)
        PROVE  FALSE
    BY <2>5 DEF ListPermissions, AssignPermission, FindUser, CreateUser, AssignRole
  <2>6. ASSUME NEW s \in Servers, FirstUpload(s) \/ CheckDB(s) \/ CheckStorage(s)
        PROVE  Orphaned'
    BY <2>6 DEF FirstUpload, CheckDB, CheckStorage
  <2> QED
    BY <2>1, <2>2, <2>3, <2>4, <2>5, <2>6, StepCases
<1> QED
  BY <1>1, InductiveInvariant, PTL DEF Spec

-----------------------------------------------------------------------------
(* The database answers and no server dies at its start.                    *)

\* Who comes up leaves a role behind, and who made the role is still at it or
\* has made a user; a user without the role is one that is just being given it
AccountWhole ==
    /\ \A s \in Servers : pc[s] = "Up" => adminRole
    /\ adminRole => users # {} \/ \E s \in Servers : pc[s] \in FillingIn
    /\ admins = users \/ \E s \in Servers : pc[s] = "AssignRole"

\* The names a server knows are in the table before it looks for the role, and
\* with the role once its maker has been through them, from then on for good
Granted ==
    /\ \A s \in Servers :
          /\ pc[s] \in {"LookPermission", "CreatePermission"} =>
                Upto(at[s]) \subseteq permissions
          /\ pc[s] \in {"FindAdmin", "CreateRole", "ListPermissions"} =>
                1..release[s] \subseteq permissions
          /\ pc[s] = "AssignPermission" =>
                1..release[s] \subseteq rolePermissions \cup listed[s]
          /\ pc[s] \in {"FindUser", "CreateUser"} =>
                1..release[s] \subseteq rolePermissions
    /\ adminRole => \/ \E s \in Servers : pc[s] \in {"ListPermissions", "AssignPermission"}
                    \/ \A n \in Releases : 1..n \subseteq rolePermissions

OneRelease == \A m, n \in Releases : m = n

\* A server leaves the account whole: only a fault, or a configuration that
\* cannot be a user, takes it away from filling in
LEMMA AccountStep ==
    ASSUME IInv, AccountWhole, FitFiller, [Next]_vars,
           ~MayFail("db"), ~MayFail("ack"), ~MayFail("crash")
    PROVE  AccountWhole'
<1>0. TypeOK /\ RoleFirst /\ OneFillsIn
  BY DEF IInv
<1> USE <1>0 DEF AccountWhole, FillingIn, Opening, Migrating, Seeding, Starting,
        Stay, GotoAt, Goto, seeded
<1>1. CASE UNCHANGED vars
  BY <1>1 DEF vars
<1>2. ASSUME NEW s \in Servers, Start(s) \/ Stop(s) \/ Crash(s)
      PROVE  AccountWhole'
  BY <1>2 DEF Start, Stop, Crash, TypeOK
<1>3. ASSUME NEW s \in Servers,
             \/ OpenLog(s) \/ Connect(s) \/ CreateTable(s) \/ CheckApplied(s)
             \/ Execute(s) \/ Record(s) \/ LookPermission(s) \/ CreatePermission(s)
      PROVE  AccountWhole'
  BY <1>3 DEF OpenLog, Connect, CreateTable, CheckApplied, Execute, Record,
     LookPermission, CreatePermission, TypeOK
<1>4. ASSUME NEW s \in Servers, FindAdmin(s) \/ CreateRole(s)
      PROVE  AccountWhole'
  BY <1>4 DEF FindAdmin, CreateRole, InsertRole, RoleFirst, OneFillsIn, TypeOK
<1>5. ASSUME NEW s \in Servers, ListPermissions(s) \/ AssignPermission(s)
      PROVE  AccountWhole'
  BY <1>5 DEF ListPermissions, AssignPermission, OneFillsIn, TypeOK
<1>6. ASSUME NEW s \in Servers, FindUser(s)
      PROVE  AccountWhole'
  BY <1>6 DEF FindUser, OneFillsIn, FitFiller, Fit, TypeOK
<1>7. ASSUME NEW s \in Servers, CreateUser(s)
      PROVE  AccountWhole'
  BY <1>7 DEF CreateUser, OneFillsIn, FitFiller, Fit, TypeOK
<1>8. ASSUME NEW s \in Servers, AssignRole(s)
      PROVE  AccountWhole'
  <2>1. NormalForm[email[s]] \in users
    BY <1>8 DEF AssignRole, OneFillsIn
  <2>2. admins' = users' /\ users' # {}
    BY <1>8, <2>1 DEF AssignRole, AssignToUser, RoleFirst, OneFillsIn
  <2> QED
    BY <1>8, <2>2 DEF AssignRole, OneFillsIn, TypeOK
<1>9. ASSUME NEW s \in Servers, FirstUpload(s) \/ CheckDB(s) \/ CheckStorage(s)
      PROVE  AccountWhole'
  BY <1>9 DEF FirstUpload, CheckDB, CheckStorage
<1> QED
  BY <1>1, <1>2, <1>3, <1>4, <1>5, <1>6, <1>7, <1>8, <1>9, StepCases

\* No name is lost on its way from the program to the role
LEMMA GrantedStep ==
    ASSUME IInv, Granted, [Next]_vars, OneRelease,
           ~MayFail("db"), ~MayFail("ack"), ~MayFail("crash")
    PROVE  Granted'
<1>0. TypeOK /\ Indices /\ OneFillsIn
  BY DEF IInv
<1> USE <1>0, StartupAssumption DEF Granted, FillingIn, Opening, Migrating,
        Seeding, Starting, Stay, GotoAt, Goto, seeded
<1>1. CASE UNCHANGED vars
  BY <1>1 DEF vars, running, config, Upto
<1>2. ASSUME NEW s \in Servers, Start(s) \/ Stop(s) \/ Crash(s)
      PROVE  Granted'
  BY <1>2 DEF Start, Load, Stop, Crash, running, config, Upto, TypeOK
<1>3. ASSUME NEW s \in Servers,
             \/ OpenLog(s) \/ Connect(s) \/ CreateTable(s) \/ CheckApplied(s)
             \/ Execute(s) \/ Record(s)
      PROVE  Granted'
  <2>1. Upto(1) = {}
    BY DEF Upto
  <2> QED
    BY <1>3, <2>1 DEF OpenLog, Connect, CreateTable, CheckApplied, Execute, Record,
       running, config, Upto, TypeOK
<1>4. ASSUME NEW s \in Servers, LookPermission(s)
      PROVE  Granted'
  <2>1. at[s] \in Nat /\ release[s] \in Nat /\ Upto(at[s]) \subseteq permissions
    BY <1>4 DEF LookPermission, TypeOK
  <2>2. at[s] > release[s] => 1..release[s] \subseteq Upto(at[s])
    BY <2>1 DEF Upto
  <2>3. Upto(at[s] + 1) \subseteq Upto(at[s]) \cup {at[s]}
    BY <2>1 DEF Upto
  <2> QED
    BY <1>4, <2>1, <2>2, <2>3 DEF LookPermission, running, config, TypeOK
<1>5. ASSUME NEW s \in Servers, CreatePermission(s)
      PROVE  Granted'
  <2>1. at[s] \in Nat /\ Upto(at[s]) \subseteq permissions
    BY <1>5 DEF CreatePermission, TypeOK
  <2>2. Upto(at[s] + 1) \subseteq Upto(at[s]) \cup {at[s]}
    BY <2>1 DEF Upto
  <2>3. permissions' = permissions \cup {at[s]}
    BY <1>5 DEF CreatePermission, InsertPermission
  <2> QED
    BY <1>5, <2>1, <2>2, <2>3 DEF CreatePermission, running, config, TypeOK
<1>6. ASSUME NEW s \in Servers, FindAdmin(s) \/ CreateRole(s) \/ FindUser(s)
      PROVE  Granted'
  <2>1. CASE CreateRole(s)
    <3>1. CASE ~adminRole
      <4>1. pc'[s] = "ListPermissions"
        BY <2>1, <3>1 DEF CreateRole, InsertRole, TypeOK
      <4> QED
        BY <2>1, <4>1 DEF CreateRole, running, config, TypeOK
    <3>2. CASE adminRole
      <4>1. Stay(s, "Up") /\ UNCHANGED adminRole
        BY <2>1, <3>2 DEF CreateRole, InsertRole
      <4> QED
        BY <2>1, <3>2, <4>1 DEF CreateRole, running, config, TypeOK
    <3> QED
      BY <3>1, <3>2
  <2> QED
    BY <1>6, <2>1 DEF FindAdmin, FindUser, running, config, TypeOK
<1>7. ASSUME NEW s \in Servers, ListPermissions(s)
      PROVE  Granted'
  BY <1>7 DEF ListPermissions, config, TypeOK
<1>8. ASSUME NEW s \in Servers, AssignPermission(s)
      PROVE  Granted'
  <2>1. listed[s] = {} => \A n \in Releases : 1..n \subseteq rolePermissions
    BY <1>8 DEF AssignPermission, OneRelease, TypeOK
  <2> QED
    BY <1>8, <2>1 DEF AssignPermission, GiveToRole, config, TypeOK
<1>9. ASSUME NEW s \in Servers, CreateUser(s)
      PROVE  Granted'
  BY <1>9 DEF CreateUser, running, config, TypeOK
<1>10. ASSUME NEW s \in Servers, AssignRole(s)
      PROVE  Granted'
  BY <1>10 DEF AssignRole, running, config, TypeOK
<1>11. ASSUME NEW s \in Servers, FirstUpload(s) \/ CheckDB(s) \/ CheckStorage(s)
      PROVE  Granted'
  BY <1>11 DEF FirstUpload, CheckDB, CheckStorage, running, config
<1> QED
  BY <1>1, <1>2, <1>3, <1>4, <1>5, <1>6, <1>7, <1>8, <1>9, <1>10, <1>11, StepCases

LEMMA AccountAlwaysWhole ==
    ASSUME ~MayFail("db"), ~MayFail("ack"), ~MayFail("crash")
    PROVE  Spec /\ []FitFiller => []AccountWhole
<1>1. Init => AccountWhole
  BY DEF Init, AccountWhole
<1>2. IInv /\ AccountWhole /\ FitFiller /\ [Next]_vars => AccountWhole'
  BY AccountStep
<1> QED
  BY <1>1, <1>2, InductiveInvariant, PTL DEF Spec

LEMMA AlwaysGranted ==
    ASSUME OneRelease, ~MayFail("db"), ~MayFail("ack"), ~MayFail("crash")
    PROVE  Spec => []Granted
<1>1. Init => Granted
  BY DEF Init, Granted
<1>2. IInv /\ Granted /\ [Next]_vars => Granted'
  BY GrantedStep
<1> QED
  BY <1>1, <1>2, InductiveInvariant, PTL DEF Spec

\* Phase 2_task_breakdown.md, Task 2.7, holds of every deployment whose database
\* answers, whose servers do not die while they start, and where the server that
\* makes the role has an address that is not blank and a password of at most 72
\* bytes, whatever the others are given: when the starts are over there is an
\* admin user and it has the role.  (Startup_crash shows that SeedIfNeeded does
\* not keep it through a crash, OrphanedRoleIsFinal that nothing mends it.)
THEOREM AdminSeededWithoutFaults ==
    ASSUME ~MayFail("db"), ~MayFail("ack"), ~MayFail("crash")
    PROVE  Spec /\ []FitFiller => []AdminSeeded
<1>1. AccountWhole => AdminSeeded
  BY DEF AccountWhole, AdminSeeded, Settled, FillingIn
<1> QED
  BY <1>1, AccountAlwaysWhole, PTL

\* Task 3.5 holds, in whatever configuration, as long as no statement fails, no
\* server dies at its start and one release is run.  (Startup_upgrade shows
\* that a later release, which knows more names, does not give them to the role.)
THEOREM RoleCompleteInOneRelease ==
    ASSUME OneRelease, ~MayFail("db"), ~MayFail("ack"), ~MayFail("crash")
    PROVE  Spec => []AdminRoleHasAllPermissions
<1>1. IInv /\ Granted => AdminRoleHasAllPermissions
  BY DEF IInv, TypeOK, Granted, AdminRoleHasAllPermissions, Settled
<1> QED
  BY <1>1, InductiveInvariant, AlwaysGranted, PTL

\* The safety half of AdminReadyInTheEnd: once the account is complete no start,
\* stop or restart of a server makes it incomplete again.
THEOREM AdminReadyStays ==
    ASSUME OneRelease, ~MayFail("db"), ~MayFail("ack"), ~MayFail("crash")
    PROVE  Spec => [][AdminReady => AdminReady']_vars
<1>1. ASSUME IInv, Granted', IInv', AdminReady, [Next]_vars
      PROVE  AdminReady'
  <2>1. /\ adminRole /\ users # {} /\ admins = users
        /\ RoleFirst /\ OneFillsIn /\ TypeOK /\ TypeOK' /\ RoleFirst'
    BY <1>1 DEF AdminReady, IInv
  <2>2. users \subseteq users' /\ admins' = users'
    <3> USE <2>1 DEF seeded
    <3>1. CASE UNCHANGED vars
      BY <3>1 DEF vars
    <3>2. ASSUME NEW s \in Servers, CreateUser(s)
          PROVE  FALSE
      BY <3>2 DEF CreateUser, OneFillsIn, FillingIn
    <3>3. ASSUME NEW s \in Servers, AssignRole(s)
          PROVE  users \subseteq users' /\ admins' = users'
      BY <3>3 DEF AssignRole, AssignToUser, OneFillsIn
    <3>4. ASSUME NEW s \in Servers,
                 \/ Start(s) \/ Stop(s) \/ Crash(s) \/ OpenLog(s) \/ Connect(s)
                 \/ CreateTable(s) \/ CheckApplied(s) \/ Execute(s) \/ Record(s)
                 \/ LookPermission(s) \/ CreatePermission(s) \/ FindAdmin(s)
                 \/ CreateRole(s) \/ ListPermissions(s) \/ AssignPermission(s)
                 \/ FindUser(s) \/ FirstUpload(s) \/ CheckDB(s) \/ CheckStorage(s)
          PROVE  UNCHANGED <<users, admins>>
      BY <3>4 DEF Start, Stop, Crash, OpenLog, Connect, CreateTable, CheckApplied,
         Execute, Record, LookPermission, CreatePermission, FindAdmin, CreateRole,
         ListPermissions, AssignPermission, FindUser, FirstUpload, CheckDB,
         CheckStorage
    <3> QED
      BY <1>1, <3>1, <3>2, <3>3, <3>4, StepCases
  <2>3. users' # {} /\ adminRole'
    BY <2>1, <2>2 DEF RoleFirst
  <2>4. \A n \in Releases : 1..n \subseteq rolePermissions'
    BY <1>1, <2>3 DEF Granted, IInv, OneFillsIn, FillingIn
  <2> QED
    BY <1>1, <2>1, <2>2, <2>3, <2>4 DEF AdminReady, TypeOK
<1> QED
  BY <1>1, InductiveInvariant, AlwaysGranted, PTL DEF Spec
=============================================================================
