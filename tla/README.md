# Verification of Oort Object Storage

TLA+ models of the Oort server and its client, small instances of them checked by
TLC, and theorems about both proved with TLAPS for every size of instance.

## 1. The system

Oort is one Go process (`cmd/server`) over two stores that share no
transaction: a Postgres database and a directory of blobs; and a command line
client (`cmd/oortctl`) that talks HTTP to it. `net/http` runs one
goroutine per request; there is no lock, no queue and no background job in the
server, and no `BEGIN` anywhere: every statement commits by itself. All
coordination is done by the database's unique indexes and by the fact that an
upload draws a fresh path.

| Component | State it keeps | Operations | Module | 
|---|---|---|---|
| Object service, local driver, objects repository, object handler | `objects` table, blob files | upload, download, delete, list | `ObjectStore`, `Durability` |
| Signed URLs: service, repository, handler, token branch of `ObjectAccess` | `signed_urls` table | sign, validate, consume | `SignedURL` |
| Configuration, log, database connection | environment, `myLOG.txt`, connection pool | `Load`, `InitLogger`, `NewPostgres`, at each start | `Startup` |
| Migrations | schema, `migrations` table | `Run`, at each start | `Startup` |
| Seeding | `permissions`, `roles`, `role_permissions`, `users`, `user_roles` | `SeedIfNeeded`, at each start | `Startup` |
| Health checks | none; they look at the connection and at `./data/blobs` | live, ready | `Startup` |
| Users, permissions, login | `users`, `user_permissions`; JWTs held by clients | create user, grant, login | `Access` |
| Buckets | `buckets` table | create, list, get | `Access`, `ObjectStore` |
| API keys | `api_keys` table | create, list, delete, validate | `Access` |
| Middleware and routes | none | `Auth`, `RequirePermission`, `ObjectAccess` | `Access`, `SignedURL` |
| Command line client | `~/.oort/token`, local files | login, logout, bucket create and list, upload, download, delete, ls, sign | `Client` |

What JWTs, keys and signed URLs have in common is stated once, in `Capability`.

How they interact: routes wrap every handler in middleware; the middleware
reads credentials from the database (API keys, signed URLs) or from the request
alone (JWT); handlers call one service each; services call repositories and the
storage driver one after the other. A signed-URL upload is the one place where
middleware acts *after* the handler. Startup runs before the listener opens.
The client sends one request per command, without timeout or retry, and shares
its token file and the user's files with every other command that runs.

What is hard here:

* **Two stores, no transaction.** Upload writes a file, then a row, then
  removes the replaced file; delete removes the file, then the row. Any call of
  another request, an error or a crash fits in between.
* **Read, then act on what was read.** Downloads open a path looked up earlier;
  deletes delete by the id looked up earlier; uploads remove the file of the row
  looked up before their upsert; creation of buckets and users is look-up then
  insert; signed URLs are validated before and consumed after the handler;
  migrations are tested, executed and recorded by three statements; JWTs carry
  permissions read at login.
* **Errors that are ignored or ambiguous.** The look-up error in `UploadObject`,
  the error of `Consume`, that of copying an object into the answer, all errors of
  seeding, `rows.Err` everywhere; and a statement may commit and still report an
  error.
* **Restarts and several servers.** Nothing is repaired at start, and a server
  that starts again repeats migrations and seeding from whatever was left, with
  whatever configuration it then finds.
* **Power.** Blobs are never synced, rows are.
* **Clients that stop waiting.** A command that was interrupted or lost its
  connection leaves its request on the way, and local files half written.

`PROJECT.json` lists each of these at its source line, with the properties that
cover it.

## 2. The modules

### ObjectStore

A request is a process; `pc[r]` names its next external call and
each call to Postgres or the filesystem is one action. What happens in
memory between two calls belongs to the action of the first. Save is two
actions (the file exists before its bytes do). A request's name stands for the
uuid it draws, for its path and for its bytes, so `files[p] = r` says "the file
at p has all the bytes r uploaded" and `o.checksum = r` is the hash of them.
`found[r]` is the row the goroutine holds in memory.

| Action | Code |
|---|---|
| `FindBucket` | `FindByName`, first in every operation |
| `RejectUpload` | `FormFile` fails: 400 |
| `CreateBlob`, `CopyBody` | `storage.Save`: `os.Create`, then `io.Copy` |
| `FindExisting`, `Upsert`, `Cleanup`, `DropOld` | the rest of `UploadObject` |
| `FindObject`, `Open` | `GetObject`, `OpenObjectFile` |
| `FindObject`, `RemoveBlob`, `DeleteRow` | `DeleteObject` |
| `ListByBucket` | `ListObjects` |
| `CreateBucket` | a bucket appears (details are in `Access`) |
| `Crash` | all goroutines in flight are lost; table and files stay |

`committed` and `replaced` are history: which upserts took effect and what they
displaced. No guard reads them.

Two points of fidelity. The driver writes in place but no path is ever written
by two uploads, and POSIX keeps an unlinked file readable through an open
descriptor, so the bytes of a download are fixed at its `Open`. The 200 and the
`Content-Length` go out before the file is read and the error of `io.Copy` is ignored,
so under `fs` a 200 may send only the first of these bytes: `served[r]` has both the
file the bytes are from (`bytes`) and whether all of them went out (`whole`). A failed list
read is not noticed (`rows.Err` is not called), so under `db` a list may be a
part of the rows and still answered 200.

### Durability

`ObjectStore` on a machine that may lose its power. `files` is what the
processes see, `device[p]` what has reached the device. `Writeback` is the
kernel, which writes a file, a part of it or its removal when it likes, since
`Save` closes its file without `Sync`; `PowerLoss` makes `files` equal to
`device` and ends every request; the tables stay, because Postgres syncs a
commit before it acknowledges it. `lost` is history: the paths whose last change
was undone. `ServedBytes` and `RowsHaveBlobs` do *not* hold here: the handler does
not compare the checksum, so a download may be a file cut short. What holds is that
nothing else is ever damaged, and that everything else the store promises survives.

### VersionedStore

The abstract specification: a set of current versions, changed in one atomic
step per request; a put commits once, a get is sent a version it was shown, a
delete takes only the version it was shown, a request may fail without effect.
`ObjectStore` implements it (`ImplementsVersionedStore`) under the mapping in its
section "The versioned store this implements": versions are the ids of rows and
files do not show. In particular a download is *never* answered with a mixture,
a partial file or a version that was not current when it looked. The versions say
nothing of how much of a body goes out: that is `ServedBytes`.

### Capability

The abstract specification of a credential: capabilities are issued once, live
until they are revoked (by expiry, deletion or consumption) and never again;
a request is served only if it *showed* one that was alive at the time it was
looked at. `SignedURL` implements it with its tokens, alive while their row is
there and has not expired; `Access` with its JWTs, alive until `exp`, and its
API keys. A step of the clock revokes any number at once, and a request may be
served after its capability was revoked: both modules check a credential in
one step and act in a later one.

### SignedURL

The clock, the table, and the token branch of `ObjectAccess`: `FindToken`,
`CheckToken` (which reads the clock after the row), `Handle`, `Consume`. The
object handler is one step here, which `ObjectStore` justifies by implementing
`VersionedStore`: an upload takes effect in one step or not at all, and with
`ack` it may take effect and be answered 500. `held[r]` is the row read. The
history variables say which uploads took effect, when requests arrived, whose
`Consume` took effect, and which requests were over when one was looked up.

### Startup

Servers that start, run the migrations, seed, come up, stop, fail or die, and
start again, several at a time in one directory on one database. One action per
statement. Files and permission names are numbers; a *release* is the number of
names it knows, so that an upgrade is a server with a larger release. `Load`
reads a configuration anew at each start; of its values `ADMIN_EMAIL` and
`ADMIN_PASSWORD` decide what happens, and they may differ from the last start's.
`SeedIfNeeded` looks the address up as it is written; `UserService.Create` stores its
`NormalForm` (lower case, trimmed), refuses one of which nothing is left (`Blank`:
`getEnv` replaces only an empty value) before it looks it up, and fails on a password
that bcrypt refuses (`TooLong`, more than 72 bytes) before it inserts the row. Both
refusals come after the role was made. A log that cannot be opened, a database that does not
answer and a failed migration end the process, and nothing is retried; errors of
seeding never do. Two concurrent `CREATE ... IF NOT EXISTS` of one thing can make one
of them fail in Postgres, without any fault: that is `JustMade` and `JustRun`.

A server that is up answers `/health/ready` in two checks, `CheckDB` and
`CheckStorage`; `ready[s]` is its last answer. The directory they probe is made by
the `MkdirAll` of the first `Save`, here `FirstUpload`, whatever becomes of that upload
afterwards; it needs the seeded admin, as nobody else can make a bucket or a user.

### Access

Users, buckets, API keys and logins, and the decision of the middleware. A
request picks what it asks and with which credentials when it arrives, among
those that exist by then, a key and a JWT at once included; what is decided
without a look-up (a JWT) is part of `Arrive`. The instance starts as `Startup`
leaves a server: an admin with every permission, one JWT of his, and one
ordinary user. Permissions are named by the operations they guard and listed in
the order of their real names, because the login query sorts by name and a lost
connection therefore cuts off a tail (`Prefixes`). What a service returns and what
its handler answers for it are separate operators (`CreateUserStatus` and so on).
`arrived` is when the credential was looked at; `before` and `cut` are history: the
changes that were answered before a request arrived, and the requests that were
shown less than there was. The signing secret of JWTs is the same in every
start.

### Client

`oortctl`. Each command is a process: its line is picked when it starts, and the
steps are the calls it makes: reading the token, opening and reading a file,
sending its one request, receiving the answer, creating and writing the output,
truncating and writing the token. `wire[c]` is the request, which the server
serves in one step whether or not its command still waits; it may refuse any,
since whom it lets in is the matter of `Access`, and it may take effect and be
refused (an unacknowledged commit) or its body end early. A token is named by the login that was given
it, and the bytes of a file by the file they were in at first; `Torn` stands for
a part or a mixture. `linked` says which open token files are still the one at
that path: a logout removes it under a login that is writing, and may itself be killed between
the removal and its end. `overBefore` and `took` are history.

### Faults

Every module takes a set `Faults`: `db` (a statement fails without effect, also
because its request context was cancelled), `ack` (it commits and an error is
reported), `fs` (a filesystem call fails), `crash`. `Client` has its own: `net`
(a request or an answer is lost), `disk`, `kill` and `server` (an effect that is
answered with an error, or a body cut short). Power failures are in `Durability` whatever `Faults` is. Runs with `Faults = {}` ask
what concurrency alone can do.

## 3. What the runs check

| Run | Instance | Properties | Shows |
|---|---|---|---|
| `ObjectStore_faults` | 4 requests, 1 key, all faults | `TypeOK`, `RowsHaveBlobs`, `ServedBytes`, `DeletedStaysDeleted`, `FailedUploadInvisible`, `NoRowLost`, `ImplementsVersionedStore` | safety under any failure |
| `Durability_power` | 3 requests, 2 keys, `db`, `crash` and power failures | `DamageExplained`, `ServedUnlessLost`, `DeletedRowsStayDeleted`, `OrphansExplained` | what a power failure can damage, and who leaves the orphans |
| `ObjectStore_quiet` | 3 requests, 1 key, no fault, fair | `StoredObjectsDownload`, `ReplacedBlobRemoved`, `BrokenRowGoes` | concurrency alone leaves every row downloadable |
| `ObjectStore_crash` | 3 requests, crash | `StoredObjectsDownload` is **violated** | see section 5 |
| `SignedURL_faults` | 2 requests, 1 token, 2 targets, time 0..2, all faults, fair | `TypeOK`, `ReuseNeedsOverlap`, `NoLateArrival`, `OnlyUploadsConsume`, `TokenEventuallyGone`, `ImplementsCapability` | exactly how a token can be used twice, and that it goes away |
| `SignedURL_once` | 2 requests, no fault | `OneTimeUse` is **violated** | see section 5 |
| `Startup_faults` | 2 servers, 2 files, releases 1 and 2, 2 addresses, 2 passwords (one too long), all faults | `TypeOK`, `RecordedMeansExecuted`, `NoSeedBeforeSchema`, `OneSeeder`, `ReadyOnlyAfterUpload` | no migration is skipped, seeding is never doubled, readiness waits for an upload to begin |
| `Startup_quiet` | 2 servers, one release, 3 addresses (one blank), 2 passwords, no fault, fair | `AdminReadyInTheEnd`, `EveryServerComesUp` | a concurrent first start completes, if the configuration that comes to be used is one an account can have |
| `Startup_crash`, `Startup_upgrade` | 1 server | `AdminSeeded`, `AdminRoleHasAllPermissions` are **violated** | see section 5 |
| `Access_faults` | 3 requests, 2 users and a new address, 1 bucket name, time 0..1, all faults | `TypeOK`, `OneOwner`, `GrantsReachTokens`, `LetInByRight`, `DeletedKeyRefused`, `ReadsCurrent`, `ImplementsCapability` | accounts and credentials under races |
| `Client_faults` | 3 commands, 2 files with one base name, all faults | `TypeOK`, `SessionIntact`, `LoginLasts`, `AnsweredEffectsLast`, `DownloadWhole`, `TornExplained` | what a command that reported success may rely on |

Each property is stated in words above its definition. Every property of a
passing run has a mutant in `PROJECT.json`: a plausible change of the code (they
stand next to what they change, marked `mutant`) under which TLC finds it
violated.

**Bounds.** The object service serialises on one (bucket, key); other keys
matter only because their rows must be left alone, so two keys occur in one
run (`Durability_power`). Four requests are enough for the longest conflict of the code: one
that creates a version, one that replaces it, one that deletes it and one that
reads, each overtaking the others; the theorems of section 4 remove the bound
for the properties proved. Two uses of one token need two requests; a request
with another token touches other rows. `MaxTime` leaves room for a token that has expired at birth (-1),
one that expires during a request (1) and, at the bound, the default lifetime (2). Two
servers are enough for any interference through one table row. In `Access` three
requests suffice for each property, since each relates two requests and at most
one that prepared them (a grant, a login, a use). In `Client` two commands
race and a third observes or was killed before; two paths with one base name and
one key are the smallest case in which they collide. `ls` and the bucket commands
are left out of its instance: they send one request and change nothing locally.
Requests, tokens and servers are interchangeable; symmetry is used in runs
without liveness only. Deadlock is not checked where every request runs once
and the system may stop: `ObjectStore`, `Durability`, `SignedURL`, `Access`, `Client`. It is checked in
`Startup`, where a server can always be stopped or started.

**Fairness.** `FairSpec` asks weak fairness of each request's next step (a
goroutine that can run is scheduled, a call returns, if only with an error) and,
in `Startup`, of each server's next statement and of its being started again
after it exits. The last is an assumption on the operator (a supervisor that
restarts); the repository configures none, so `EveryServerComesUp` and
`AdminReadyInTheEnd` say what holds under one. Nothing is assumed of clients, of
the clock or of faults. Liveness is checked without faults, as a store that fails
for ever promises nothing, but for `TokenEventuallyGone`, which says what happens
to the token of a successful upload under every fault.

## 4. What is proved

### The object store

`ObjectStore_proofs.tla` and `ObjectStore_refinement.tla`, checked by TLAPS. The
assumptions are the two of `ObjectStore`: the faults are among the four kinds,
and "no file" and "partial" are not contents of an upload. The sets of requests,
buckets and keys are arbitrary, also infinite.

| Theorem | States |
|---|---|
| `TypeCorrect` | `[]TypeOK` |
| `RowsHaveBlobsAlways` | a row's file is whole, but in the delete window and after an unacknowledged commit |
| `ServedBytesAlways` | a 200 sends bytes of the row it looked up and no others; all of them unless file calls may fail |
| `DeletedStaysDeletedAlways` | a 204 is final |
| `FailedUploadInvisibleAlways` | a failed upload is seen by nobody, but between an unacknowledged commit and its clean-up |
| `NoRowLostEver` | a row leaves only for its delete or for an upload of its key |
| `Implementation` | `Spec => ImplementsVersionedStore` |
| `StoredObjectsDownloadAlways` | if the database answers and nothing crashes, every row of an idle service has its bytes |

The last has these three conditions as its hypotheses (`~MayFail("db")` and so
on) and none on the file system: a failed `os.Remove` stops a delete *before* it has
done any harm. `ObjectStore_crash` shows that the condition on crashes is needed.

The argument. None of these is inductive by itself. `IInv` adds

* *control*: which steps belong to which operation, and how far a request is
  when it has an answer (`StepsOfOps`, `AnswersOfSteps`);
* *rows are immutable and owned*: every row, in the table or in the memory of a
  request, is `RowOf(id)` of a committed upload (`RowsAreOwn`, `FoundAreOwn`),
  there is one per key, and an upload commits once. Hence the path of a row
  determines the upload, and deleting by id deletes a version;
* *the file of an upload*: whole from `CopyBody` on until its commit
  (`BlobBeforeUpsert`), and whole or absent after it (`BlobAfterUpsert`);
* *what is gone stays gone*: a displaced row whose removal is under way
  (`DroppedRowsGone`), and rows and blobs of deletes (`DeletedBlobsGone`,
  `DeletedRowsGone`).

Each part has a lemma that a step of `Next` preserves it, split by action;
`FileChanges` lists once which action changes which path, `NoReturn` and
`NoRewrite` say that a row that left and a file that was removed never come
back. The refinement then shows each action to be an action of `VersionedStore`
or a stutter. For `StoredObjectsDownloadAlways` one more part is needed: a request
that is past `RemoveBlob` is still running or was answered 204 (`DeletesFinish`), so
an idle service has no delete window.

### Durability

`Durability_proofs.tla`, which stands on `ObjectStore_proofs` and has no further
assumption: any faults, and a power failure in any state.

| Theorem | States |
|---|---|
| `DurabilityTypeCorrect` | `[]DurabilityTypeOK` |
| `DamageAlwaysExplained` | a row has its bytes, or a power failure, a delete or an unacknowledged commit took them |
| `ServedUnlessLostAlways` | only a file that a power failure changed is served with other bytes; with fewer, only if file calls may fail |
| `DeletedRowsStayDeletedAlways` | the row of a 204 never comes back, its blob only with a power failure |
| `FailedUploadStaysInvisible` | `FailedUploadInvisible`, here too |
| `OrphansAlwaysExplained` | who left each blob that has no row |
| `NoRowLostToPower` | `NoRowLost`, here too |
| `SyncedBlobStays` | once on the device, the blob of a row is taken by its delete or its upload's clean-up only |
| `NothingLeaksBehindOneWriter` | no orphans, if no call fails and uploads of one key take turns |

The last is `DurabilitySpec /\ []OneWriter => []NothingLeaked` with `~MayFail("db")`,
`"ack"` and `"fs"` as hypotheses; crashes and power failures may occur, and
`NothingLeaked` speaks of states in which they stopped no request and sets apart the
paths in `lost`. Deletes and downloads may race with everything. Without `OneWriter`
TLC finds a leak at once: the second of two uploads that both saw no row displaces
the first one's and forgets its blob.

The argument. Every step is one of `ObjectStore` with `lost` as it was, or it
does not touch what the processes see, or it is `PowerLoss` (`StepKinds`). The parts
of the object store's invariant that say nothing of files (`Structure`,
`DroppedRowsGone`, `DeletedRowsGone`) hold unchanged, since a power failure only ends
requests (`PowerLossKeeps`); so their lemmas are used again as they are. The parts
about files hold but for the paths in `lost` (`CommittedBlob`, `DeletedBlob`), with
one exception that needs no exception: the blob of an upload that has not committed
is whole (`BlobWhileUploading`), because a power failure ends that upload. For the
orphans it is followed how a blob comes and how a row goes: a file appears only
under an upload that is writing it (`FileAppears`), stays under it until it commits
(`UncommittedStep`), keeps its row until another upload or a delete takes the row
(`RowLeaves`, `ReferencedStep`), and an upload that took a row and does not remove
its blob stays the one to answer for it (`ReplacedStays`, `SupersededStep`). With one
writer to a key, an upload displaces only what its look-up has shown it (`SawAll`),
and then nothing but a request that was stopped is left to answer.

### Startup

`Startup_proofs.tla`, under `StartupAssumption`: the number of files and the
releases are natural numbers, and a normal form is its own normal form. Servers,
files, releases, addresses and passwords are arbitrary.

| Theorem | States |
|---|---|
| `TypeCorrect` | `[]TypeOK` |
| `MigrationsNeverSkipped` | a recorded file has taken effect, and all before it are recorded |
| `SchemaBeforeSeed` | nothing is seeded or served before every file is recorded |
| `SeedsOneAdmin` | one admin at most, filled in by one server, in the order of its links |
| `NotReadyBeforeUpload` | ready means up, a complete schema, an admin and an upload that made its directory |
| `OrphanedRoleIsFinal` | an admin role that nobody fills in and that no user has stays so for ever |
| `AdminSeededWithoutFaults` | with no database error, no death at a start and a fit configuration where the role is filled in, there is an admin with the role when the starts are over |
| `RoleCompleteInOneRelease` | with no database error, no death at a start and one release, the role has all permissions, whatever the configuration |
| `AdminReadyStays` | then too, the account once complete stays complete |

The last three have these conditions as hypotheses; the fit configuration is `[]FitFiller`:
the server that comes to fill in the account, whichever it is, has an address that is
not blank and a password that bcrypt takes. It is needed: a blank `ADMIN_EMAIL` or an
`ADMIN_PASSWORD` of more than 72 bytes orphans the role without any fault, and
`OrphanedRoleIsFinal`, which holds under every fault, says that no later start with a
better one mends it. The three are the reverse of the two
runs that end in a violation: what the documents say of the admin account holds as
long as nothing that `Startup_crash` and `Startup_upgrade` use occurs, for any number of servers that start
at once. `AdminReadyStays` is the safety half of `AdminReadyInTheEnd`; that the
account does get complete is liveness.

The argument. The migrations table only grows, so what a server has passed in the
list of files stays recorded whoever recorded it (`Passed`), which gives the first
file it has not recorded all its predecessors. For the admin: a role that exists
keeps every server out of `ListPermissions`, so there is nobody filling in a role
before it is made and one server at most after (`OneFillsIn`); that server goes
through `CreateUser` once, and until then there is no user. For readiness: the
directory is never removed, an upload needs the admin, and an answer is forgotten
with its server (`UploadFirst`).

Without faults and with a fit configuration, who made the role is still filling it in or
has made the user (`AccountWhole`), and every name a server knows gets, step by step, from the program
into the table, the list, the role (`Granted`).

### Signed URLs

`SignedURL_proofs.tla`, under `TimesAssumption` (lifetimes are integers, the bound
of the clock is a natural number: any, so that nothing depends on it).

| Theorem | States |
|---|---|
| `TypeCorrect` | `[]TypeOK` |
| `LateIsRefused` | nobody who arrives after the expiry of his token is let in |
| `ReuseIsExplained` | two uploads with one token overlapped, or a `DELETE` failed |
| `TokensLast` | only a 201 with its token removes a row |
| `TokensAreCapabilities` | `Spec => ImplementsCapability` |
| `OneUseInTurn` | without faults, and if no two uploads with one token are in flight together, it uploads once |

`OneUseInTurn` is the reverse of `SignedURL_once`: `Spec /\ []OneAtATime => []OneTimeUse`,
where `OneAtATime` is a demand on clients.

The argument. A token is drawn once, so the row in the memory of a request is the
row of the table or of none (`RowsAreDrawn`); the clock is read after the row, so
a row that has not expired at the check had not at the look-up (`LetIn`); a row
whose `DELETE` took effect never comes back, so a request that finds it came before
(`ConsumedGone`, `OverBefore`); and an upload that is over without its `DELETE`
met a fault (`DeletedOrFailed`). Of two uploads that take turns, one was over when the
other looked (`InTurn`), which `ReuseIsExplained` then forbids.

### Accounts and credentials

`Access_proofs.tla`, under `AccessAssumption`: what clients ask for is in the
vocabulary, ids are distinct, and a JWT lives for more than no time. The last is
needed only for the refinement: with a lifetime of zero the admin's first JWT would
be expired before it was issued.

| Theorem | States |
|---|---|
| `TypeCorrect` | `[]TypeOK` |
| `NamesHaveOneOwner` | one of the requests that race for a name is told 201, and owns it |
| `GrantsReachLogins` | an answered grant is in the JWT of every later login that was not cut short |
| `ServedByRight` | who is served had the permission, or an unexpired key for the bucket |
| `DeletedKeysOpenNothing` | a key whose deletion was answered lets nobody in |
| `ReadsAreCurrent` | listings show the changes answered before they were asked |
| `CredentialsAreCapabilities` | `Spec => ImplementsCapability` |

The argument. An answer is final (`AnsweredKept`) and, if it is a success, its row
is in the tables (`Effects`); what a request knew to be answered when it arrived is
therefore in every table it reads later (`BeforeOver`), each of which it reads in
one statement. Ids of JWTs and keys are made in the step that answers their request
(`Makers`), so a deleted key's id cannot come back and a JWT's claims cannot change;
permissions are never taken away (`PermsReal`). What let a request in stays in its
memory or among the JWTs (`ByRightOfToken`, `ByRightOfKey`).

### The client

`Client_proofs.tla`, under the assumptions of `Client`: base names are keys, the
marks for "no file", "empty", "torn" and "from the flag" differ from each other and
are neither commands nor files. Commands, files, keys and faults are arbitrary.

| Theorem | States |
|---|---|
| `TypeCorrect` | `[]TypeOK` |
| `SessionAlwaysIntact` | which logins leave an empty or garbled token file |
| `LoginAlwaysLasts` | a successful login's token stays until a later or overlapping login or logout |
| `AnsweredEffectsAlwaysLast` | what a command reported done is undone only by one that was not over before it, or by a late request |
| `DownloadAlwaysWhole` | a refused download harms nothing, a successful one has written what was sent or was not alone |
| `TornAlwaysExplained` | nothing is torn but behind a download that was cut short or not alone |

The argument. For the token file it is followed who has it open (`linked`): all of
them are logins that were answered (`LinkedLogins`), a token in it is that of a
login that is done and that was not over before any of the others began
(`TokenOfWriter`), an empty one is waiting for a login or was left by one
(`EmptyExplained`), a garbled one was left by one or had two writers (`TornToken`),
and a login that finds the file written or gone was not alone (`WrittenMeanwhile`,
`UnlinkedMeanwhile`). `LoginLasts` is inductive with these. What the server did
stays on record (`TookIsServed`, and `EffectsLast`, which is `AnsweredEffectsLast` from
the answer on); whoever overwrites it later was not over when the command began,
because what is over takes no step (`OverForGood`) unless its request is still on the
way. Torn data has one source, two writers or a cut download, and every copy of
it, in a request, on the server or on disk, comes after that (`MixedOverlap`, `TornData`).

### Only model-checked

Liveness, which needs `ENABLED` and is beyond the prover: `ReplacedBlobRemoved`,
`BrokenRowGoes`, `TokenEventuallyGone`, `AdminReadyInTheEnd` (but for its safety
half) and `EveryServerComesUp`. Every invariant and every action property of a
passing run is proved. The runs that end in a violation are TLC's alone: a
counterexample needs no proof.

## 5. Where the code and its documents differ

| Run | Document | Code |
|---|---|---|
| `ObjectStore_crash` | `Phase1_task_breakdown.md:23-28`: after a restart the "File still downloads" | `object_service.go:180-187`: a crash between removing the file and deleting the row leaves a row that answers 500 and that no later delete can remove (the file is missing, so the delete fails first); only a new upload of the key repairs it |
| `SignedURL_once` | `signed_urls_plan.md:8`: "One-time use" | `object_access.go:105-136`: overlapping uploads both pass `Validate` before either deletes the row |
| `Startup_crash` | `Phase 2_task_breakdown.md:392-394`: if there is no user, create the admin | `seed.go:79-83`: a role left by an interrupted seeding ends every later one |
| `Startup_upgrade` | `Phase 2_task_breakdown.md:525`: "Admin role has all permissions" | `seed.go:36-45`: permissions that a release adds reach the table, not the role |

Not a disagreement, but worth knowing: `./data/blobs` is not made at start, so a
fresh deployment answers 503 to `/health/ready` until an upload has got as far as its
directory (`ReadyOnlyAfterUpload`) or an operator has made it by hand; a router that waits for 200 never sends it one. And when
`ADMIN_EMAIL` is changed, the new address gets no account: seeding ends at the role
that exists (`OneSeeder`). A blank `ADMIN_EMAIL`, or an `ADMIN_PASSWORD` of more than 72
bytes, at the very first start leaves the database without an admin for good, and the
log line is all that says so (`OrphanedRoleIsFinal`).

## 6. Not modelled

* Malformed requests are one action (`Malformed`), answered 400; a new user without an
  address or a password is refused with 409, as a taken address is, and that answer is
  one of `FindEmail`'s. None of them changes anything.
* Blob directories that an operator makes; `FirstUpload` is `Save` alone.
* `POST .../sign` behind a download token: the request that mints a token is the
  action `Sign`, its answer one of `Handle`'s. The key that the middleware takes from
  the decoded path and the one that chi hands to the handler are one key (`Carried`).
* API keys without an expiry: a lifetime beyond `MaxTime` is one.
* Password hashing, signatures, key derivation: a credential is right or wrong.
* Code nobody calls: `HandleUpload` and `HandleDownload` of the signed-URL
  handler, `BucketScope`, `Create` and `DeleteByKey` of the objects repository,
  `UpdateLastUsed`, three look-ups of the roles repository.
* `/health` and `/health/live`, which answer the same always; the body of
  `/health/ready`.
* The lines that the object service and handler write to `AppLogger`, and all other
  log lines; a change of `JWT_SECRET` between
  starts, which only ends sessions early.
* Local file systems below `close` on the client's side, and URLs: the key that a
  path uploads to is `Base`, whatever its characters make of the URL.
* Output and formatting of the client's commands.

## 7. Plan

Written so far, in this order: `VersionedStore` and `ObjectStore` with their
proofs; `SignedURL`; `Startup`; `Access`; then `Client`, `Durability`,
`Capability` with its two implementations, and the configuration and readiness
of `Startup`; then the proofs of `Startup`, `SignedURL` and `Access`; then those of
`Durability` and `Client`, and what holds of the admin account, of stored objects,
of orphans and of signed URLs without faults.

Next:

1. What the abstract specifications promise by themselves, as theorems about
   `VersionedStore` and `Capability`, and the same of the modules that implement
   them, through the refinement.
2. The safety half of the liveness properties that have one, as action properties:
   a token that was consumed stays gone, a broken row leaves only for a whole one.
3. Weaker conditions for `NothingLeaksBehindOneWriter`: which single faults keep it.
