--------------------------------- MODULE Client ---------------------------------
(***************************************************************************)
(* oortctl: commands that share a token file, a working directory and a     *)
(* server.  Each command is an operating system process that runs once and  *)
(* sends at most one request, without a timeout and without a retry.  The   *)
(* server answers a request in one step, as VersionedStore says it may, and *)
(* it may refuse any: whom it lets in is the matter of Access.  A JWT is    *)
(* named by the login that was given it, the bytes of a local file by the   *)
(* file they were in at first.                                              *)
(***************************************************************************)

CONSTANTS
    Commands,   \* runs of oortctl
    Files,      \* local paths
    Keys,       \* object keys of the one bucket
    Base,       \* filepath.Base of each path, which is the key it uploads to
    Asks,       \* the sub-commands that users run
    Flag,       \* the credential of --api-key
    NoFile,     \* there is no file, no object
    Empty,      \* a file that was truncated and not yet written
    Torn,       \* a part of some content, or parts of several
    Faults      \* a subset of FaultKinds

\* net: a request or its answer is lost    disk: a local read or write fails
\* kill: a command is killed
\* server: a request takes effect and is refused, or the body sent is cut short
FaultKinds == {"net", "disk", "kill", "server"}

ObjectOps == {"upload", "download", "delete", "ls", "sign"}
BucketOps == {"create", "buckets"}
SessionOps == {"login", "logout"}

ASSUME ClientAssumption ==
    /\ Faults \subseteq FaultKinds
    /\ Base \in [Files -> Keys]
    /\ Asks \subseteq ObjectOps \cup BucketOps \cup SessionOps

\* What stands for no content, or for a broken one, is no content, and the
\* credential of --api-key is no token
ASSUME ContentAssumption ==
    /\ {NoFile, Empty, Torn, Flag} \cap (Commands \cup Files) = {}
    /\ NoFile # Empty /\ NoFile # Torn /\ Empty # Torn
    /\ Flag \notin {NoFile, Empty, Torn}

VARIABLES
    tokenFile,  \* ~/.oort/token
    linked,     \* logins whose open token file is still the one at that path
    local,      \* the content of the local files
    stored,     \* what the server has under each key of the bucket
    asked,      \* the command line of each command
    pc,         \* where each command is, or how it ended
    cred,       \* the credential of a request that is yet to be answered
    data,       \* what an upload read, what a download is sent
    wire,       \* its request: unsent, sent, or answered with ok or refused
    mixed,      \* downloads that wrote a file while another was writing it
    overBefore, \* history: the commands that were over when it started
    took        \* history: the commands whose request, or whose removal of the
                \* token, took effect

vars == <<tokenFile, linked, local, stored, asked, pc, cred, data,
          wire, mixed, overBefore, took>>
server == <<stored, took>>
disk == <<tokenFile, linked, local, mixed>>
given == <<asked, cred, overBefore>>

Ends == {"ok", "failed"}
Steps == {"New", "OpenFile", "ReadBody", "Send", "Await", "CreateOutput",
          "CopyBody", "DeleteToken", "TruncateToken", "WriteToken"}
NoLine == [op |-> "none", file |-> NoFile, key |-> NoFile]
Content == Files \cup {NoFile, Torn}
Tokens == Commands \cup {NoFile, Empty, Torn}

CommandLine == [op : ObjectOps \cup BucketOps \cup SessionOps \cup {"none"},
                file : Files \cup {NoFile}, key : Keys \cup {NoFile}]

\* mutant: an upload is stored under the path it was given
CommandLinesByPath ==
    {[op |-> "upload", file |-> f, key |-> f] : f \in Files}

\* The sub-commands and their arguments
CommandLines ==
    {[op |-> op, file |-> NoFile, key |-> NoFile] :
        op \in BucketOps \cup SessionOps \cup {"ls"}}
    \cup {[op |-> "upload", file |-> f, key |-> Base[f]] : f \in Files}
    \* --output, or the base name of the key
    \cup {[op |-> "download", file |-> f, key |-> k] : f \in Files, k \in Keys}
    \cup {[op |-> op, file |-> NoFile, key |-> k] :
             op \in {"delete", "sign"}, k \in Keys}

TypeOK ==
    /\ tokenFile \in Tokens
    /\ linked \subseteq Commands
    /\ local \in [Files -> Content]
    /\ stored \in [Keys -> Content]
    /\ asked \in [Commands -> CommandLine]
    /\ pc \in [Commands -> Steps \cup Ends]
    /\ cred \in [Commands -> Tokens \cup {Flag}]
    /\ data \in [Commands -> Content]
    /\ wire \in [Commands -> {"unsent", "sent", "ok", "refused"}]
    /\ mixed \subseteq Commands
    /\ overBefore \in [Commands -> SUBSET Commands]
    /\ took \subseteq Commands

Init ==
    /\ tokenFile = NoFile /\ linked = {} /\ mixed = {} /\ took = {}
    /\ \E there \in SUBSET Files :
          local = [f \in Files |-> IF f \in there THEN f ELSE NoFile]
    /\ stored = [k \in Keys |-> NoFile]
    /\ asked = [c \in Commands |-> NoLine]
    /\ pc = [c \in Commands |-> "New"]
    /\ cred = [c \in Commands |-> NoFile]
    /\ data = [c \in Commands |-> NoFile]
    /\ wire = [c \in Commands |-> "unsent"]
    /\ overBefore = [c \in Commands |-> {}]

Goto(c, step) == pc' = [pc EXCEPT ![c] = step]
MayFail(fault) == fault \in Faults
Op(c) == asked[c].op
File(c) == asked[c].file
Key(c) == asked[c].key
Over == {c \in Commands : pc[c] \in Ends}

-----------------------------------------------------------------------------
(* The command line, the credential, and the body of an upload.             *)

\* makeClient: --api-key, or else what the token file holds; a file that cannot
\* be read is no credential, and the login sends none
Credentials(op) ==
    IF op \in SessionOps THEN {NoFile} ELSE {Flag, tokenFile}

FirstStep(op) ==
    CASE op = "upload" -> "OpenFile"
      [] op = "logout" -> "DeleteToken"
      [] OTHER -> "Send"

Start(c) ==
    /\ pc[c] = "New"
    /\ \E line \in CommandLines : \E key \in Credentials(line.op) :
          /\ line.op \in Asks
          /\ asked' = [asked EXCEPT ![c] = line]
          /\ cred' = [cred EXCEPT ![c] = key]
          /\ Goto(c, FirstStep(line.op))
    /\ overBefore' = [overBefore EXCEPT ![c] = Over]
    /\ UNCHANGED <<disk, server, data, wire>>

\* "operation must be 'upload' or 'download'", before anything is done
RejectSign(c) ==
    /\ pc[c] = "Send"
    /\ Op(c) = "sign"
    /\ Goto(c, "failed")
    /\ UNCHANGED <<disk, server, given, data, wire>>

OpenFile(c) ==
    /\ pc[c] = "OpenFile"
    /\ \/ local[File(c)] # NoFile /\ Goto(c, "ReadBody")
       \/ (local[File(c)] = NoFile \/ MayFail("disk")) /\ Goto(c, "failed")
    /\ data' = [data EXCEPT ![c] = local[File(c)]]
    /\ UNCHANGED <<disk, server, given, wire>>

\* mutant: the error of the read is ignored
ReadBodyAnyway(c) ==
    /\ pc[c] = "ReadBody"
    /\ Goto(c, "Send")
    /\ \/ UNCHANGED data
       \/ MayFail("disk") /\ data' = [data EXCEPT ![c] = Torn]
    /\ UNCHANGED <<disk, server, given, wire>>

\* io.Copy into the form, all of it before the request is made.  data[c] is
\* Torn if the file was written since it was opened: then the copy has that,
\* or what the file holds now.
ReadBody(c) ==
    /\ pc[c] = "ReadBody"
    /\ \/ /\ \E content \in {data[c], local[File(c)]} :
                data' = [data EXCEPT ![c] = content]
          /\ Goto(c, "Send")
       \/ MayFail("disk") /\ Goto(c, "failed") /\ UNCHANGED data
    /\ UNCHANGED <<disk, server, given, wire>>

-----------------------------------------------------------------------------
(* The request and its answer.                                              *)

Send(c) ==
    /\ pc[c] = "Send"
    /\ \/ wire' = [wire EXCEPT ![c] = "sent"] /\ Goto(c, "Await")
       \/ MayFail("net") /\ Goto(c, "failed") /\ UNCHANGED wire
    /\ UNCHANGED <<disk, server, given, data>>

\* An empty token is no header and a torn one no JWT; keys open objects only
Believable(c) ==
    \/ Op(c) = "login"
    \/ cred[c] \in Commands
    \/ cred[c] = Flag /\ Op(c) \in ObjectOps

\* What the server does for a request that it lets in
Perform(c) ==
    \/ Op(c) \notin {"upload", "download", "delete"} /\ UNCHANGED <<stored, data>>
    \/ /\ Op(c) = "upload"
       /\ stored' = [stored EXCEPT ![Key(c)] = data[c]]
       /\ UNCHANGED data
    \/ /\ Op(c) = "download" /\ stored[Key(c)] # NoFile
       /\ data' = [data EXCEPT ![c] = stored[Key(c)]]
       /\ UNCHANGED stored
    \/ /\ Op(c) = "delete" /\ stored[Key(c)] # NoFile
       /\ stored' = [stored EXCEPT ![Key(c)] = NoFile]
       /\ UNCHANGED data

\* A request on its way is served whether or not its command still waits
Serve(c) ==
    /\ wire[c] = "sent"
    /\ \/ /\ Believable(c) /\ Perform(c)
          /\ \/ wire' = [wire EXCEPT ![c] = "ok"]
             \/ MayFail("server") /\ wire' = [wire EXCEPT ![c] = "refused"]
          /\ took' = took \cup {c}
       \/ /\ wire' = [wire EXCEPT ![c] = "refused"]
          /\ UNCHANGED <<stored, took, data>>
    /\ cred' = [cred EXCEPT ![c] = NoFile]
    /\ UNCHANGED <<disk, asked, overBefore, pc>>

\* http.Client.Do fails
LoseAnswer(c) ==
    /\ MayFail("net")
    /\ pc[c] = "Await"
    /\ Goto(c, "failed")
    /\ UNCHANGED <<disk, server, given, data, wire>>

\* mutant: the status is not looked at
AnswerUnread(c, next) == wire[c] \in {"ok", "refused"} /\ Goto(c, next)

\* getJSON, postJSON and UploadObject: a status below 400, then a body that
\* can be decoded
AnswerJSON(c, next) ==
    \/ wire[c] = "ok" /\ Goto(c, next)
    \/ wire[c] = "refused" /\ Goto(c, "failed")
    \/ wire[c] = "ok" /\ MayFail("net") /\ Goto(c, "failed")

\* deleteReq and DownloadObject: the status alone
AnswerStatus(c, next) ==
    \/ wire[c] = "ok" /\ Goto(c, next)
    \/ wire[c] = "refused" /\ Goto(c, "failed")

Receive(c) ==
    /\ pc[c] = "Await"
    /\ CASE Op(c) = "login" -> AnswerJSON(c, "TruncateToken")
         [] Op(c) = "download" -> AnswerStatus(c, "CreateOutput")
         [] Op(c) = "delete" -> AnswerStatus(c, "ok")
         [] OTHER -> AnswerJSON(c, "ok")
    /\ UNCHANGED <<disk, server, given, data, wire>>

-----------------------------------------------------------------------------
(* The output of a download.                                                *)

Writers(f) == {c \in Commands : pc[c] = "CopyBody" /\ File(c) = f}

\* What the uploads hold that are reading f while it is written
Disturbed(f) ==
    [c \in Commands |-> IF pc[c] = "ReadBody" /\ File(c) = f THEN Torn ELSE data[c]]

\* os.Create truncates the file
CreateOutput(c) ==
    LET f == File(c) IN
    /\ pc[c] = "CreateOutput"
    /\ \/ /\ local' = [local EXCEPT ![f] = Torn]
          /\ data' = Disturbed(f)
          /\ mixed' = IF Writers(f) = {} THEN mixed
                      ELSE mixed \cup Writers(f) \cup {c}
          /\ Goto(c, "CopyBody")
       \/ MayFail("disk") /\ Goto(c, "failed") /\ UNCHANGED <<local, data, mixed>>
    /\ UNCHANGED <<tokenFile, linked, server, given, wire>>

\* mutant: the error of the copy is ignored
CopyBodyUnchecked(c) ==
    LET f == File(c) IN
    /\ pc[c] = "CopyBody"
    /\ \E content \in {data[c], Torn} : local' = [local EXCEPT ![f] = content]
    /\ data' = Disturbed(f)
    /\ Goto(c, "ok")
    /\ UNCHANGED <<tokenFile, linked, mixed, server, given, wire>>

\* io.Copy; a body shorter than its Content-Length is an error, be it the network's
\* doing or the server's, which ends a body it cannot read
CopyBody(c) ==
    LET f == File(c) IN
    /\ pc[c] = "CopyBody"
    /\ \E content \in {data[c], Torn} :
          /\ local' = [local EXCEPT ![f] = content]
          /\ \/ (content = data[c] \/ c \in mixed) /\ Goto(c, "ok")
             \/ content = Torn /\ Faults \cap {"net", "disk", "server"} # {} /\ Goto(c, "failed")
    /\ data' = Disturbed(f)
    /\ UNCHANGED <<tokenFile, linked, mixed, server, given, wire>>

-----------------------------------------------------------------------------
(* The token file.                                                          *)

\* mutant: a token that is there is kept
TruncateTokenUnlessThere(c) ==
    /\ pc[c] = "TruncateToken"
    /\ \/ /\ tokenFile = NoFile
          /\ tokenFile' = Empty
          /\ linked' = linked \cup {c}
          /\ Goto(c, "WriteToken")
       \/ tokenFile # NoFile /\ Goto(c, "ok") /\ UNCHANGED <<tokenFile, linked>>
    /\ UNCHANGED <<local, mixed, server, given, data, wire>>

\* os.WriteFile, first half: create or truncate
TruncateToken(c) ==
    /\ pc[c] = "TruncateToken"
    /\ \/ tokenFile' = Empty /\ linked' = linked \cup {c} /\ Goto(c, "WriteToken")
       \/ MayFail("disk") /\ Goto(c, "failed") /\ UNCHANGED <<tokenFile, linked>>
    /\ UNCHANGED <<local, mixed, server, given, data, wire>>

\* Second half: the token, over what another login wrote meanwhile; a file that
\* was removed since it was opened is written in vain
WriteToken(c) ==
    /\ pc[c] = "WriteToken"
    /\ \/ /\ Goto(c, "ok")
          /\ IF c \notin linked THEN UNCHANGED tokenFile
             ELSE \/ tokenFile' = c
                  \/ tokenFile # Empty /\ tokenFile' = Torn
       \/ /\ MayFail("disk")
          /\ Goto(c, "failed")
          /\ tokenFile' = IF c \in linked THEN Torn ELSE tokenFile
    /\ UNCHANGED <<linked, local, mixed, server, given, data, wire>>

\* os.Remove, which fails if there is no file; the command may be killed between
\* the removal and its end
DeleteToken(c) ==
    /\ pc[c] = "DeleteToken"
    /\ \/ /\ tokenFile # NoFile
          /\ tokenFile' = NoFile
          /\ linked' = {}
          /\ took' = took \cup {c}
          /\ Goto(c, "ok") \/ (MayFail("kill") /\ Goto(c, "failed"))
       \/ /\ tokenFile = NoFile \/ MayFail("disk")
          /\ Goto(c, "failed")
          /\ UNCHANGED <<tokenFile, linked, took>>
    /\ UNCHANGED <<local, mixed, stored, given, data, wire>>

-----------------------------------------------------------------------------
\* The user interrupts a command; its request stays on its way
Kill(c) ==
    /\ MayFail("kill")
    /\ pc[c] \notin Ends \cup {"New"}
    /\ Goto(c, "failed")
    /\ UNCHANGED <<disk, server, given, data, wire>>

Step(c) ==
    \/ Start(c) \/ RejectSign(c) \/ OpenFile(c) \/ ReadBody(c)
    \/ Send(c) \/ Serve(c) \/ LoseAnswer(c) \/ Receive(c)
    \/ CreateOutput(c) \/ CopyBody(c)
    \/ TruncateToken(c) \/ WriteToken(c) \/ DeleteToken(c)

Next == \E c \in Commands : Step(c) \/ Kill(c)

Spec == Init /\ [][Next]_vars

-----------------------------------------------------------------------------
(* Properties.                                                              *)

Overlap(c, d) == c # d /\ c \notin overBefore[d] /\ d \notin overBefore[c]
LetIn(op) == {c \in Commands : Op(c) = op /\ wire[c] = "ok"}

\* The token file is empty or garbled only behind a login that the server
\* answered: one that is writing it, that failed or was killed there, or that
\* overlapped another.  A login that is refused leaves the session alone.
SessionIntact ==
    tokenFile \in {Empty, Torn} =>
        \E c \in LetIn("login") :
            \/ pc[c] \in {"WriteToken", "failed"}
            \/ \E d \in LetIn("login") : Overlap(c, d)

\* After a login that reported success the file has its token, until another
\* login that was answered or a logout that removed the file, whether or not it
\* lived to say so; neither was over when it began.
LoginLasts ==
    \A c \in LetIn("login") : pc[c] = "ok" =>
        \/ tokenFile = c
        \/ \E d \in Commands \ {c} :
              /\ d \notin overBefore[c]
              /\ d \in LetIn("login") \/ (Op(d) = "logout" /\ d \in took)

\* An upload or a delete that reported success is undone only by a command on
\* its key that was not over when it began, or by the request of one that had
\* been killed or had failed, which the server may serve at any later time.
AnsweredEffectsLast ==
    \A c \in Commands : pc[c] = "ok" /\ Op(c) \in {"upload", "delete"} =>
        \/ stored[Key(c)] = (IF Op(c) = "upload" THEN data[c] ELSE NoFile)
        \/ \E d \in took \ {c} :
              /\ Op(d) \in {"upload", "delete"} /\ Key(d) = Key(c)
              /\ d \notin overBefore[c] \/ pc[d] # "ok"

\* A local file loses its content only to a download that the server answered
\* with 200: a refused one leaves the file alone.  One that reported success has
\* written just what the server sent, unless another download to that file was
\* not over when it began.
DownloadWhole ==
    /\ \A f \in Files : local[f] \notin {f, NoFile} =>
          \E d \in LetIn("download") : File(d) = f
    /\ \A c \in Commands : pc[c] = "ok" /\ Op(c) = "download" =>
          \/ local[File(c)] = data[c]
          \/ \E d \in LetIn("download") \ {c} :
                File(d) = File(c) /\ d \notin overBefore[c]

\* No object and no local file is a part or a mixture of contents, but for a
\* download that was cut short (no clean-up follows) or that overlapped another
\* command on its file; an upload may then carry that to the server.
TornExplained ==
    (\E k \in Keys : stored[k] = Torn) \/ (\E f \in Files : local[f] = Torn) =>
        \E d \in LetIn("download") :
            \/ pc[d] # "ok"
            \/ \E c \in Commands : File(c) = File(d) /\ Overlap(c, d)
=============================================================================
