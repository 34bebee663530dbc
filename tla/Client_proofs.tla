------------------------------ MODULE Client_proofs ------------------------------
(***************************************************************************)
(* Proofs about Client, for any number of commands, files and keys, any set *)
(* of sub-commands and any set of faults.                                   *)
(***************************************************************************)
EXTENDS Client, TLAPS

-----------------------------------------------------------------------------
(* The inductive invariant.  First, where a command can be.                 *)

\* A command that has not begun has left no trace
Unstarted ==
    \A c \in Commands : pc[c] = "New" =>
        asked[c] = NoLine /\ wire[c] = "unsent" /\ overBefore[c] = {}

Started == \A c \in Commands : pc[c] # "New" => asked[c] \in CommandLines

\* Each step belongs to the sub-commands that take it, and comes before or
\* after the answer of the server
StepsOfOps ==
    \A c \in Commands :
        /\ pc[c] \in {"OpenFile", "ReadBody"} => Op(c) = "upload"
        /\ pc[c] \in {"OpenFile", "ReadBody", "Send", "DeleteToken"} =>
              wire[c] = "unsent"
        /\ pc[c] = "Await" => wire[c] # "unsent"
        /\ pc[c] \in {"CreateOutput", "CopyBody"} =>
              Op(c) = "download" /\ wire[c] = "ok"
        /\ pc[c] \in {"TruncateToken", "WriteToken"} =>
              Op(c) = "login" /\ wire[c] = "ok"
        /\ pc[c] = "DeleteToken" <=> (pc[c] \notin Ends /\ Op(c) = "logout")
        /\ pc[c] = "ok" => wire[c] = "ok" \/ Op(c) = "logout"

\* What was over when a command began is over, and the command was not
OverForGood == \A c \in Commands : overBefore[c] \subseteq Over \ {c}

Control == Unstarted /\ Started /\ StepsOfOps /\ OverForGood

(* The token file.                                                          *)

\* The logins that have the file open were answered, and are past its creation
LinkedLogins ==
    \A c \in linked :
        c \in LetIn("login") /\ pc[c] \in {"WriteToken", "ok", "failed"}

FileOfLinked == tokenFile = NoFile <=> linked = {}

\* A token is there since its login wrote it, which no login that has opened
\* the file since can have come after
TokenOfWriter ==
    tokenFile \in Commands =>
        /\ tokenFile \in linked
        /\ pc[tokenFile] = "ok"
        /\ \A c \in linked : tokenFile \notin overBefore[c]

EmptyExplained ==
    tokenFile = Empty => \E c \in linked : pc[c] \in {"WriteToken", "failed"}

TornToken ==
    tokenFile = Torn =>
        \E c \in linked : pc[c] = "failed" \/ \E d \in linked : Overlap(c, d)

\* A login that has opened the file and finds it written was not alone
WrittenMeanwhile ==
    \A c \in linked : pc[c] = "WriteToken" /\ tokenFile # Empty =>
        \E d \in linked \ {c} : d \notin overBefore[c]

\* A login that was answered finds its file gone only after a logout
UnlinkedMeanwhile ==
    \A c \in Commands \ linked : pc[c] = "WriteToken" =>
        \E d \in Commands :
            Op(d) = "logout" /\ d \in took /\ d \notin overBefore[c]

Session ==
    /\ LinkedLogins /\ FileOfLinked /\ TokenOfWriter
    /\ EmptyExplained /\ TornToken
    /\ WrittenMeanwhile /\ UnlinkedMeanwhile /\ LoginLasts

(* The server, and the local files.                                         *)

TookIsServed ==
    \A c \in Commands :
        /\ c \in took => wire[c] \in {"ok", "refused"} \/ Op(c) = "logout"
        /\ wire[c] = "ok" => c \in took

\* AnsweredEffectsLast, from the moment the server has answered
EffectsLast ==
    \A c \in Commands : wire[c] = "ok" /\ Op(c) \in {"upload", "delete"} =>
        \/ stored[Key(c)] = (IF Op(c) = "upload" THEN data[c] ELSE NoFile)
        \/ \E d \in took \ {c} :
              /\ Op(d) \in {"upload", "delete"} /\ Key(d) = Key(c)
              /\ d \notin overBefore[c] \/ pc[d] # "ok"

\* Two writers of one file
MixedOverlap ==
    \A c \in mixed : \E d \in LetIn("download") \ {c} :
        File(d) = File(c) /\ Overlap(c, d)

\* A download was cut short, or overlapped another command on its file
TearOnRecord ==
    \E d \in LetIn("download") :
        \/ pc[d] = "failed"
        \/ \E c \in Commands : File(c) = File(d) /\ Overlap(c, d)

TornData ==
    /\ \A k \in Keys : stored[k] = Torn => TearOnRecord
    /\ \A c \in Commands : data[c] = Torn => TearOnRecord
    /\ \A f \in Files : local[f] = Torn => TearOnRecord \/ Writers(f) # {}

IInv ==
    /\ TypeOK /\ Control
    /\ Session
    /\ TookIsServed /\ EffectsLast
    /\ MixedOverlap /\ DownloadWhole /\ TornData

-----------------------------------------------------------------------------
(* Type correctness.                                                        *)

\* A command line names a local file and a key where the code reads one
LEMMA LineType ==
    ASSUME NEW line \in CommandLines
    PROVE  /\ line \in CommandLine /\ line # NoLine
           /\ line.op \in ObjectOps \cup BucketOps \cup SessionOps
           /\ line.op \in {"upload", "download"} => line.file \in Files
           /\ line.op \notin {"upload", "download"} => line.file = NoFile
           /\ line.op \in {"upload", "download", "delete"} => line.key \in Keys
<1> USE DEF CommandLine, NoLine, ObjectOps, BucketOps, SessionOps
<1>1. CASE line \in {[op |-> op, file |-> NoFile, key |-> NoFile] :
                       op \in BucketOps \cup SessionOps \cup {"ls"}}
  BY <1>1
<1>2. CASE line \in {[op |-> "upload", file |-> f, key |-> Base[f]] : f \in Files}
  BY <1>2, ClientAssumption
<1>3. CASE line \in {[op |-> "download", file |-> f, key |-> k] :
                       f \in Files, k \in Keys}
  BY <1>3
<1>4. CASE line \in {[op |-> op, file |-> NoFile, key |-> k] :
                       op \in {"delete", "sign"}, k \in Keys}
  BY <1>4
<1> QED BY <1>1, <1>2, <1>3, <1>4 DEF CommandLines

LEMMA TypeInit == Init => TypeOK
BY DEF Init, TypeOK, Tokens, Content, CommandLine, NoLine, Steps, Ends

\* The content that an upload or a download may hold
LEMMA DisturbedType ==
    ASSUME TypeOK, NEW f
    PROVE  Disturbed(f) \in [Commands -> Content]
BY DEF TypeOK, Disturbed, Content

LEMMA TypeStep ==
    ASSUME TypeOK, Control, [Next]_vars
    PROVE  TypeOK'
<1> USE DEF TypeOK, Goto, Steps, Ends, disk, server, given, Op, File, Key
<1>1. ASSUME NEW c \in Commands, Step(c) PROVE TypeOK'
  <2>1. CASE Start(c)
    <3>0. PICK line \in CommandLines : \E key \in Credentials(line.op) :
              /\ asked' = [asked EXCEPT ![c] = line]
              /\ cred' = [cred EXCEPT ![c] = key]
              /\ Goto(c, FirstStep(line.op))
      BY <2>1 DEF Start
    <3>1. PICK key \in Credentials(line.op) :
              /\ asked' = [asked EXCEPT ![c] = line]
              /\ cred' = [cred EXCEPT ![c] = key]
              /\ Goto(c, FirstStep(line.op))
      BY <3>0
    <3>2. key \in Tokens \cup {Flag}
      BY DEF Credentials, Tokens
    <3>3. FirstStep(line.op) \in Steps
      BY DEF FirstStep
    <3>4. asked' \in [Commands -> CommandLine]
      BY <3>1, LineType
    <3>5. overBefore' \in [Commands -> SUBSET Commands]
      BY <2>1 DEF Start, Over
    <3> QED BY <2>1, <3>1, <3>2, <3>3, <3>4, <3>5 DEF Start
  <2>2. CASE RejectSign(c)
    BY <2>2 DEF RejectSign
  <2>3. CASE OpenFile(c)
    <3>1. File(c) \in Files
      BY <2>3, LineType DEF OpenFile, Control, Started, StepsOfOps
    <3> QED BY <2>3, <3>1 DEF OpenFile
  <2>4. CASE ReadBody(c)
    <3>1. File(c) \in Files
      BY <2>4, LineType DEF ReadBody, Control, Started, StepsOfOps
    <3> QED BY <2>4, <3>1 DEF ReadBody
  <2>5. CASE Send(c)
    BY <2>5 DEF Send
  <2>6. CASE Serve(c)
    <3>1. Perform(c) => /\ stored' \in [Keys -> Content]
                        /\ data' \in [Commands -> Content]
      <4>1. Op(c) = "download" => Key(c) \in Keys
        BY <2>6, LineType DEF Serve, Control, Started, Unstarted
      <4> QED BY <4>1 DEF Perform, Content
    <3> QED BY <2>6, <3>1 DEF Serve, Tokens
  <2>7. CASE LoseAnswer(c)
    BY <2>7 DEF LoseAnswer
  <2>8. CASE Receive(c)
    BY <2>8 DEF Receive, AnswerJSON, AnswerStatus
  <2>9. CASE CreateOutput(c)
    BY <2>9, DisturbedType DEF CreateOutput, Writers, Content
  <2>10. CASE CopyBody(c)
    <3>1. local' \in [Files -> Content]
      BY <2>10 DEF CopyBody, Content
    <3>2. data' \in [Commands -> Content]
      BY <2>10, DisturbedType DEF CopyBody
    <3> QED BY <2>10, <3>1, <3>2 DEF CopyBody
  <2>11. CASE TruncateToken(c)
    BY <2>11 DEF TruncateToken, Tokens
  <2>12. CASE WriteToken(c)
    BY <2>12 DEF WriteToken, Tokens
  <2>13. CASE DeleteToken(c)
    BY <2>13 DEF DeleteToken, Tokens
  <2> QED BY <1>1, <2>1, <2>2, <2>3, <2>4, <2>5, <2>6, <2>7, <2>8, <2>9,
             <2>10, <2>11, <2>12, <2>13 DEF Step
<1>2. ASSUME NEW c \in Commands, Kill(c) PROVE TypeOK'
  BY <1>2 DEF Kill
<1>3. CASE UNCHANGED vars
  BY <1>3 DEF vars
<1> QED BY <1>1, <1>2, <1>3 DEF Next

-----------------------------------------------------------------------------
(* Where a command can be.                                                  *)

\* A step of one command moves no other
LEMMA OthersStay ==
    ASSUME TypeOK, NEW c \in Commands, Step(c) \/ Kill(c), NEW d \in Commands, d # c
    PROVE  /\ pc'[d] = pc[d] /\ asked'[d] = asked[d] /\ wire'[d] = wire[d]
           /\ overBefore'[d] = overBefore[d]
<1> USE DEF TypeOK, Goto, disk, server, given
<1>1. CASE Step(c)
  <2>1. CASE Start(c) \/ RejectSign(c) \/ OpenFile(c) \/ ReadBody(c)
    BY <2>1 DEF Start, RejectSign, OpenFile, ReadBody
  <2>2. CASE Send(c) \/ Serve(c) \/ LoseAnswer(c) \/ Receive(c)
    BY <2>2 DEF Send, Serve, LoseAnswer, Receive, AnswerJSON, AnswerStatus
  <2>3. CASE CreateOutput(c) \/ CopyBody(c)
    BY <2>3 DEF CreateOutput, CopyBody
  <2>4. CASE TruncateToken(c) \/ WriteToken(c) \/ DeleteToken(c)
    BY <2>4 DEF TruncateToken, WriteToken, DeleteToken
  <2> QED BY <1>1, <2>1, <2>2, <2>3, <2>4 DEF Step
<1>2. CASE Kill(c)
  BY <1>2 DEF Kill
<1> QED BY <1>1, <1>2

\* The moves of a command
LEMMA Moves ==
    ASSUME TypeOK, Control, NEW c \in Commands, Step(c) \/ Kill(c)
    PROVE  \/ /\ pc[c] = "New" /\ asked'[c] \in CommandLines
              /\ pc'[c] = FirstStep(asked'[c].op)
              /\ overBefore'[c] = Over /\ wire'[c] = wire[c]
           \/ /\ pc[c] # "New" /\ asked'[c] = asked[c]
              /\ overBefore'[c] = overBefore[c]
              /\ \/ /\ <<pc[c], pc'[c]>> \in
                         {<<"OpenFile", "ReadBody">>, <<"ReadBody", "Send">>}
                    /\ wire'[c] = wire[c]
                 \/ /\ pc[c] = "Send" /\ pc'[c] = "Await" /\ wire'[c] = "sent"
                 \/ /\ pc'[c] = pc[c] /\ wire[c] = "sent"
                    /\ wire'[c] \in {"ok", "refused"}
                 \/ /\ pc[c] = "Await" /\ wire[c] = "ok" /\ wire'[c] = "ok"
                    /\ pc'[c] = (CASE Op(c) = "login" -> "TruncateToken"
                                   [] Op(c) = "download" -> "CreateOutput"
                                   [] OTHER -> "ok")
                 \/ /\ <<pc[c], pc'[c]>> \in
                         {<<"CreateOutput", "CopyBody">>, <<"CopyBody", "ok">>,
                          <<"TruncateToken", "WriteToken">>,
                          <<"WriteToken", "ok">>, <<"DeleteToken", "ok">>}
                    /\ wire'[c] = wire[c]
                 \/ /\ pc[c] \notin Ends /\ pc'[c] = "failed"
                    /\ wire'[c] = wire[c]
<1> USE DEF TypeOK, Goto, disk, server, given, Op, Ends
<1>1. CASE Step(c)
  <2>1. CASE Start(c)
    <3>0. PICK line \in CommandLines : \E key \in Credentials(line.op) :
              /\ asked' = [asked EXCEPT ![c] = line]
              /\ cred' = [cred EXCEPT ![c] = key]
              /\ Goto(c, FirstStep(line.op))
      BY <2>1 DEF Start
    <3>1. asked'[c] = line /\ pc'[c] = FirstStep(line.op)
      BY <3>0
    <3> QED BY <2>1, <3>1 DEF Start
  <2>2. CASE RejectSign(c)
    BY <2>2 DEF RejectSign
  <2>3. CASE OpenFile(c) \/ ReadBody(c)
    BY <2>3 DEF OpenFile, ReadBody
  <2>4. CASE Send(c) \/ LoseAnswer(c)
    BY <2>4 DEF Send, LoseAnswer
  <2>5. CASE Serve(c)
    BY <2>5 DEF Serve, Control, Unstarted
  <2>6. CASE Receive(c)
    BY <2>6 DEF Receive, AnswerJSON, AnswerStatus
  <2>7. CASE CreateOutput(c) \/ CopyBody(c)
    BY <2>7 DEF CreateOutput, CopyBody
  <2>8. CASE TruncateToken(c) \/ WriteToken(c) \/ DeleteToken(c)
    BY <2>8 DEF TruncateToken, WriteToken, DeleteToken
  <2> QED BY <1>1, <2>1, <2>2, <2>3, <2>4, <2>5, <2>6, <2>7, <2>8 DEF Step
<1>2. CASE Kill(c)
  BY <1>2 DEF Kill
<1> QED BY <1>1, <1>2

\* An end is the end, a command line is for life, an answer is final
LEMMA Lasting ==
    ASSUME TypeOK, Control, [Next]_vars, NEW d \in Commands
    PROVE  /\ pc[d] \in Ends => pc'[d] = pc[d]
           /\ pc[d] # "New" => /\ pc'[d] # "New" /\ asked'[d] = asked[d]
                               /\ overBefore'[d] = overBefore[d]
           /\ wire[d] \in {"ok", "refused"} => wire'[d] = wire[d]
           /\ \A c \in Commands : c \in overBefore'[d] =>
                 c \in overBefore[d] \/ (pc[d] = "New" /\ c \in Over)
<1>1. CASE Step(d) \/ Kill(d)
  BY <1>1, Moves DEF Ends, TypeOK, FirstStep, Control, StepsOfOps
<1>2. CASE \E c \in Commands \ {d} : Step(c) \/ Kill(c)
  BY <1>2, OthersStay
<1>3. CASE UNCHANGED vars
  BY <1>3 DEF vars
<1> QED BY <1>1, <1>2, <1>3 DEF Next

LEMMA ControlStep ==
    ASSUME TypeOK, Control, [Next]_vars
    PROVE  Control'
<1> USE DEF TypeOK
<1>1. ASSUME NEW d \in Commands
      PROVE  /\ pc'[d] = "New" => /\ asked'[d] = NoLine /\ wire'[d] = "unsent"
                                  /\ overBefore'[d] = {}
             /\ pc'[d] # "New" => asked'[d] \in CommandLines
  <2>1. CASE Step(d) \/ Kill(d)
    BY <2>1, Moves DEF Control, Unstarted, Started, Ends, FirstStep
  <2>2. CASE \E c \in Commands \ {d} : Step(c) \/ Kill(c)
    BY <2>2, OthersStay DEF Control, Unstarted, Started
  <2>3. CASE UNCHANGED vars
    BY <2>3 DEF vars, Control, Unstarted, Started
  <2> QED BY <2>1, <2>2, <2>3 DEF Next
<1>2. Unstarted' /\ Started'
  BY <1>1 DEF Unstarted, Started
<1>3. StepsOfOps'
  <2> SUFFICES ASSUME NEW d \in Commands
      PROVE  /\ pc'[d] \in {"OpenFile", "ReadBody"} => asked'[d].op = "upload"
             /\ pc'[d] \in {"OpenFile", "ReadBody", "Send", "DeleteToken"} =>
                   wire'[d] = "unsent"
             /\ pc'[d] = "Await" => wire'[d] # "unsent"
             /\ pc'[d] \in {"CreateOutput", "CopyBody"} =>
                   asked'[d].op = "download" /\ wire'[d] = "ok"
             /\ pc'[d] \in {"TruncateToken", "WriteToken"} =>
                   asked'[d].op = "login" /\ wire'[d] = "ok"
             /\ pc'[d] = "DeleteToken" <=>
                   (pc'[d] \notin Ends /\ asked'[d].op = "logout")
             /\ pc'[d] = "ok" => wire'[d] = "ok" \/ asked'[d].op = "logout"
    BY DEF StepsOfOps, Op
  <2>1. CASE Step(d) \/ Kill(d)
    BY <2>1, Moves DEF Control, Unstarted, StepsOfOps, Op, Ends, FirstStep
  <2>2. CASE \E c \in Commands \ {d} : Step(c) \/ Kill(c)
    BY <2>2, OthersStay DEF Control, StepsOfOps, Op
  <2>3. CASE UNCHANGED vars
    BY <2>3 DEF vars, Control, StepsOfOps, Op
  <2> QED BY <2>1, <2>2, <2>3 DEF Next
<1>4. OverForGood'
  <2> SUFFICES ASSUME NEW d \in Commands, NEW c \in overBefore'[d]
               PROVE  pc'[c] \in Ends /\ c # d
    BY TypeStep DEF OverForGood, Over
  <2>1. c \in Commands
    BY TypeStep
  <2>2. \/ c \in overBefore[d]
        \/ pc[d] = "New" /\ c \in Over
    BY <2>1, Lasting
  <2>3. pc[c] \in Ends /\ c # d
    BY <2>1, <2>2 DEF Control, OverForGood, Over, Ends
  <2> QED BY <2>1, <2>3, Lasting
<1> QED BY <1>2, <1>3, <1>4 DEF Control

-----------------------------------------------------------------------------
(* The token file.                                                          *)

\* A command that was let in stays so, and so does an overlap of two that began
LEMMA LetInStays ==
    ASSUME TypeOK, Control, [Next]_vars, NEW op, NEW c \in LetIn(op)
    PROVE  /\ c \in LetIn(op)' /\ pc[c] # "New" /\ pc'[c] # "New"
           /\ asked'[c] = asked[c] /\ overBefore'[c] = overBefore[c]
<1>1. c \in Commands /\ wire[c] = "ok" /\ pc[c] # "New"
  BY DEF LetIn, Control, Unstarted
<1> QED BY <1>1, Lasting DEF LetIn, Op

LEMMA OverlapStays ==
    ASSUME TypeOK, Control, [Next]_vars, NEW c \in Commands, NEW d \in Commands,
           pc[c] # "New", pc[d] # "New", Overlap(c, d)
    PROVE  Overlap(c, d)'
BY Lasting DEF Overlap

LEMMA TookGrows ==
    ASSUME [Next]_vars
    PROVE  took \subseteq took'
BY DEF Next, Step, Kill, vars, server, Start, RejectSign, OpenFile, ReadBody, Send,
   Serve, LoseAnswer, Receive, CreateOutput, CopyBody, TruncateToken, WriteToken,
   DeleteToken

\* A logout that removed the token has done so for good
LEMMA LogoutTook ==
    ASSUME TypeOK, Control, [Next]_vars, NEW d \in Commands, Op(d) = "logout",
           d \in took
    PROVE  asked'[d].op = "logout" /\ d \in took'
<1>1. pc[d] # "New"
  BY DEF Control, Unstarted, NoLine, Op
<1> QED BY <1>1, Lasting, TookGrows DEF Op

\* All that can happen to the token file in a step, and to the logins on it
LEMMA TokenSteps ==
    ASSUME TypeOK, Control, FileOfLinked, [Next]_vars
    PROVE  \/ /\ UNCHANGED <<tokenFile, linked>>
              /\ \A c \in Commands :
                    /\ pc'[c] = "WriteToken" => pc[c] = "WriteToken"
                    /\ pc[c] = "WriteToken" /\ c \in linked =>
                          pc'[c] \in {"WriteToken", "failed"}
                    /\ pc'[c] = "ok" /\ pc[c] # "ok" /\ asked'[c].op = "login" =>
                          pc[c] = "WriteToken" /\ c \notin linked
           \/ \E c \in Commands :
                 /\ pc[c] = "TruncateToken" /\ pc' = [pc EXCEPT ![c] = "WriteToken"]
                 /\ tokenFile' = Empty /\ linked' = linked \cup {c}
           \/ \E c \in linked :
                 /\ pc[c] = "WriteToken" /\ pc' = [pc EXCEPT ![c] = "ok"]
                 /\ \/ tokenFile' = c
                    \/ tokenFile # Empty /\ tokenFile' = Torn
                 /\ linked' = linked
           \/ \E c \in linked :
                 /\ pc[c] = "WriteToken" /\ pc' = [pc EXCEPT ![c] = "failed"]
                 /\ tokenFile' = Torn /\ linked' = linked
           \/ \E c \in Commands :
                 /\ pc[c] = "DeleteToken" /\ c \in took'
                 /\ \E end \in Ends : pc' = [pc EXCEPT ![c] = end]
                 /\ tokenFile' = NoFile /\ linked' = {}
<1> DEFINE Quiet ==
      /\ UNCHANGED <<tokenFile, linked>>
      /\ \A c \in Commands :
            /\ pc'[c] = "WriteToken" => pc[c] = "WriteToken"
            /\ pc[c] = "WriteToken" /\ c \in linked =>
                  pc'[c] \in {"WriteToken", "failed"}
            /\ pc'[c] = "ok" /\ pc[c] # "ok" /\ asked'[c].op = "login" =>
                  pc[c] = "WriteToken" /\ c \notin linked
<1> USE DEF TypeOK
<1>1. CASE UNCHANGED vars
  <2>1. Quiet
    BY <1>1 DEF vars
  <2> QED BY <2>1
<1>2. ASSUME NEW c \in Commands, TruncateToken(c), tokenFile' = Empty,
             linked' = linked \cup {c}, Goto(c, "WriteToken")
      PROVE  /\ pc[c] = "TruncateToken" /\ pc' = [pc EXCEPT ![c] = "WriteToken"]
             /\ tokenFile' = Empty /\ linked' = linked \cup {c}
  BY <1>2 DEF TruncateToken, Goto
<1>3. ASSUME NEW c \in linked, WriteToken(c)
      PROVE  \/ /\ pc[c] = "WriteToken" /\ pc' = [pc EXCEPT ![c] = "ok"]
                /\ \/ tokenFile' = c
                   \/ tokenFile # Empty /\ tokenFile' = Torn
                /\ linked' = linked
             \/ /\ pc[c] = "WriteToken" /\ pc' = [pc EXCEPT ![c] = "failed"]
                /\ tokenFile' = Torn /\ linked' = linked
  BY <1>3 DEF WriteToken, Goto
<1>4. ASSUME NEW c \in Commands, DeleteToken(c), tokenFile # NoFile,
             tokenFile' = NoFile
      PROVE  /\ pc[c] = "DeleteToken" /\ c \in took'
             /\ \E end \in Ends : pc' = [pc EXCEPT ![c] = end]
             /\ tokenFile' = NoFile /\ linked' = {}
  BY <1>4 DEF DeleteToken, Goto, Ends
<1>5. ASSUME NEW d \in Commands, Step(d) \/ Kill(d),
             ~(WriteToken(d) /\ d \in linked),
             ~(TruncateToken(d) /\ tokenFile' = Empty
                  /\ linked' = linked \cup {d} /\ Goto(d, "WriteToken")),
             ~(DeleteToken(d) /\ tokenFile # NoFile /\ tokenFile' = NoFile)
      PROVE  Quiet
  <2>1. UNCHANGED <<tokenFile, linked>>
    BY <1>5 DEF Step, Kill, Start, RejectSign, OpenFile, ReadBody, Send, Serve,
         LoseAnswer, Receive, CreateOutput, CopyBody, TruncateToken, WriteToken,
         DeleteToken, disk
  <2>2. ASSUME NEW c \in Commands, c # d
        PROVE  pc'[c] = pc[c]
    BY <1>5, <2>2, OthersStay
  <2>3. pc'[d] = "WriteToken" => pc[d] = "WriteToken"
    <3>1. CASE TruncateToken(d)
      BY <1>5, <3>1 DEF TruncateToken, Goto
    <3>2. CASE ~TruncateToken(d)
      <4>1. pc'[d] = "WriteToken" /\ pc[d] # "WriteToken" => pc[d] = "TruncateToken"
        BY <1>5, Moves DEF FirstStep
      <4>2. pc[d] = "TruncateToken" => pc'[d] # "WriteToken"
        BY <1>5, <3>2 DEF Step, Kill, Start, RejectSign, OpenFile, ReadBody, Send,
             Serve, LoseAnswer, Receive, CreateOutput, CopyBody, WriteToken,
             DeleteToken, Goto, Ends
      <4> QED BY <4>1, <4>2
    <3> QED BY <3>1, <3>2
  <2>4. pc[d] = "WriteToken" /\ d \in linked => pc'[d] \in {"WriteToken", "failed"}
    <3>1. pc[d] = "WriteToken" /\ ~WriteToken(d) => pc'[d] \in {"WriteToken", "failed"}
      BY <1>5 DEF Step, Kill, Start, RejectSign, OpenFile, ReadBody, Send, Serve,
           LoseAnswer, Receive, CreateOutput, CopyBody, TruncateToken, DeleteToken,
           Goto
    <3> QED BY <1>5, <3>1
  <2>5. pc'[d] = "ok" /\ pc[d] # "ok" /\ asked'[d].op = "login" =>
            pc[d] = "WriteToken" /\ d \notin linked
    <3>1. pc'[d] = "ok" /\ pc[d] # "ok" /\ asked'[d].op = "login" =>
              pc[d] = "WriteToken"
      BY <1>5, Moves DEF Op, Control, StepsOfOps, Ends, FirstStep
    <3> QED BY <2>4, <3>1
  <2> QED BY <2>1, <2>2, <2>3, <2>4, <2>5
<1> HIDE DEF Quiet
<1>6. ASSUME NEW d \in Commands, Step(d) \/ Kill(d)
      PROVE  \/ Quiet
             \/ TruncateToken(d) /\ tokenFile' = Empty
                  /\ linked' = linked \cup {d} /\ Goto(d, "WriteToken")
             \/ d \in linked /\ WriteToken(d)
             \/ DeleteToken(d) /\ tokenFile # NoFile /\ tokenFile' = NoFile
  BY <1>5, <1>6
<1>7. \/ Quiet
      \/ \E d \in Commands : /\ TruncateToken(d) /\ tokenFile' = Empty
                             /\ linked' = linked \cup {d} /\ Goto(d, "WriteToken")
      \/ \E d \in linked : WriteToken(d)
      \/ \E d \in Commands : /\ DeleteToken(d) /\ tokenFile # NoFile
                             /\ tokenFile' = NoFile
  BY <1>1, <1>6 DEF Next, Quiet, vars
<1> QED BY <1>2, <1>3, <1>4, <1>7 DEF Quiet

LEMMA LinkedStep ==
    ASSUME TypeOK, Control, LinkedLogins, FileOfLinked, [Next]_vars
    PROVE  LinkedLogins' /\ FileOfLinked'
<1> USE DEF TypeOK
<1>1. FileOfLinked'
  <2>1. \A c \in Commands : c # NoFile
    BY ContentAssumption
  <2> QED BY <2>1, TokenSteps, ContentAssumption DEF FileOfLinked
<1>2. ASSUME NEW c \in linked' PROVE c \in LetIn("login")'
  <2>1. CASE c \in linked
    BY <2>1, LetInStays DEF LinkedLogins
  <2>2. CASE c \notin linked
    <3>1. pc[c] = "TruncateToken" /\ c \in Commands
      BY <2>2, TokenSteps
    <3>2. c \in LetIn("login")
      BY <3>1 DEF LetIn, Control, StepsOfOps
    <3> QED BY <3>2, LetInStays
  <2> QED BY <2>1, <2>2
<1>3. ASSUME NEW c \in linked' PROVE pc'[c] \in {"WriteToken", "ok", "failed"}
  <2>1. CASE c \in linked /\ pc[c] # "WriteToken"
    BY <2>1, Lasting DEF LinkedLogins, Ends
  <2>2. CASE c \in linked /\ pc[c] = "WriteToken"
    BY <2>2, TokenSteps
  <2>3. CASE c \notin linked
    BY <2>3, TokenSteps
  <2> QED BY <2>1, <2>2, <2>3 DEF LinkedLogins
<1> QED BY <1>1, <1>2, <1>3 DEF LinkedLogins

\* A login at work on the file is not over, and the others' histories know it
LEMMA NotYetOver ==
    ASSUME TypeOK, Control, NEW c \in Commands, NEW d \in Commands, pc[d] \notin Ends
    PROVE  d \notin overBefore[c]
BY DEF Control, OverForGood, Over

LEMMA TokenOfWriterStep ==
    ASSUME TypeOK, Control, LinkedLogins, FileOfLinked, TokenOfWriter, [Next]_vars
    PROVE  TokenOfWriter'
<1> SUFFICES ASSUME tokenFile' \in Commands
             PROVE  /\ tokenFile' \in linked'
                    /\ pc'[tokenFile'] = "ok"
                    /\ \A c \in linked' : tokenFile' \notin overBefore'[c]
  BY DEF TokenOfWriter
<1> USE DEF TypeOK
<1>0. Empty \notin Commands /\ Torn \notin Commands /\ NoFile \notin Commands
  BY ContentAssumption
<1>1. CASE UNCHANGED <<tokenFile, linked>>
  <2>1. \A c \in linked : overBefore'[c] = overBefore[c]
    BY LetInStays DEF LinkedLogins
  <2>2. pc'[tokenFile] = "ok"
    BY <1>1, Lasting DEF TokenOfWriter, Ends
  <2> QED BY <1>1, <2>1, <2>2 DEF TokenOfWriter
<1>2. ASSUME NEW d \in linked, pc[d] = "WriteToken", pc' = [pc EXCEPT ![d] = "ok"],
             tokenFile' = d, linked' = linked
      PROVE  /\ tokenFile' \in linked'
             /\ pc'[tokenFile'] = "ok"
             /\ \A c \in linked' : tokenFile' \notin overBefore'[c]
  <2>1. \A c \in linked : overBefore'[c] = overBefore[c]
    BY LetInStays DEF LinkedLogins
  <2>2. \A c \in linked : d \notin overBefore[c]
    BY <1>2, NotYetOver DEF Ends
  <2> QED BY <1>2, <2>1, <2>2
<1> QED BY <1>0, <1>1, <1>2, TokenSteps

LEMMA EmptyExplainedStep ==
    ASSUME TypeOK, Control, LinkedLogins, FileOfLinked, EmptyExplained, [Next]_vars
    PROVE  EmptyExplained'
<1> SUFFICES ASSUME tokenFile' = Empty
             PROVE  \E c \in linked' : pc'[c] \in {"WriteToken", "failed"}
  BY DEF EmptyExplained
<1> USE DEF TypeOK
<1>0. Empty \notin Commands /\ Empty # Torn /\ Empty # NoFile
  BY ContentAssumption
<1>1. CASE UNCHANGED <<tokenFile, linked>>
  <2>1. PICK c \in linked : pc[c] \in {"WriteToken", "failed"}
    BY <1>1 DEF EmptyExplained
  <2>2. CASE pc[c] = "failed"
    BY <1>1, <2>2, Lasting DEF Ends
  <2>3. CASE pc[c] = "WriteToken" /\ pc'[c] \in {"WriteToken", "failed"}
    BY <1>1, <2>3
  <2>4. CASE pc[c] = "WriteToken" /\ pc'[c] \notin {"WriteToken", "failed"}
    <3>1. \E d \in linked : tokenFile' \in {d, Torn}
      BY <1>0, <1>1, <2>4, TokenSteps
    <3> QED BY <1>0, <3>1
  <2> QED BY <2>1, <2>2, <2>3, <2>4
<1>2. ASSUME NEW d \in Commands, pc' = [pc EXCEPT ![d] = "WriteToken"],
             linked' = linked \cup {d}
      PROVE  \E c \in linked' : pc'[c] \in {"WriteToken", "failed"}
  BY <1>2
<1> QED BY <1>0, <1>1, <1>2, TokenSteps

LEMMA TornTokenStep ==
    ASSUME TypeOK, Control, LinkedLogins, FileOfLinked, TokenOfWriter, TornToken,
           [Next]_vars
    PROVE  TornToken'
<1> SUFFICES ASSUME tokenFile' = Torn
             PROVE  \E c \in linked' :
                       pc'[c] = "failed" \/ \E d \in linked' : Overlap(c, d)'
  BY DEF TornToken
<1> USE DEF TypeOK
<1>0. Torn \notin Commands /\ Torn # Empty /\ Torn # NoFile
  BY ContentAssumption
<1>1. \A c \in linked : c \in Commands /\ pc[c] # "New"
  BY DEF LinkedLogins
<1>2. CASE tokenFile = Torn /\ linked' = linked
  <2>1. PICK c \in linked : pc[c] = "failed" \/ \E d \in linked : Overlap(c, d)
    BY <1>2 DEF TornToken
  <2>2. CASE pc[c] = "failed"
    BY <1>1, <1>2, <2>2, Lasting DEF Ends
  <2>3. ASSUME NEW d \in linked, Overlap(c, d) PROVE Overlap(c, d)'
    BY <1>1, <2>3, OverlapStays
  <2> QED BY <1>2, <2>1, <2>2, <2>3
<1>3. ASSUME NEW c \in linked, pc[c] = "WriteToken",
             pc' = [pc EXCEPT ![c] = "failed"], linked' = linked
      PROVE  \E e \in linked' : pc'[e] = "failed"
  BY <1>3
<1>4. ASSUME NEW c \in linked, pc[c] = "WriteToken", tokenFile \in Commands,
             linked' = linked
      PROVE  \E d \in linked' : Overlap(c, d)'
  <2>1. tokenFile \in linked /\ pc[tokenFile] = "ok" /\ tokenFile \notin overBefore[c]
    BY <1>4 DEF TokenOfWriter
  <2>2. c \notin overBefore[tokenFile]
    BY <1>4, NotYetOver DEF Ends
  <2>3. Overlap(c, tokenFile)
    BY <1>4, <2>1, <2>2 DEF Overlap
  <2>4. ASSUME NEW d \in linked, Overlap(c, d) PROVE Overlap(c, d)'
    BY <1>1, <2>4, OverlapStays
  <2> QED BY <1>4, <2>1, <2>3, <2>4
<1>5. tokenFile \in Commands \cup {NoFile, Empty, Torn}
  BY DEF Tokens
<1>6. \A c \in linked : tokenFile # NoFile
  BY DEF FileOfLinked
<1> QED BY <1>0, <1>2, <1>3, <1>4, <1>5, <1>6, TokenSteps

LEMMA WrittenMeanwhileStep ==
    ASSUME TypeOK, Control, LinkedLogins, FileOfLinked, WrittenMeanwhile, [Next]_vars
    PROVE  WrittenMeanwhile'
<1> SUFFICES ASSUME NEW c \in linked', pc'[c] = "WriteToken", tokenFile' # Empty
             PROVE  \E d \in linked' \ {c} : d \notin overBefore'[c]
  BY DEF WrittenMeanwhile
<1> USE DEF TypeOK
<1>1. c \in linked /\ pc[c] = "WriteToken"
  BY TokenSteps, Lasting DEF LinkedLogins, Ends
<1>2. overBefore'[c] = overBefore[c]
  BY <1>1, LetInStays DEF LinkedLogins
<1>3. CASE UNCHANGED <<tokenFile, linked>>
  BY <1>1, <1>2, <1>3 DEF WrittenMeanwhile
<1>4. ASSUME NEW d \in linked, pc[d] = "WriteToken", pc'[d] # "WriteToken",
             linked' = linked
      PROVE  \E e \in linked' \ {c} : e \notin overBefore'[c]
  <2>1. d \notin overBefore[c]
    BY <1>1, <1>4, NotYetOver DEF Ends
  <2> QED BY <1>2, <1>4, <2>1
<1> QED BY <1>1, <1>3, <1>4, TokenSteps

LEMMA UnlinkedMeanwhileStep ==
    ASSUME TypeOK, Control, LinkedLogins, FileOfLinked, UnlinkedMeanwhile,
           [Next]_vars
    PROVE  UnlinkedMeanwhile'
<1> SUFFICES ASSUME NEW c \in Commands \ linked', pc'[c] = "WriteToken"
             PROVE  \E d \in Commands : /\ asked'[d].op = "logout" /\ d \in took'
                                        /\ d \notin overBefore'[c]
  BY DEF UnlinkedMeanwhile, Op
<1> USE DEF TypeOK
<1>1. pc[c] = "WriteToken"
  BY TokenSteps DEF Ends
<1>2. overBefore'[c] = overBefore[c]
  BY <1>1, Lasting
<1>3. CASE c \notin linked
  <2>1. PICK d \in Commands :
            Op(d) = "logout" /\ d \in took /\ d \notin overBefore[c]
    BY <1>1, <1>3 DEF UnlinkedMeanwhile
  <2> QED BY <1>2, <2>1, LogoutTook
<1>4. CASE c \in linked
  <2>1. PICK d \in Commands : pc[d] = "DeleteToken" /\ d \in took'
    BY <1>1, <1>4, TokenSteps
  <2>2. asked'[d].op = "logout"
    BY <2>1, Lasting DEF Control, StepsOfOps, Op
  <2>3. d \notin overBefore[c]
    BY <2>1, NotYetOver DEF Ends
  <2> QED BY <1>2, <2>1, <2>2, <2>3
<1> QED BY <1>3, <1>4

LEMMA LoginLastsStep ==
    ASSUME TypeOK, Control, LinkedLogins, FileOfLinked, WrittenMeanwhile,
           UnlinkedMeanwhile, LoginLasts, [Next]_vars
    PROVE  LoginLasts'
<1> DEFINE Superseded(c, d) ==
      /\ d # c /\ d \notin overBefore[c]
      /\ d \in LetIn("login") \/ (Op(d) = "logout" /\ d \in took)
<1> SUFFICES ASSUME NEW c \in LetIn("login")', pc'[c] = "ok"
             PROVE  tokenFile' = c \/ \E d \in Commands : Superseded(c, d)'
  BY DEF LoginLasts
<1> USE DEF TypeOK
<1>1. c \in Commands /\ asked'[c].op = "login" /\ wire'[c] = "ok"
  BY DEF LetIn, Op
<1>2. pc[c] # "New" /\ overBefore'[c] = overBefore[c] /\ asked'[c] = asked[c]
  <2>1. pc[c] # "New"
    <3>1. CASE Step(c) \/ Kill(c)
      BY <1>1, <3>1, Moves DEF FirstStep
    <3>2. CASE \E e \in Commands \ {c} : Step(e) \/ Kill(e)
      BY <1>1, <3>2, OthersStay
    <3>3. CASE UNCHANGED vars
      BY <3>3 DEF vars
    <3> QED BY <3>1, <3>2, <3>3 DEF Next
  <2> QED BY <1>1, <2>1, Lasting
<1>3. ASSUME NEW d \in Commands, Superseded(c, d) PROVE Superseded(c, d)'
  <2>1. d \in LetIn("login") => d \in LetIn("login")'
    BY LetInStays
  <2>2. Op(d) = "logout" /\ d \in took => asked'[d].op = "logout" /\ d \in took'
    BY LogoutTook
  <2> QED BY <1>2, <1>3, <2>1, <2>2 DEF Op
\* another login that opens or writes the file, or a logout that removes it
<1>4. ASSUME NEW d \in Commands, d # c, pc[d] \in {"TruncateToken", "WriteToken"}
      PROVE  Superseded(c, d)'
  <2>1. d \in LetIn("login")
    BY <1>4 DEF LetIn, Control, StepsOfOps
  <2>2. d \in LetIn("login")'
    BY <2>1, LetInStays
  <2>3. d \notin overBefore[c]
    BY <1>1, <1>4, NotYetOver DEF Ends
  <2> QED BY <1>2, <1>4, <2>2, <2>3
<1>5. ASSUME NEW d \in Commands, pc[d] = "DeleteToken", d \in took'
      PROVE  Superseded(c, d)'
  <2>1. asked'[d].op = "logout"
    BY <1>5, Lasting DEF Control, StepsOfOps, Op
  <2>2. d \notin overBefore[c]
    BY <1>1, <1>5, NotYetOver DEF Ends
  <2> QED BY <1>1, <1>2, <1>5, <2>1, <2>2 DEF Op
<1>6. CASE pc[c] = "ok"
  <2>1. c \in LetIn("login")
    <3>1. wire[c] = "ok"
      BY <1>1, <1>2, <1>6 DEF Control, StepsOfOps, Op
    <3> QED BY <1>1, <1>2, <3>1 DEF LetIn, Op
  <2>2. tokenFile = c \/ \E d \in Commands : Superseded(c, d)
    BY <1>6, <2>1 DEF LoginLasts
  <2>3. CASE \E d \in Commands : Superseded(c, d)
    BY <1>3, <2>3
  <2>4. CASE tokenFile = c
    <3> HIDE DEF Superseded
    <3> QED BY <1>1, <1>4, <1>5, <1>6, <2>4, TokenSteps
  <2> QED BY <2>2, <2>3, <2>4
<1>7. CASE pc[c] # "ok"
  <2>1. pc[c] = "WriteToken"
    BY <1>1, <1>2, <1>7, TokenSteps DEF Control, StepsOfOps, Op
  <2>2. CASE c \notin linked
    <3>1. PICK d \in Commands :
              Op(d) = "logout" /\ d \in took /\ d \notin overBefore[c]
      BY <1>1, <2>1, <2>2 DEF UnlinkedMeanwhile
    <3>2. d # c
      BY <1>1, <1>2, <3>1 DEF Op
    <3>3. Superseded(c, d)
      BY <3>1, <3>2
    <3> QED BY <1>3, <3>3
  <2>3. CASE c \in linked /\ tokenFile # Empty
    <3>1. PICK d \in linked \ {c} : d \notin overBefore[c]
      BY <2>1, <2>3 DEF WrittenMeanwhile
    <3>2. Superseded(c, d)
      BY <3>1 DEF LinkedLogins
    <3> QED BY <1>3, <3>1, <3>2
  <2>4. CASE c \in linked /\ tokenFile = Empty
    <3> HIDE DEF Superseded
    <3> QED BY <1>1, <1>7, <2>1, <2>4, TokenSteps
  <2> QED BY <2>2, <2>3, <2>4
<1> QED BY <1>6, <1>7

LEMMA SessionStep ==
    ASSUME TypeOK, Control, Session, [Next]_vars
    PROVE  Session'
BY LinkedStep, TokenOfWriterStep, EmptyExplainedStep, TornTokenStep,
   WrittenMeanwhileStep, UnlinkedMeanwhileStep, LoginLastsStep DEF Session

-----------------------------------------------------------------------------
(* The server.                                                              *)

LEMMA TookStep ==
    ASSUME TypeOK, Control, TookIsServed, [Next]_vars
    PROVE  TookIsServed' /\ took \subseteq took'
<1> USE DEF TypeOK, TookIsServed, server, Op
<1>0. ASSUME NEW d \in took
      PROVE  /\ wire[d] \in {"ok", "refused"} => wire'[d] = wire[d]
             /\ asked[d].op = "logout" => asked'[d].op = "logout"
  <2>1. d \in Commands /\ pc[d] # "New"
    BY DEF Control, Unstarted, NoLine
  <2> QED BY <2>1, Lasting
<1>1. ASSUME NEW c \in Commands, Serve(c) PROVE TookIsServed'
  BY <1>1 DEF Serve
<1>2. ASSUME NEW c \in Commands, Step(c) \/ Kill(c), ~Serve(c)
      PROVE  TookIsServed'
  <2>1. \A d \in took' : d \in took \/ asked'[d].op = "logout"
    <3>1. CASE DeleteToken(c)
      BY <3>1 DEF DeleteToken, Control, StepsOfOps, given
    <3>2. CASE ~DeleteToken(c)
      BY <1>2, <3>2 DEF Step, Kill, Start, RejectSign, OpenFile, ReadBody, Send,
         LoseAnswer, Receive, CreateOutput, CopyBody, TruncateToken, WriteToken
    <3> QED BY <3>1, <3>2
  <2>2. \A d \in Commands : wire'[d] = wire[d] \/ (wire[d] = "unsent" /\ wire'[d] = "sent")
    <3>1. CASE Send(c)
      BY <3>1 DEF Send, Control, StepsOfOps
    <3>2. CASE ~Send(c)
      BY <1>2, <3>2 DEF Step, Kill, Start, RejectSign, OpenFile, ReadBody,
         LoseAnswer, Receive, CreateOutput, CopyBody, TruncateToken, WriteToken,
         DeleteToken
    <3> QED BY <3>1, <3>2
  <2>3. took \subseteq took'
    BY TookGrows
  <2> QED BY <1>0, <2>1, <2>2, <2>3
<1>3. CASE UNCHANGED vars
  BY <1>3 DEF vars
<1> QED BY <1>1, <1>2, <1>3, TookGrows DEF Next

\* What an upload has sent, or a download is sent, is in its hands for good
LEMMA SentDataStays ==
    ASSUME TypeOK, Control, [Next]_vars, NEW c \in Commands, wire[c] = "ok"
    PROVE  data'[c] = data[c]
<1> USE DEF TypeOK, server, given, Goto, Ends
<1>1. ~Serve(c) /\ pc[c] \notin {"OpenFile", "ReadBody"}
  BY DEF Serve, Control, StepsOfOps
<1>2. ASSUME NEW d \in Commands, Step(d) \/ Kill(d) PROVE data'[c] = data[c]
  <2>1. CASE OpenFile(d) \/ ReadBody(d)
    BY <1>1, <2>1 DEF OpenFile, ReadBody
  <2>2. CASE Serve(d)
    <3>1. d # c
      BY <1>1, <2>2
    <3> QED BY <2>2, <3>1 DEF Serve, Perform
  <2>3. CASE CreateOutput(d) \/ CopyBody(d)
    BY <1>1, <2>3 DEF CreateOutput, CopyBody, Disturbed
  <2> QED BY <1>2, <2>1, <2>2, <2>3 DEF Step, Kill, Start, RejectSign, Send,
       LoseAnswer, Receive, TruncateToken, WriteToken, DeleteToken
<1> QED BY <1>2 DEF Next, vars

LEMMA EffectsLastStep ==
    ASSUME TypeOK, Control, TookIsServed, EffectsLast, [Next]_vars
    PROVE  EffectsLast'
<1> DEFINE Effect(c) == IF Op(c) = "upload" THEN data[c] ELSE NoFile
           Undone(c, d) ==
              /\ d # c
              /\ Op(d) \in {"upload", "delete"} /\ Key(d) = Key(c)
              /\ d \notin overBefore[c] \/ pc[d] # "ok"
<1> SUFFICES ASSUME NEW c \in Commands, wire'[c] = "ok",
                    asked'[c].op \in {"upload", "delete"}
             PROVE  \/ stored'[Key(c)'] = Effect(c)'
                    \/ \E d \in took' : Undone(c, d)'
  BY DEF EffectsLast, Op
<1> USE DEF TypeOK, Op, Key
<1>1. CASE wire[c] # "ok"
  <2>1. Serve(c) /\ wire'[c] = "ok"
    <3>1. ASSUME NEW d \in Commands, Step(d) \/ Kill(d) PROVE d = c
      BY <1>1, <3>1, OthersStay
    <3>2. Step(c) \/ Kill(c)
      BY <1>1, <3>1 DEF Next, vars
    <3> QED BY <1>1, <3>2 DEF Step, Kill, Start, RejectSign, OpenFile, ReadBody,
         Send, LoseAnswer, Receive, CreateOutput, CopyBody, TruncateToken,
         WriteToken, DeleteToken, server
  <2>2. Perform(c) /\ asked' = asked
    BY <1>1, <2>1 DEF Serve
  <2>3. asked[c].key \in Keys
    BY <2>1, <2>2, LineType DEF Serve, Control, Unstarted, Started
  <2> QED BY <2>2, <2>3 DEF Perform
<1>2. CASE wire[c] = "ok"
  <2>1. /\ pc[c] # "New" /\ asked'[c] = asked[c] /\ overBefore'[c] = overBefore[c]
        /\ Op(c) \in {"upload", "delete"}
    BY <1>2, Lasting DEF Control, Unstarted
  <2>2. data'[c] = data[c]
    BY <1>2, <2>1, SentDataStays
  <2>3. ASSUME NEW d \in took, Undone(c, d) PROVE d \in took' /\ Undone(c, d)'
    <3>1. d \in Commands /\ d \in took' /\ pc[d] # "New"
      BY <2>3, TookStep DEF TookIsServed, Control, Unstarted
    <3>2. asked'[d] = asked[d]
      BY <3>1, Lasting
    <3>3. d \in overBefore[c] => pc'[d] = pc[d]
      BY <3>1, Lasting DEF Control, OverForGood, Over
    <3> QED BY <2>1, <2>3, <3>1, <3>2, <3>3
  <2>4. CASE \E d \in took : Undone(c, d)
    BY <2>3, <2>4
  <2>5. CASE stored[Key(c)] = Effect(c) /\ stored' # stored
    <3>1. PICK d \in Commands : Serve(d) /\ Perform(d)
      BY <2>5 DEF Next, Step, Kill, vars, Start, RejectSign, OpenFile, ReadBody,
         Send, Serve, LoseAnswer, Receive, CreateOutput, CopyBody, TruncateToken,
         WriteToken, DeleteToken, server
    <3>2. /\ stored' = [stored EXCEPT ![Key(d)] = stored'[Key(d)]]
          /\ Op(d) \in {"upload", "delete"}
      BY <2>5, <3>1 DEF Perform
    <3>3. d # c /\ d \in took' /\ asked' = asked /\ pc' = pc
      <4>1. wire[d] = "sent"
        BY <3>1 DEF Serve
      <4>2. d \in took'
        BY <2>5, <3>1 DEF Serve
      <4> QED BY <1>2, <3>1, <4>1, <4>2 DEF Serve
    <3>4. d \notin overBefore[c] \/ pc[d] # "ok"
      BY <3>1, <3>2 DEF Serve, Control, StepsOfOps
    <3>5. CASE Key(d) = Key(c)
      BY <2>1, <3>2, <3>3, <3>4, <3>5
    <3>6. CASE Key(d) # Key(c)
      <4>1. asked[c].key \in Keys
        BY <2>1, LineType DEF Control, Started
      <4>2. stored'[asked[c].key] = stored[asked[c].key]
        BY <3>2, <3>6, <4>1
      <4> QED BY <2>1, <2>2, <2>5, <4>2
    <3> QED BY <3>5, <3>6
  <2>6. CASE stored[Key(c)] = Effect(c) /\ stored' = stored
    BY <2>1, <2>2, <2>6
  <2> QED BY <1>2, <2>1, <2>4, <2>5, <2>6 DEF EffectsLast
<1> QED BY <1>1, <1>2

-----------------------------------------------------------------------------
(* The local files.                                                         *)

\* All that can happen to the local files in a step, and who does it
LEMMA LocalSteps ==
    ASSUME TypeOK, Control, [Next]_vars
    PROVE  \/ UNCHANGED <<local, mixed>> /\ (\A c \in Commands :
                 /\ pc'[c] = "CopyBody" => pc[c] = "CopyBody"
                 /\ pc[c] = "CopyBody" => pc'[c] \in {"CopyBody", "failed"}
                 /\ pc'[c] = "ok" /\ asked'[c].op = "download" => pc[c] = "ok")
           \/ \E c \in Commands :
                 /\ CreateOutput(c) /\ pc' = [pc EXCEPT ![c] = "CopyBody"]
                 /\ local' = [local EXCEPT ![File(c)] = Torn]
                 /\ mixed' = IF Writers(File(c)) = {} THEN mixed
                             ELSE mixed \cup Writers(File(c)) \cup {c}
           \/ \E c \in Commands : \E content \in {data[c], Torn} :
                 /\ CopyBody(c) /\ local' = [local EXCEPT ![File(c)] = content]
                 /\ \/ /\ content = data[c] \/ c \in mixed
                       /\ pc' = [pc EXCEPT ![c] = "ok"]
                    \/ content = Torn /\ pc' = [pc EXCEPT ![c] = "failed"]
                 /\ mixed' = mixed
<1> USE DEF TypeOK
<1> DEFINE Quiet ==
      /\ UNCHANGED <<local, mixed>>
      /\ \A c \in Commands :
            /\ pc'[c] = "CopyBody" => pc[c] = "CopyBody"
            /\ pc[c] = "CopyBody" => pc'[c] \in {"CopyBody", "failed"}
            /\ pc'[c] = "ok" /\ asked'[c].op = "download" => pc[c] = "ok"
<1>1. CASE UNCHANGED vars
  <2>1. Quiet
    BY <1>1 DEF vars
  <2> QED BY <2>1
<1>2. ASSUME NEW c \in Commands, CreateOutput(c), pc'[c] = "CopyBody"
      PROVE  /\ pc' = [pc EXCEPT ![c] = "CopyBody"]
             /\ local' = [local EXCEPT ![File(c)] = Torn]
             /\ mixed' = IF Writers(File(c)) = {} THEN mixed
                         ELSE mixed \cup Writers(File(c)) \cup {c}
  BY <1>2 DEF CreateOutput, Goto
<1>3. ASSUME NEW c \in Commands, CopyBody(c)
      PROVE  \E content \in {data[c], Torn} :
                 /\ local' = [local EXCEPT ![File(c)] = content]
                 /\ \/ /\ content = data[c] \/ c \in mixed
                       /\ pc' = [pc EXCEPT ![c] = "ok"]
                    \/ content = Torn /\ pc' = [pc EXCEPT ![c] = "failed"]
                 /\ mixed' = mixed
  BY <1>3 DEF CopyBody, Goto
<1>4. ASSUME NEW d \in Commands, Step(d) \/ Kill(d), ~CopyBody(d),
             ~(CreateOutput(d) /\ pc'[d] = "CopyBody")
      PROVE  Quiet
  <2>1. UNCHANGED <<local, mixed>>
    BY <1>4 DEF Step, Kill, Start, RejectSign, OpenFile, ReadBody, Send, Serve,
         LoseAnswer, Receive, CreateOutput, TruncateToken, WriteToken,
         DeleteToken, disk, Goto
  <2>2. ASSUME NEW c \in Commands, c # d
        PROVE  pc'[c] = pc[c] /\ asked'[c] = asked[c]
    BY <1>4, <2>2, OthersStay
  <2>3. pc'[d] = "CopyBody" => pc[d] = "CopyBody"
    <3>1. pc'[d] = "CopyBody" /\ pc[d] # "CopyBody" => pc[d] = "CreateOutput"
      BY <1>4, Moves DEF FirstStep
    <3>2. pc[d] = "CreateOutput" => pc'[d] # "CopyBody"
      BY <1>4 DEF Step, Kill, Start, RejectSign, OpenFile, ReadBody, Send,
           Serve, LoseAnswer, Receive, TruncateToken, WriteToken,
           DeleteToken, Goto, Ends
    <3> QED BY <3>1, <3>2
  <2>4. pc[d] = "CopyBody" => pc'[d] \in {"CopyBody", "failed"}
    BY <1>4 DEF Step, Kill, Start, RejectSign, OpenFile, ReadBody, Send, Serve,
         LoseAnswer, Receive, CreateOutput, TruncateToken, WriteToken,
         DeleteToken, Goto
  <2>5. pc'[d] = "ok" /\ asked'[d].op = "download" => pc[d] = "ok"
    BY <1>4, <2>4, Moves DEF Op, Control, StepsOfOps, Ends, FirstStep
  <2> QED BY <2>1, <2>2, <2>3, <2>4, <2>5
<1> HIDE DEF Quiet
<1>5. ASSUME NEW d \in Commands, Step(d) \/ Kill(d)
      PROVE  Quiet \/ CopyBody(d) \/ (CreateOutput(d) /\ pc'[d] = "CopyBody")
  BY <1>4, <1>5
<1>6. \/ Quiet
      \/ \E d \in Commands : CopyBody(d)
      \/ \E d \in Commands : CreateOutput(d) /\ pc'[d] = "CopyBody"
  BY <1>1, <1>5 DEF Next, Quiet, vars
<1> QED BY <1>2, <1>3, <1>6 DEF Quiet

\* A download at work on its file was let in, and is not over
LEMMA WriterLetIn ==
    ASSUME TypeOK, Control, NEW c \in Commands, pc[c] \in {"CreateOutput", "CopyBody"}
    PROVE  /\ c \in LetIn("download") /\ File(c) \in Files
           /\ \A d \in Commands : c \notin overBefore[d]
<1>1. Op(c) = "download" /\ wire[c] = "ok"
  BY DEF Control, StepsOfOps
<1>2. asked[c] \in CommandLines
  BY DEF Control, Started
<1> QED BY <1>1, <1>2, LineType, NotYetOver DEF LetIn, Op, File, Ends

\* Two commands on one file that overlap do so for good
LEMMA OverlapLasts ==
    ASSUME TypeOK, Control, [Next]_vars, NEW c \in Commands,
           NEW d \in LetIn("download"), File(c) = File(d), Overlap(c, d)
    PROVE  /\ d \in LetIn("download")' /\ File(c)' = File(d)' /\ Overlap(c, d)'
           /\ File(d)' = File(d)
<1>1. d \in Commands /\ pc[d] # "New"
  BY LetInStays DEF LetIn
<1>2. File(d) \in Files
  BY <1>1, LineType DEF LetIn, Op, File, Control, Started
<1>3. pc[c] # "New"
  BY <1>2, ContentAssumption DEF Control, Unstarted, NoLine, File
<1> QED BY <1>1, <1>3, LetInStays, OverlapStays, Lasting DEF File

LEMMA MixedStep ==
    ASSUME TypeOK, Control, MixedOverlap, [Next]_vars
    PROVE  MixedOverlap'
<1> USE DEF TypeOK
<1> SUFFICES ASSUME NEW c \in mixed'
             PROVE  \E d \in LetIn("download")' : /\ d # c /\ File(d)' = File(c)'
                                                  /\ Overlap(c, d)'
  BY DEF MixedOverlap
<1>1. CASE c \in mixed
  <2>1. PICK d \in LetIn("download") \ {c} : File(d) = File(c) /\ Overlap(c, d)
    BY <1>1 DEF MixedOverlap
  <2> QED BY <1>1, <2>1, OverlapLasts
<1>2. CASE c \notin mixed
  <2>1. PICK e \in Commands :
            /\ pc[e] = "CreateOutput" /\ Writers(File(e)) # {}
            /\ c \in Writers(File(e)) \cup {e}
    BY <1>2, LocalSteps DEF CreateOutput
  <2>2. PICK d \in Commands : /\ d # c /\ File(d) = File(c)
                              /\ pc[d] \in {"CreateOutput", "CopyBody"}
    BY <2>1 DEF Writers
  <2>3. c \in Commands /\ pc[c] \in {"CreateOutput", "CopyBody"}
    BY <2>1 DEF Writers
  <2>4. d \in LetIn("download") /\ Overlap(c, d)
    BY <2>2, <2>3, WriterLetIn DEF Overlap
  <2> QED BY <2>2, <2>3, <2>4, OverlapLasts
<1> QED BY <1>1, <1>2

LEMMA DownloadWholeStep ==
    ASSUME TypeOK, Control, MixedOverlap, DownloadWhole, [Next]_vars
    PROVE  DownloadWhole'
<1> USE DEF TypeOK
<1>1. ASSUME NEW f \in Files, local'[f] \notin {f, NoFile}
      PROVE  \E d \in LetIn("download")' : File(d)' = f
  <2>1. CASE local'[f] = local[f]
    <3>1. PICK d \in LetIn("download") : File(d) = f
      BY <1>1, <2>1 DEF DownloadWhole
    <3> QED BY <3>1, LetInStays DEF File
  <2>2. CASE local'[f] # local[f]
    <3>1. PICK c \in Commands : pc[c] \in {"CreateOutput", "CopyBody"} /\ File(c) = f
      BY <2>2, LocalSteps DEF CreateOutput, CopyBody
    <3>2. c \in LetIn("download")
      BY <3>1, WriterLetIn
    <3> QED BY <3>1, <3>2, LetInStays DEF File
  <2> QED BY <2>1, <2>2
<1>2. ASSUME NEW c \in Commands, pc'[c] = "ok", asked'[c].op = "download"
      PROVE  \/ local'[File(c)'] = data'[c]
             \/ \E d \in LetIn("download")' :
                   /\ d # c /\ File(d)' = File(c)' /\ d \notin overBefore'[c]
  <2> DEFINE Disturber(d) ==
        d # c /\ File(d) = File(c) /\ d \notin overBefore[c]
  <2>1. CASE pc[c] = "ok"
    <3>1. /\ asked'[c] = asked[c] /\ overBefore'[c] = overBefore[c]
          /\ wire[c] = "ok" /\ Op(c) = "download"
      BY <1>2, <2>1, Lasting DEF Control, StepsOfOps, Op
    <3>2. data'[c] = data[c]
      BY <3>1, SentDataStays
    <3>3. ASSUME NEW d \in LetIn("download"), Disturber(d)
          PROVE  d \in LetIn("download")' /\ Disturber(d)'
      BY <3>1, <3>3, LetInStays DEF File
    <3>4. CASE local'[File(c)] = local[File(c)]
      BY <2>1, <3>1, <3>2, <3>3, <3>4 DEF DownloadWhole, File
    <3>5. CASE local'[File(c)] # local[File(c)]
      <4>0. File(c) \in Files
        BY <2>1, <3>1, LineType DEF Control, Started, Op, File
      <4>1. PICK d \in Commands :
                pc[d] \in {"CreateOutput", "CopyBody"} /\ File(d) = File(c)
        BY <3>5, <4>0, LocalSteps DEF CreateOutput, CopyBody
      <4>2. d \in LetIn("download") /\ Disturber(d)
        BY <2>1, <4>1, WriterLetIn
      <4> QED BY <3>3, <4>2
    <3> QED BY <3>4, <3>5
  <2>2. CASE pc[c] # "ok"
    <3>1. PICK content \in {data[c], Torn} :
              /\ pc[c] = "CopyBody"
              /\ local' = [local EXCEPT ![File(c)] = content]
              /\ content = data[c] \/ c \in mixed
      BY <1>2, <2>2, LocalSteps DEF CopyBody
    <3>2. wire[c] = "ok" /\ File(c) \in Files /\ asked'[c] = asked[c]
      BY <3>1, WriterLetIn, Lasting DEF LetIn
    <3>3. data'[c] = data[c]
      BY <3>2, SentDataStays
    <3>4. CASE content = data[c]
      BY <3>1, <3>2, <3>3, <3>4 DEF File
    <3>5. CASE c \in mixed
      <4>1. PICK d \in LetIn("download") \ {c} : File(d) = File(c) /\ Overlap(c, d)
        BY <3>5 DEF MixedOverlap
      <4> QED BY <4>1, OverlapLasts DEF Overlap
    <3> QED BY <3>1, <3>4, <3>5
  <2> QED BY <2>1, <2>2
<1> QED BY <1>1, <1>2 DEF DownloadWhole, Op

\* What an upload or a download holds after a step, and where it has it from
LEMMA DataSteps ==
    ASSUME TypeOK, Control, [Next]_vars, NEW u \in Commands, data'[u] # data[u]
    PROVE  \/ /\ pc[u] \in {"OpenFile", "ReadBody"} /\ File(u) \in Files
              /\ data'[u] = local[File(u)] /\ UNCHANGED <<local, overBefore>>
           \/ \E k \in Keys : data'[u] = stored[k]
           \/ /\ pc[u] = "ReadBody"
              /\ \E c \in Commands : /\ pc[c] \in {"CreateOutput", "CopyBody"}
                                     /\ File(c) = File(u)
<1> USE DEF TypeOK, server, given, disk
<1>1. ASSUME NEW c \in Commands, Step(c) \/ Kill(c)
      PROVE  \/ /\ pc[u] \in {"OpenFile", "ReadBody"} /\ File(u) \in Files
                /\ data'[u] = local[File(u)] /\ UNCHANGED <<local, overBefore>>
             \/ \E k \in Keys : data'[u] = stored[k]
             \/ /\ pc[u] = "ReadBody"
                /\ \E d \in Commands : /\ pc[d] \in {"CreateOutput", "CopyBody"}
                                       /\ File(d) = File(u)
  <2>1. CASE OpenFile(c) \/ ReadBody(c)
    <3>1. File(c) \in Files
      BY <2>1, LineType DEF OpenFile, ReadBody, Control, StepsOfOps, Started, Op, File
    <3> QED BY <2>1, <3>1 DEF OpenFile, ReadBody
  <2>2. CASE Serve(c)
    <3>1. c = u /\ Op(c) = "download" /\ data'[c] = stored[Key(c)]
      BY <2>2 DEF Serve, Perform
    <3>2. Key(c) \in Keys
      BY <2>2, <3>1, LineType DEF Serve, Control, Unstarted, Started, Op, Key
    <3> QED BY <3>1, <3>2
  <2>3. CASE CreateOutput(c) \/ CopyBody(c)
    <3>1. data' = data \/ data' = Disturbed(File(c))
      BY <2>3 DEF CreateOutput, CopyBody
    <3> QED BY <2>3, <3>1 DEF Disturbed, CreateOutput, CopyBody
  <2> QED BY <1>1, <2>1, <2>2, <2>3 DEF Step, Kill, Start, RejectSign, Send,
       LoseAnswer, Receive, TruncateToken, WriteToken, DeleteToken
<1> QED BY <1>1 DEF Next, vars

LEMMA TearStaysOnRecord ==
    ASSUME TypeOK, Control, [Next]_vars, TearOnRecord
    PROVE  TearOnRecord'
<1>1. PICK d \in LetIn("download") :
          \/ pc[d] = "failed"
          \/ \E c \in Commands : File(c) = File(d) /\ Overlap(c, d)
  BY DEF TearOnRecord
<1>2. CASE pc[d] = "failed"
  <2>1. d \in Commands
    BY DEF LetIn
  <2>2. pc'[d] = "failed"
    BY <1>2, <2>1, Lasting DEF Ends
  <2> QED BY <2>2, LetInStays DEF TearOnRecord
<1>3. ASSUME NEW c \in Commands, File(c) = File(d), Overlap(c, d)
      PROVE  TearOnRecord'
  BY <1>3, OverlapLasts DEF TearOnRecord
<1> QED BY <1>1, <1>2, <1>3

\* An upload that has a file open while a download writes it
LEMMA ReaderAndWriter ==
    ASSUME TypeOK, Control, [Next]_vars, NEW u \in Commands, NEW d \in Commands,
           pc[u] \in {"OpenFile", "ReadBody"},
           pc[d] \in {"CreateOutput", "CopyBody"}, File(u) = File(d)
    PROVE  TearOnRecord'
<1>1. d \in LetIn("download") /\ u # d
  BY WriterLetIn
<1>2. Overlap(u, d)
  BY <1>1, NotYetOver DEF Overlap, Ends
<1> QED BY <1>1, <1>2, OverlapLasts DEF TearOnRecord

LEMMA TornDataStep ==
    ASSUME TypeOK, Control, MixedOverlap, TornData, [Next]_vars
    PROVE  TornData'
<1> USE DEF TypeOK
<1>1. ASSUME NEW k \in Keys, stored'[k] = Torn PROVE TearOnRecord'
  <2>1. CASE stored'[k] = stored[k]
    BY <1>1, <2>1, TearStaysOnRecord DEF TornData
  <2>2. CASE stored'[k] # stored[k]
    <3>1. \E c \in Commands : stored'[k] \in {data[c], NoFile}
      BY <2>2 DEF Next, Step, Kill, vars, Start, RejectSign, OpenFile, ReadBody,
         Send, Serve, Perform, LoseAnswer, Receive, CreateOutput, CopyBody,
         TruncateToken, WriteToken, DeleteToken, server
    <3> QED BY <1>1, <3>1, TearStaysOnRecord, ContentAssumption DEF TornData
  <2> QED BY <2>1, <2>2
<1>2. ASSUME NEW u \in Commands, data'[u] = Torn PROVE TearOnRecord'
  <2>1. CASE data'[u] = data[u]
    BY <1>2, <2>1, TearStaysOnRecord DEF TornData
  <2>2. CASE /\ pc[u] \in {"OpenFile", "ReadBody"} /\ File(u) \in Files
             /\ local[File(u)] = Torn
    <3>1. CASE TearOnRecord
      BY <3>1, TearStaysOnRecord
    <3>2. CASE Writers(File(u)) # {}
      BY <2>2, <3>2, ReaderAndWriter DEF Writers
    <3> QED BY <2>2, <3>1, <3>2 DEF TornData
  <2>3. CASE \E k \in Keys : stored[k] = Torn
    BY <2>3, TearStaysOnRecord DEF TornData
  <2>4. CASE /\ pc[u] = "ReadBody"
             /\ \E c \in Commands : /\ pc[c] \in {"CreateOutput", "CopyBody"}
                                    /\ File(c) = File(u)
    BY <2>4, ReaderAndWriter
  <2> QED BY <1>2, <2>1, <2>2, <2>3, <2>4, DataSteps
<1>3. ASSUME NEW f \in Files, local'[f] = Torn
      PROVE  TearOnRecord' \/ Writers(f)' # {}
  <2>1. CASE /\ UNCHANGED <<local, mixed>>
             /\ \A c \in Commands :
                   pc[c] = "CopyBody" => pc'[c] \in {"CopyBody", "failed"}
    <3>1. CASE TearOnRecord
      BY <3>1, TearStaysOnRecord
    <3>2. ASSUME NEW c \in Writers(f) PROVE TearOnRecord' \/ Writers(f)' # {}
      <4>1. c \in LetIn("download") /\ pc'[c] \in {"CopyBody", "failed"}
        BY <2>1, WriterLetIn DEF Writers
      <4>2. c \in LetIn("download")' /\ File(c)' = f
        BY <4>1, LetInStays DEF Writers, File
      <4>3. CASE pc'[c] = "failed"
        BY <4>2, <4>3 DEF TearOnRecord
      <4>4. CASE pc'[c] = "CopyBody"
        BY <4>2, <4>4 DEF Writers
      <4> QED BY <4>1, <4>3, <4>4
    <3> QED BY <1>3, <2>1, <3>1, <3>2 DEF TornData
  <2>2. ASSUME NEW c \in Commands, pc[c] = "CreateOutput",
               pc' = [pc EXCEPT ![c] = "CopyBody"],
               local' = [local EXCEPT ![File(c)] = Torn]
        PROVE  TearOnRecord' \/ Writers(f)' # {}
    <3>1. asked'[c] = asked[c]
      BY <2>2, Lasting
    <3>2. CASE f = File(c)
      BY <2>2, <3>1, <3>2 DEF Writers, File
    <3>3. CASE f # File(c)
      <4>1. TearOnRecord \/ Writers(f) # {}
        BY <1>3, <2>2, <3>3 DEF TornData
      <4>2. ASSUME NEW d \in Writers(f) PROVE d \in Writers(f)'
        BY <2>2, Lasting DEF Writers, File
      <4> QED BY <4>1, <4>2, TearStaysOnRecord
    <3> QED BY <3>2, <3>3
  <2>3. ASSUME NEW c \in Commands, NEW content \in {data[c], Torn}, CopyBody(c),
               local' = [local EXCEPT ![File(c)] = content],
               \/ /\ content = data[c] \/ c \in mixed
                  /\ pc' = [pc EXCEPT ![c] = "ok"]
               \/ content = Torn /\ pc' = [pc EXCEPT ![c] = "failed"]
        PROVE  TearOnRecord' \/ Writers(f)' # {}
    <3>1. pc[c] = "CopyBody" /\ c \in LetIn("download") /\ File(c) \in Files
      BY <2>3, WriterLetIn DEF CopyBody
    <3>2. c \in LetIn("download")'
      BY <3>1, LetInStays
    <3>3. CASE f # File(c)
      <4>1. TearOnRecord \/ Writers(f) # {}
        BY <1>3, <2>3, <3>3 DEF TornData
      <4>2. ASSUME NEW d \in Writers(f) PROVE d \in Writers(f)'
        BY <2>3, <3>3, Lasting DEF Writers, File
      <4> QED BY <4>1, <4>2, TearStaysOnRecord
    <3>4. CASE f = File(c) /\ data[c] = Torn
      BY <3>4, TearStaysOnRecord DEF TornData
    <3>5. CASE pc'[c] = "failed"
      BY <3>2, <3>5 DEF TearOnRecord
    <3>6. CASE c \in mixed
      <4>1. PICK d \in LetIn("download") \ {c} : File(d) = File(c) /\ Overlap(c, d)
        BY <3>6 DEF MixedOverlap
      <4> QED BY <4>1, OverlapLasts DEF TearOnRecord
    <3>7. f = File(c) => content = Torn
      BY <1>3, <2>3
    <3> QED BY <2>3, <3>1, <3>3, <3>4, <3>5, <3>6, <3>7
  <2> QED BY <2>1, <2>2, <2>3, LocalSteps DEF CreateOutput
<1> QED BY <1>1, <1>2, <1>3 DEF TornData

-----------------------------------------------------------------------------
(* The invariant, and what follows from it.                                 *)

LEMMA InvInit == Init => IInv
<1> SUFFICES ASSUME Init PROVE IInv
  OBVIOUS
<1> USE DEF Init
<1>1. TypeOK
  BY TypeInit
<1>2. Control
  BY DEF Control, Unstarted, Started, StepsOfOps, OverForGood, Ends, Op, NoLine
<1>3. LetIn("login") = {} /\ LetIn("download") = {}
  BY DEF LetIn
<1>4. Session
  BY <1>3, ContentAssumption DEF Session, LinkedLogins, FileOfLinked, TokenOfWriter,
     EmptyExplained, TornToken, WrittenMeanwhile, UnlinkedMeanwhile, LoginLasts
<1>5. TookIsServed /\ EffectsLast /\ MixedOverlap
  BY DEF TookIsServed, EffectsLast, MixedOverlap
<1>6. DownloadWhole /\ TornData
  BY ContentAssumption DEF DownloadWhole, TornData
<1> QED BY <1>1, <1>2, <1>4, <1>5, <1>6 DEF IInv

LEMMA InvStep == IInv /\ [Next]_vars => IInv'
BY TypeStep, ControlStep, SessionStep, TookStep, EffectsLastStep, MixedStep,
   DownloadWholeStep, TornDataStep DEF IInv

LEMMA Invariance == Spec => []IInv
BY InvInit, InvStep, PTL DEF Spec

\* Every variable keeps its type, whatever the faults and the sub-commands.
THEOREM TypeCorrect == Spec => []TypeOK
<1>1. IInv => TypeOK
  BY DEF IInv
<1> QED BY <1>1, Invariance, PTL

\* An empty or a garbled token file is the work of a login that was answered,
\* and that was cut short, is still at it or was not alone.
THEOREM SessionAlwaysIntact == Spec => []SessionIntact
<1>1. IInv => SessionIntact
  BY DEF IInv, Session, SessionIntact, LinkedLogins, EmptyExplained, TornToken
<1> QED BY <1>1, Invariance, PTL

\* The token of a successful login stays until a login or a logout that was not
\* over when it began.
THEOREM LoginAlwaysLasts == Spec => []LoginLasts
<1>1. IInv => LoginLasts
  BY DEF IInv, Session
<1> QED BY <1>1, Invariance, PTL

\* What an upload or a delete reported done is undone only by a command on its
\* key that was not over when it began, or by the late request of a failed one.
THEOREM AnsweredEffectsAlwaysLast == Spec => []AnsweredEffectsLast
<1>1. IInv => AnsweredEffectsLast
  <2> SUFFICES ASSUME IInv, NEW c \in Commands, pc[c] = "ok",
                      Op(c) \in {"upload", "delete"}
               PROVE  wire[c] = "ok"
    BY DEF IInv, AnsweredEffectsLast, EffectsLast
  <2> QED BY DEF IInv, Control, StepsOfOps
<1> QED BY <1>1, Invariance, PTL

\* A refused download leaves the local file alone, and a successful one has
\* written what the server sent unless another wrote there too.
THEOREM DownloadAlwaysWhole == Spec => []DownloadWhole
<1>1. IInv => DownloadWhole
  BY DEF IInv
<1> QED BY <1>1, Invariance, PTL

\* No object and no local file is ever torn but for a download that was cut
\* short or overlapped another command on its file.
THEOREM TornAlwaysExplained == Spec => []TornExplained
<1>1. IInv => TornExplained
  <2> SUFFICES ASSUME IInv, TearOnRecord \/ \E f \in Files : Writers(f) # {}
               PROVE  \E d \in LetIn("download") :
                         \/ pc[d] # "ok"
                         \/ \E c \in Commands : File(c) = File(d) /\ Overlap(c, d)
    BY DEF TornExplained, IInv, TornData
  <2>1. CASE TearOnRecord
    BY <2>1 DEF TearOnRecord
  <2>2. ASSUME NEW c \in Commands, pc[c] = "CopyBody" PROVE c \in LetIn("download")
    BY <2>2, WriterLetIn DEF IInv
  <2> QED BY <2>1, <2>2 DEF Writers
<1> QED BY <1>1, Invariance, PTL
=============================================================================
