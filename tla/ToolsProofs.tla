---------------------------- MODULE ToolsProofs ----------------------------
(***************************************************************************)
(* The tools and the read routes, for every value of the constants.        *)
(*                                                                         *)
(* XeroPosting: no shell command and no code file outlives its call, and   *)
(* every post to Xero beyond the first is owed to a lost answer or a lost  *)
(* record, for every number of jobs, keys, tool calls, sandbox requests    *)
(* and faults.                                                             *)
(*                                                                         *)
(* MoneyReports: every figure of a profit and loss statement and of a      *)
(* revenue report agrees with the rows it was computed from, for every     *)
(* list of rows, in whatever order the rows and the sums are taken.        *)
(*                                                                         *)
(* ReadAccess: a job is read by the principal it was made for and by       *)
(* nobody else, for every registry of clients, number of jobs, tokens and  *)
(* instants; and a retrieval shows, hides and says of itself what its      *)
(* contract says, for every index.                                         *)
(***************************************************************************)
EXTENDS XeroPosting, MoneyReports, ReadAccess, FiniteSetTheorems, SequenceTheorems, TLAPS

-----------------------------------------------------------------------------
(* The inductive invariant of the sandbox                                  *)

Stages == {"idle", "probe", "probing", "probed", "spawn", "waiting", "coding", "posting"}

BoxInv ==
    /\ pc \in [Jobs -> Stages] /\ proc \in [Jobs -> SUBSET Processes]
    /\ temp \in [Jobs -> Nat] /\ strands \in [Jobs -> Nat]
    /\ NothingLeftBehind

-----------------------------------------------------------------------------
(* The inductive invariant of the posts                                    *)

Duplicate == "duplicate_verify_api_run"

Directory == [dir : BOOLEAN, file : Files]

LedgerTypes ==
    /\ call = [j \in Jobs |-> call[j]] /\ answer = [j \in Jobs |-> answer[j]]
    /\ disk \in [Jobs -> Directory] /\ amnesia \in [Jobs -> Nat]
    /\ posts \in [Jobs -> [Keys -> Nat]] /\ unheard \in [Jobs -> [Keys -> Nat]]

\* Without a directory there is no file, and an unreadable one holds no key.
FileOk(j) ==
    /\ ~disk[j].dir => disk[j].file = NoFile
    /\ ~disk[j].file.readable => disk[j].file.keys = {}

\* The key that is being posted is not in the file; one that is in it stands for
\* one of the posts, and all others were unheard of or forgotten.
LedgerOk(j) ==
    /\ pc[j] = "posting" => call[j] \in Keys /\ call[j] \notin disk[j].file.keys
    /\ \A k \in Keys :
          /\ unheard[j][k] <= posts[j][k]
          /\ posts[j][k] <= unheard[j][k] + amnesia[j] + (IF k \in disk[j].file.keys THEN 1 ELSE 0)
          /\ k \in disk[j].file.keys => bridge = "unset" \/ posts[j][k] > unheard[j][k]
    /\ answer[j].error = Duplicate =>
          bridge = "unset" \/ \E k \in Keys : posts[j][k] > unheard[j][k]

LedgerInv == LedgerTypes /\ \A j \in Jobs : FileOk(j) /\ LedgerOk(j)

-----------------------------------------------------------------------------
(* The sandbox: what each tool call, route and answer does to BoxInv       *)

\* What the routes and the registry do leaves every process and code file alone.
LEMMA QuietBox ==
    ASSUME BoxInv, UNCHANGED <<pc, proc, temp, strands>>
    PROVE  BoxInv'
BY DEF BoxInv, NothingLeftBehind

LEMMA RegistryBox ==
    ASSUME BoxInv, NEW j \in Jobs,
           StartAgent(j) \/ EndAgent(j) \/ CreateSandbox(j) \/ DestroySandbox(j)
    PROVE  BoxInv'
<1>1. CASE StartAgent(j)
    BY <1>1, QuietBox DEF StartAgent, sandboxVars
<1>2. CASE EndAgent(j)
    BY <1>2, QuietBox DEF EndAgent, sandboxVars
<1>3. CASE CreateSandbox(j)
    BY <1>3, QuietBox DEF CreateSandbox, Route
<1>4. CASE DestroySandbox(j)
    BY <1>4, QuietBox DEF DestroySandbox, Route
<1> QED
    BY <1>1, <1>2, <1>3, <1>4

\* A tool that waits for no process returns, or moves to a stage that needs none.
LEMMA StageBox ==
    ASSUME BoxInv, NEW j \in Jobs, NEW s \in Stages \ {"waiting", "coding"},
           pc[j] \notin {"waiting", "coding"},
           pc' = [pc EXCEPT ![j] = s],
           UNCHANGED <<proc, temp, strands>>
    PROVE  BoxInv'
BY DEF BoxInv, NothingLeftBehind, Stages

LEMMA CommandBox ==
    ASSUME BoxInv, NEW j \in Jobs, NEW cmd \in Commands, ShellCall(j, cmd)
    PROVE  BoxInv'
<1> USE DEF sandboxVars
<1>1. CASE UNCHANGED pc
    BY <1>1, QuietBox DEF ShellCall
<1>2. CASE Enter(j, cmd, "probe")
    BY <1>2, StageBox DEF ShellCall, Enter, Begin, Idle, Stages
<1> QED
    BY <1>1, <1>2 DEF ShellCall, Immediate

LEMMA ProbeBox ==
    ASSUME BoxInv, NEW j \in Jobs, ReadCache(j) \/ EndProbe(j) \/ Decide(j)
    PROVE  BoxInv'
<1>1. CASE ReadCache(j)
    BY <1>1, StageBox DEF ReadCache, Goto, sandboxVars, Stages
<1>2. CASE EndProbe(j)
    BY <1>2, StageBox DEF EndProbe, Goto, Stages
<1>3. CASE Decide(j)
    BY <1>3, StageBox DEF Decide, Goto, Return, sandboxVars, Stages
<1> QED
    BY <1>1, <1>2, <1>3

LEMMA ProcessBox ==
    ASSUME BoxInv, NEW j \in Jobs, Spawn(j) \/ CommandEnds(j) \/ CommandKilled(j)
    PROVE  BoxInv'
<1>1. CASE Spawn(j)
    <2>1. CASE proc' = [proc EXCEPT ![j] = @ \cup {"boxed"}] /\ Goto(j, "waiting")
        BY <1>1, <2>1 DEF Spawn, Goto, BoxInv, NothingLeftBehind, Stages, Processes
    <2>2. CASE UNCHANGED proc /\ pc' = [pc EXCEPT ![j] = "idle"]
        BY <1>1, <2>2, StageBox DEF Spawn, Stages
    <2> QED
        BY <1>1, <2>1, <2>2 DEF Spawn, Return
<1>2. CASE CommandEnds(j) \/ CommandKilled(j)
    <2>1. /\ pc[j] = "waiting" /\ pc' = [pc EXCEPT ![j] = "idle"]
          /\ proc' = [proc EXCEPT ![j] = @ \ {"boxed", "bare"}]
          /\ UNCHANGED <<temp, strands>>
        BY <1>2 DEF CommandEnds, CommandKilled, Reap, Return
    <2> QED
        BY <2>1 DEF BoxInv, NothingLeftBehind, Stages
<1> QED
    BY <1>1, <1>2

\* Every code file is made with a call that runs, or with one that has lost it.
LEMMA CodeBox ==
    ASSUME BoxInv, NEW j \in Jobs
    PROVE  /\ \A code \in Codes : CodeCall(j, code) => BoxInv'
           /\ CodeEnds(j) \/ OrphansEnd(j) => BoxInv'
<1> USE DEF BoxInv, NothingLeftBehind, Stages, Processes
<1>1. ASSUME NEW code \in Codes, CodeCall(j, code)
      PROVE  BoxInv'
    <2>1. CASE code = "refused"
        BY <1>1, <2>1 DEF CodeCall, Immediate
    <2>2. CASE code = "plain"
        BY <1>1, <2>2 DEF CodeCall, Enter, Begin, Idle
    <2>3. CASE code = "unwritable"
        BY <1>1, <2>3 DEF CodeCall, Immediate, Begin, Idle
    <2> QED
        BY <2>1, <2>2, <2>3 DEF Codes
<1>2. ASSUME CodeEnds(j)
      PROVE  BoxInv'
    <2>1. /\ pc[j] = "coding" /\ pc' = [pc EXCEPT ![j] = "idle"]
          /\ \/ proc' = [proc EXCEPT ![j] = @ \ {"boxed", "bare"}]
             \/ proc' = [proc EXCEPT ![j] = (@ \ {"bare"}) \cup {"orphan"}]
          /\ temp' = [temp EXCEPT ![j] = @ - 1] /\ UNCHANGED strands
        BY <1>2 DEF CodeEnds, Reap, ReapParent, Return
    <2>2. \A k \in Jobs : /\ proc'[k] \subseteq Processes
                          /\ "boxed" \in proc'[k] => "boxed" \in proc[k]
                          /\ "bare" \in proc'[k] => "bare" \in proc[k] /\ k # j
        BY <2>1
    <2>3. proc' \in [Jobs -> SUBSET Processes]
        BY <2>1
    <2> QED
        BY <2>1, <2>2, <2>3
<1>3. ASSUME OrphansEnd(j)
      PROVE  BoxInv'
    BY <1>3 DEF OrphansEnd
<1> QED
    BY <1>1, <1>2, <1>3

LEMMA PostBox ==
    ASSUME BoxInv, NEW j \in Jobs, XeroStep(j)
    PROVE  BoxInv'
<1>1. ASSUME NEW op \in Asked, NEW run \in Runs, NEW form \in {"good", "other_slug", "bad_run"},
             XeroCall(j, op, run, form)
      PROVE  BoxInv'
    <2>1. CASE UNCHANGED pc
        BY <1>1, <2>1, QuietBox DEF XeroCall
    <2>2. CASE Enter(j, IdempotencyKey(op, run), "posting")
        BY <1>1, <2>2, StageBox DEF XeroCall, Enter, Begin, Idle, Stages
    <2> QED
        BY <1>1, <2>1, <2>2 DEF XeroCall, Immediate
<1>2. ASSUME PostAccepted(j) \/ PostRefused(j) \/ PostUnheard(j)
      PROVE  BoxInv'
    <2>1. /\ pc[j] = "posting" /\ pc' = [pc EXCEPT ![j] = "idle"]
          /\ UNCHANGED <<proc, temp, strands>>
        BY <1>2 DEF PostAccepted, PostRefused, PostUnheard, Return, sandboxVars
    <2> QED
        BY <2>1, StageBox DEF Stages
<1> QED
    BY <1>1, <1>2 DEF XeroStep

LEMMA BoxInitially == InitXero => BoxInv
BY DEF InitXero, InitWorkspace, BoxInv, NothingLeftBehind, Stages, Processes

\* After a crash no command runs, and the code files of running code are stranded.
LEMMA CrashBox ==
    ASSUME BoxInv, CrashWorkspace
    PROVE  BoxInv'
BY DEF CrashWorkspace, BoxInv, NothingLeftBehind, Stages, Processes

LEMMA BoxInductive == BoxInv /\ [Next]_vars => BoxInv'
<1> SUFFICES ASSUME BoxInv, [Next]_vars
             PROVE  BoxInv'
    OBVIOUS
<1>1. ASSUME NEW j \in Jobs, WorkspaceStep(j)
      PROVE  BoxInv'
    BY <1>1, RegistryBox, CommandBox, ProbeBox, ProcessBox, CodeBox DEF WorkspaceStep
<1>2. CASE UNCHANGED vars
    BY <1>2, QuietBox DEF vars, sandboxVars
<1> QED
    BY <1>1, <1>2, PostBox, CrashBox DEF Next, CrashXero

\* workspace_shell and run_code, for every number of jobs and calls: no shell command
\* outlives its call, no Python process outlives its call but for a crash of the
\* gateway, and no code file does but those counted as stranded.  What Python code
\* started in its turn is not covered: nobody ends it.
THEOREM CommandsEndWithTheirCalls == Spec => []NothingLeftBehind
<1>1. BoxInv => NothingLeftBehind
    BY DEF BoxInv
<1> QED
    BY BoxInitially, BoxInductive, <1>1, PTL DEF Spec

-----------------------------------------------------------------------------
(* The posts: what the steps do to files, calls and answers                *)

LEMMA FileUpdates ==
    ASSUME NEW d \in Directory
    PROVE  /\ d.dir \in BOOLEAN /\ d.file \in Files /\ d.file.keys \subseteq Keys
           /\ \A b \in BOOLEAN : LET e == [d EXCEPT !.dir = b] IN
                e \in Directory /\ e.dir = b /\ e.file = d.file
           /\ \A f \in Files : LET e == [d EXCEPT !.file = f] IN
                e \in Directory /\ e.dir = d.dir /\ e.file = f
           /\ \A k \in Keys : LET e == [d EXCEPT !.file.keys = @ \cup {k}] IN
                /\ e \in Directory /\ e.dir = d.dir
                /\ e.file.readable = d.file.readable /\ e.file.keys = d.file.keys \cup {k}
BY DEF Directory, Files

LEMMA FilesOfBothKinds ==
    /\ NoFile \in Files /\ NoFile.keys = {} /\ NoFile.readable
    /\ Unreadable \in Files /\ Unreadable.keys = {} /\ ~Unreadable.readable
BY DEF NoFile, Unreadable, Files

\* Making a directory touches no file.
LEMMA MakeDirKeeps ==
    ASSUME disk \in [Jobs -> Directory], NEW j \in Jobs, MakeDir(j)
    PROVE  /\ disk' \in [Jobs -> Directory]
           /\ \A i \in Jobs : disk'[i].file = disk[i].file /\ (disk[i].dir => disk'[i].dir)
<1>1. disk' = [disk EXCEPT ![j] = [disk[j] EXCEPT !.dir = TRUE]]
    BY DEF MakeDir
<1> DEFINE made == [disk[j] EXCEPT !.dir = TRUE]
<1>2. made \in Directory /\ made.dir /\ made.file = disk[j].file
    BY DEF Directory
<1> HIDE DEF made
<1> QED
    BY <1>1, <1>2 DEF made

\* Removing a tree keeps its file or leaves none, whatever resists.
LEMMA RemovalKeepsOrForgets ==
    ASSUME disk \in [Jobs -> Directory], NEW j \in Jobs, RemoveTree(j)
    PROVE  /\ disk' \in [Jobs -> Directory]
           /\ \A i \in Jobs \ {j} : disk'[i] = disk[i]
           /\ disk'[j].file \in {disk[j].file, NoFile}
           /\ disk'[j].dir \/ disk'[j].file = NoFile
<1>1. CASE disk' = [disk EXCEPT ![j] = [dir |-> FALSE, file |-> NoFile]]
    <2>1. [dir |-> FALSE, file |-> NoFile] \in Directory
        BY FilesOfBothKinds DEF Directory
    <2> QED
        BY <1>1, <2>1
<1>2. ASSUME disk[j].dir, NEW f \in {disk[j].file, NoFile}, disk' = [disk EXCEPT ![j].file = f]
      PROVE  /\ disk' \in [Jobs -> Directory]
             /\ \A i \in Jobs \ {j} : disk'[i] = disk[i]
             /\ disk'[j].file = f /\ disk'[j].dir
    <2>1. f \in Files /\ disk' = [disk EXCEPT ![j] = [disk[j] EXCEPT !.file = f]]
        BY <1>2, FileUpdates, FilesOfBothKinds
    <2> QED
        BY <1>2, <2>1, FileUpdates
<1> QED
    BY <1>1, <1>2 DEF RemoveTree

\* A record is kept, or it is counted as lost; when the text of the file went with
\* it, so did the keys.
Recorded(j, k) ==
    /\ disk' \in [Jobs -> Directory] /\ amnesia' \in [Jobs -> Nat]
    /\ \A i \in Jobs \ {j} : disk'[i] = disk[i] /\ amnesia'[i] = amnesia[i]
    /\ \/ /\ disk[j].dir /\ disk'[j].dir /\ disk'[j].file.readable
          /\ disk'[j].file.keys = disk[j].file.keys \cup {k} /\ amnesia'[j] = amnesia[j]
       \/ disk'[j] = disk[j] /\ amnesia'[j] = amnesia[j] + 1
       \/ disk'[j].dir /\ disk'[j].file = Unreadable /\ amnesia'[j] = amnesia[j] + 1

LEMMA RecordKeptOrCounted ==
    ASSUME disk \in [Jobs -> Directory], amnesia \in [Jobs -> Nat],
           NEW j \in Jobs, NEW k \in Keys, RecordIdempotency(j, k)
    PROVE  Recorded(j, k)
<1>1. CASE /\ disk[j].dir /\ disk[j].file.readable /\ UNCHANGED amnesia
           /\ disk' = [disk EXCEPT ![j].file.keys = @ \cup {k}]
    <2>1. disk' = [disk EXCEPT ![j] = [disk[j] EXCEPT !.file.keys = @ \cup {k}]]
        BY <1>1
    <2> QED
        BY <1>1, <2>1, FileUpdates DEF Recorded
<1>2. CASE /\ disk[j].dir /\ disk' = [disk EXCEPT ![j].file = Unreadable]
           /\ amnesia' = [amnesia EXCEPT ![j] = @ + 1]
    <2>1. disk' = [disk EXCEPT ![j] = [disk[j] EXCEPT !.file = Unreadable]]
        BY <1>2
    <2> QED
        BY <1>2, <2>1, FileUpdates, FilesOfBothKinds DEF Recorded
<1>3. CASE UNCHANGED disk /\ amnesia' = [amnesia EXCEPT ![j] = @ + 1]
    BY <1>3 DEF Recorded
<1> QED
    BY <1>1, <1>2, <1>3 DEF RecordIdempotency

\* A step of job j that begins no post and claims no duplicate.
Moved(j) ==
    /\ \/ pc' = pc /\ call' = call
       \/ \E s \in Stages \ {"posting"} :
            /\ pc' = [pc EXCEPT ![j] = s]
            /\ call' = call \/ call' = [call EXCEPT ![j] = call'[j]]
    /\ \/ answer' = answer
       \/ answer'[j].error # Duplicate /\ answer' = [answer EXCEPT ![j] = answer'[j]]

Answered ==
    /\ call' = [j \in Jobs |-> call'[j]] /\ answer' = [j \in Jobs |-> answer'[j]]
    /\ \A j \in Jobs :
        /\ pc'[j] = "posting" => pc[j] = "posting" /\ call'[j] = call[j]
        /\ answer'[j].error = Duplicate => answer[j].error = Duplicate

LEMMA MovedAnswered ==
    ASSUME BoxInv, LedgerTypes, NEW j \in Jobs, Moved(j)
    PROVE  Answered
<1>1. /\ call' = [i \in Jobs |-> call'[i]]
      /\ \A i \in Jobs : pc'[i] = "posting" => pc[i] = "posting" /\ call'[i] = call[i]
    <2>1. CASE UNCHANGED <<pc, call>>
        BY <2>1 DEF LedgerTypes
    <2>2. ASSUME NEW s \in Stages \ {"posting"}, pc' = [pc EXCEPT ![j] = s],
                 call' = call \/ call' = [call EXCEPT ![j] = call'[j]]
          PROVE  <1>1
        BY <2>2 DEF LedgerTypes, BoxInv
    <2> QED
        BY <2>1, <2>2 DEF Moved
<1>2. /\ answer' = [i \in Jobs |-> answer'[i]]
      /\ \A i \in Jobs : answer'[i].error = Duplicate => answer[i].error = Duplicate
    BY DEF Moved, LedgerTypes
<1> QED
    BY <1>1, <1>2 DEF Answered

LEMMA Answers ==
    /\ Ok.error # Duplicate /\ NoAnswer.error # Duplicate
    /\ \A e : Err(e).error = e
<1>1. \A e : Err(e).error = e
    BY DEF Err
<1> QED
    BY <1>1 DEF Ok, NoAnswer, Duplicate

-----------------------------------------------------------------------------
(* Steps that post nothing                                                 *)

\* Every file is as it was, or it is gone and its loss is counted.
Remembered ==
    /\ disk' \in [Jobs -> Directory] /\ amnesia' \in [Jobs -> Nat]
    /\ \A j \in Jobs :
        /\ \/ disk'[j].file = disk[j].file /\ amnesia'[j] = amnesia[j]
           \/ disk'[j].file = NoFile /\ amnesia'[j] = amnesia[j] + 1
        /\ disk'[j].dir \/ disk'[j].file = NoFile

LEMMA DiskKept ==
    ASSUME LedgerInv, UNCHANGED amnesia,
           UNCHANGED disk \/ \E j \in Jobs : MakeDir(j)
    PROVE  Remembered
<1>1. CASE UNCHANGED disk
    BY <1>1 DEF LedgerInv, LedgerTypes, FileOk, Remembered
<1>2. ASSUME NEW j \in Jobs, MakeDir(j)
      PROVE  Remembered
    <2>1. disk \in [Jobs -> Directory] /\ \A i \in Jobs : ~disk[i].dir => disk[i].file = NoFile
        BY DEF LedgerInv, LedgerTypes, FileOk
    <2> QED
        BY <1>2, <2>1, MakeDirKeeps DEF LedgerInv, LedgerTypes, Remembered
<1> QED
    BY <1>1, <1>2

LEMMA QuietPosts ==
    ASSUME BoxInv, LedgerInv, Answered, Remembered, UNCHANGED <<bridge, posts, unheard>>
    PROVE  LedgerInv'
<1>1. LedgerTypes'
    BY DEF LedgerInv, LedgerTypes, Answered, Remembered
<1>2. ASSUME NEW j \in Jobs
      PROVE  FileOk(j)' /\ LedgerOk(j)'
    <2>1. /\ FileOk(j) /\ LedgerOk(j) /\ amnesia[j] \in Nat
          /\ \A k \in Keys : posts[j][k] \in Nat /\ unheard[j][k] \in Nat
        BY DEF LedgerInv, LedgerTypes
    <2>2. FileOk(j)'
        BY <2>1, FilesOfBothKinds DEF FileOk, Remembered
    <2>3. pc'[j] = "posting" => call'[j] \in Keys /\ call'[j] \notin disk'[j].file.keys
        BY <2>1, FilesOfBothKinds DEF LedgerOk, Remembered, Answered
    <2>4. ASSUME NEW k \in Keys
          PROVE  /\ unheard'[j][k] <= posts'[j][k]
                 /\ posts'[j][k] <= unheard'[j][k] + amnesia'[j]
                                    + (IF k \in disk'[j].file.keys THEN 1 ELSE 0)
                 /\ k \in disk'[j].file.keys => bridge' = "unset" \/ posts'[j][k] > unheard'[j][k]
        <3>1. CASE disk'[j].file = disk[j].file /\ amnesia'[j] = amnesia[j]
            BY <3>1, <2>1 DEF LedgerOk
        <3>2. CASE disk'[j].file = NoFile /\ amnesia'[j] = amnesia[j] + 1
            BY <3>2, <2>1, FilesOfBothKinds DEF LedgerOk
        <3> QED
            BY <3>1, <3>2 DEF Remembered
    <2>5. answer'[j].error = Duplicate =>
              bridge' = "unset" \/ \E k \in Keys : posts'[j][k] > unheard'[j][k]
        BY <2>1 DEF LedgerOk, Answered
    <2> QED
        BY <2>2, <2>3, <2>4, <2>5 DEF LedgerOk
<1> QED
    BY <1>1, <1>2 DEF LedgerInv

\* However a call begins, goes on or returns, it has moved.
LEMMA CallsMove ==
    ASSUME LedgerTypes, NEW j \in Jobs
    PROVE  /\ \A r : r.error # Duplicate /\ (Return(j, r) \/ Immediate(j, r)) => Moved(j)
           /\ \A s \in Stages \ {"posting"} : Goto(j, s) => Moved(j)
           /\ \A c, s : s \in Stages \ {"posting"} /\ Enter(j, c, s) => Moved(j)
<1>1. /\ \A f : answer' = [answer EXCEPT ![j] = f] => answer' = [answer EXCEPT ![j] = answer'[j]]
      /\ \A f : answer' = [answer EXCEPT ![j] = f] => answer'[j] = f
      /\ \A f : call' = [call EXCEPT ![j] = f] => call' = [call EXCEPT ![j] = call'[j]]
    BY DEF LedgerTypes
<1>2. ASSUME NEW r, r.error # Duplicate, Return(j, r) \/ Immediate(j, r)
      PROVE  Moved(j)
    BY <1>1, <1>2 DEF Return, Immediate, Moved, Stages
<1>3. ASSUME NEW s \in Stages \ {"posting"}, Goto(j, s)
      PROVE  Moved(j)
    <2>1. pc' = [pc EXCEPT ![j] = s] /\ call' = call /\ answer' = answer
        BY <1>3 DEF Goto
    <2>2. \E t \in Stages \ {"posting"} :
             /\ pc' = [pc EXCEPT ![j] = t]
             /\ call' = call \/ call' = [call EXCEPT ![j] = call'[j]]
        <3> WITNESS s \in Stages \ {"posting"}
        <3> QED
            BY <2>1
    <2> QED
        BY <2>1, <2>2 DEF Moved
<1>4. ASSUME NEW c, NEW s, s \in Stages \ {"posting"}, Enter(j, c, s)
      PROVE  Moved(j)
    BY <1>1, <1>4, Answers DEF Enter, Moved
<1> QED
    BY <1>2, <1>3, <1>4

LEMMA RegistryPosts ==
    ASSUME BoxInv, LedgerInv, UNCHANGED xeroVars, NEW j \in Jobs,
           StartAgent(j) \/ EndAgent(j) \/ CreateSandbox(j) \/ DestroySandbox(j)
    PROVE  LedgerInv'
<1>1. Answered
    <2>1. Moved(j)
        BY Answers DEF StartAgent, EndAgent, CreateSandbox, DestroySandbox, Route, Moved,
           LedgerInv, LedgerTypes
    <2> QED
        BY <2>1, MovedAnswered DEF LedgerInv
<1>2. Remembered
    <2>1. CASE StartAgent(j) \/ EndAgent(j) \/ CreateSandbox(j)
        BY <2>1, DiskKept DEF StartAgent, EndAgent, CreateSandbox, CreateWorkspace, sandboxVars
    <2>2. CASE DestroySandbox(j) /\ UNCHANGED <<disk, amnesia>>
        BY <2>2, DiskKept
    <2>3. CASE /\ RemoveTree(j)
               /\ amnesia' = [amnesia EXCEPT ![j] = IF disk'[j].file = disk[j].file THEN @ ELSE @ + 1]
        <3>1. disk \in [Jobs -> Directory] /\ amnesia \in [Jobs -> Nat]
              /\ \A i \in Jobs : disk[i].dir \/ disk[i].file = NoFile
            BY DEF LedgerInv, LedgerTypes, FileOk
        <3>2. /\ disk' \in [Jobs -> Directory]
              /\ \A i \in Jobs \ {j} : disk'[i] = disk[i]
              /\ disk'[j].file \in {disk[j].file, NoFile}
              /\ disk'[j].dir \/ disk'[j].file = NoFile
            BY <2>3, <3>1, RemovalKeepsOrForgets
        <3>3. /\ amnesia' \in [Jobs -> Nat] /\ \A i \in Jobs \ {j} : amnesia'[i] = amnesia[i]
              /\ disk'[j].file = disk[j].file => amnesia'[j] = amnesia[j]
              /\ disk'[j].file # disk[j].file => amnesia'[j] = amnesia[j] + 1
            BY <2>3, <3>1
        <3> QED
            BY <3>1, <3>2, <3>3 DEF Remembered
    <2> QED
        BY <2>1, <2>2, <2>3 DEF DestroySandbox
<1> QED
    BY <1>1, <1>2, QuietPosts DEF xeroVars

LEMMA CommandPosts ==
    ASSUME BoxInv, LedgerInv, UNCHANGED xeroVars, NEW j \in Jobs,
           \/ \E cmd \in Commands : ShellCall(j, cmd)
           \/ ReadCache(j) \/ EndProbe(j) \/ Decide(j) \/ Spawn(j)
           \/ CommandEnds(j) \/ CommandKilled(j)
    PROVE  LedgerInv'
<1>1. Moved(j)
    <2> USE DEF Stages, Duplicate
    <2>0. LedgerTypes
        BY DEF LedgerInv
    <2>1. CASE \E cmd \in Commands : ShellCall(j, cmd)
        BY <2>0, <2>1, CallsMove, Answers DEF ShellCall
    <2>2. CASE ReadCache(j) \/ EndProbe(j)
        BY <2>0, <2>2, CallsMove DEF ReadCache, EndProbe
    <2>3. CASE Decide(j)
        BY <2>0, <2>3, CallsMove, Answers DEF Decide
    <2>4. CASE Spawn(j)
        BY <2>0, <2>4, CallsMove, Answers DEF Spawn
    <2>5. CASE CommandEnds(j) \/ CommandKilled(j)
        BY <2>0, <2>5, CallsMove, Answers DEF CommandEnds, CommandKilled
    <2> QED
        BY <2>1, <2>2, <2>3, <2>4, <2>5
<1>2. Remembered
    BY DiskKept
    DEF ShellCall, ReadCache, EndProbe, Decide, Spawn, CommandEnds, CommandKilled, sandboxVars
<1> QED
    BY <1>1, <1>2, MovedAnswered, QuietPosts DEF LedgerInv, xeroVars

LEMMA CodePosts ==
    ASSUME BoxInv, LedgerInv, UNCHANGED xeroVars, NEW j \in Jobs,
           (\E code \in Codes : CodeCall(j, code)) \/ CodeEnds(j) \/ OrphansEnd(j)
    PROVE  LedgerInv'
<1>1. Moved(j)
    <2> USE DEF Stages, Duplicate
    <2>0. LedgerTypes
        BY DEF LedgerInv
    <2>1. CASE \E code \in Codes : CodeCall(j, code)
        BY <2>0, <2>1, CallsMove, Answers DEF CodeCall
    <2>2. CASE CodeEnds(j)
        BY <2>0, <2>2, CallsMove, Answers DEF CodeEnds
    <2>3. CASE OrphansEnd(j)
        BY <2>3 DEF OrphansEnd, Moved
    <2> QED
        BY <2>1, <2>2, <2>3
<1>2. Remembered
    BY DiskKept DEF CodeCall, CodeEnds, OrphansEnd
<1> QED
    BY <1>1, <1>2, MovedAnswered, QuietPosts DEF LedgerInv, xeroVars

-----------------------------------------------------------------------------
(* Steps of the Xero tool                                                  *)

\* What a post of job j does not touch stays in order.
LEMMA OthersPosts ==
    ASSUME LedgerInv, NEW i \in Jobs, UNCHANGED bridge,
           disk'[i] = disk[i], amnesia'[i] = amnesia[i],
           pc'[i] = pc[i], call'[i] = call[i],
           answer'[i] = answer[i] \/ answer'[i].error # Duplicate,
           posts'[i] = posts[i], unheard'[i] = unheard[i]
    PROVE  FileOk(i)' /\ LedgerOk(i)'
BY DEF LedgerInv, FileOk, LedgerOk

\* A call refused as a duplicate found its key in the file.
LEMMA DuplicateWasPosted ==
    ASSUME LedgerInv, NEW j \in Jobs, NEW op \in Asked, NEW run \in Runs, NEW form,
           Refusal(j, op, run, form) = Duplicate
    PROVE  bridge = "unset" \/ \E k \in Keys : posts[j][k] > unheard[j][k]
<1>1. CheckIdempotency(j, IdempotencyKey(op, run))
    BY DEF Refusal, Duplicate
<1>2. IdempotencyKey(op, run) \in Keys
    BY XeroKeys DEF IdempotencyKey
<1> QED
    BY <1>1, <1>2 DEF CheckIdempotency, LedgerInv, LedgerOk

LEMMA RefusedPosts ==
    ASSUME BoxInv, LedgerInv, UNCHANGED xeroVars, NEW j \in Jobs,
           NEW op \in Asked, NEW run \in Runs, NEW form,
           Immediate(j, Err(Refusal(j, op, run, form))), UNCHANGED <<disk, amnesia>>
    PROVE  LedgerInv'
<1> DEFINE refusal == Refusal(j, op, run, form)
<1>1. /\ pc' = pc /\ call' = call /\ disk' = disk /\ amnesia' = amnesia
      /\ bridge' = bridge /\ posts' = posts /\ unheard' = unheard
      /\ answer' = [answer EXCEPT ![j] = Err(refusal)]
    BY DEF Immediate, xeroVars
<1>2. refusal = Duplicate => bridge = "unset" \/ \E k \in Keys : posts[j][k] > unheard[j][k]
    BY DuplicateWasPosted
<1> HIDE DEF refusal
<1>3. LedgerTypes'
    BY <1>1 DEF LedgerInv, LedgerTypes
<1>4. answer'[j].error = refusal /\ \A i \in Jobs \ {j} : answer'[i] = answer[i]
    BY <1>1, Answers DEF LedgerInv, LedgerTypes
<1>5. ASSUME NEW i \in Jobs
      PROVE  FileOk(i)' /\ LedgerOk(i)'
    <2>1. FileOk(i) /\ LedgerOk(i)
        BY DEF LedgerInv
    <2> QED
        BY <1>1, <1>2, <1>4, <2>1 DEF FileOk, LedgerOk
<1> QED
    BY <1>3, <1>5 DEF LedgerInv

\* Without a bridge the record stands for a post that was only simulated.
LEMMA SimulatedPosts ==
    ASSUME BoxInv, LedgerInv, UNCHANGED xeroVars, bridge = "unset",
           NEW j \in Jobs, NEW k \in Keys,
           RecordIdempotency(j, k), Immediate(j, RecordAnswer(j))
    PROVE  LedgerInv'
<1>1. /\ pc' = pc /\ call' = call /\ pc[j] = "idle"
      /\ bridge' = bridge /\ posts' = posts /\ unheard' = unheard
      /\ answer' = [answer EXCEPT ![j] = RecordAnswer(j)]
    BY DEF Immediate, Begin, Idle, xeroVars
<1>2. Recorded(j, k)
    BY RecordKeptOrCounted DEF LedgerInv, LedgerTypes
<1>3. LedgerTypes'
    BY <1>1, <1>2 DEF LedgerInv, LedgerTypes, Recorded
<1>4. RecordAnswer(j).error # Duplicate
    BY Answers DEF RecordAnswer, Duplicate
<1>5. answer'[j].error # Duplicate /\ \A i \in Jobs \ {j} : answer'[i] = answer[i]
    BY <1>1, <1>4 DEF LedgerInv, LedgerTypes
<1>6. ASSUME NEW i \in Jobs \ {j}
      PROVE  FileOk(i)' /\ LedgerOk(i)'
    BY <1>1, <1>2, <1>5, <1>6, OthersPosts DEF Recorded
<1>7. FileOk(j)' /\ LedgerOk(j)'
    <2>1. /\ FileOk(j) /\ LedgerOk(j) /\ amnesia[j] \in Nat /\ disk[j].file \in Files
          /\ \A q \in Keys : posts[j][q] \in Nat /\ unheard[j][q] \in Nat
        BY FileUpdates DEF LedgerInv, LedgerTypes
    <2>2. FileOk(j)'
        BY <1>2, <2>1, FilesOfBothKinds DEF FileOk, Recorded
    <2>3. ASSUME NEW q \in Keys
          PROVE  /\ unheard'[j][q] <= posts'[j][q]
                 /\ posts'[j][q] <= unheard'[j][q] + amnesia'[j]
                                    + (IF q \in disk'[j].file.keys THEN 1 ELSE 0)
        BY <1>1, <1>2, <2>1, FilesOfBothKinds DEF LedgerOk, Recorded
    <2> QED
        BY <1>1, <1>5, <2>2, <2>3 DEF LedgerOk
<1> QED
    BY <1>3, <1>6, <1>7 DEF LedgerInv

\* A request starts only for a key that the file does not hold.
LEMMA RequestedPosts ==
    ASSUME BoxInv, LedgerInv, UNCHANGED xeroVars, UNCHANGED <<disk, amnesia>>,
           NEW j \in Jobs, NEW k \in Keys, ~CheckIdempotency(j, k), Enter(j, k, "posting")
    PROVE  LedgerInv'
<1>1. /\ disk' = disk /\ amnesia' = amnesia
      /\ bridge' = bridge /\ posts' = posts /\ unheard' = unheard
      /\ pc' = [pc EXCEPT ![j] = "posting"] /\ call' = [call EXCEPT ![j] = k]
      /\ answer' = [answer EXCEPT ![j] = NoAnswer]
    BY DEF Enter, xeroVars
<1>2. k \notin disk[j].file.keys
    BY FilesOfBothKinds DEF CheckIdempotency, LedgerInv, FileOk
<1>3. LedgerTypes'
    BY <1>1 DEF LedgerInv, LedgerTypes
<1>4. /\ call'[j] = k /\ answer'[j].error # Duplicate
      /\ \A i \in Jobs \ {j} : pc'[i] = pc[i] /\ call'[i] = call[i] /\ answer'[i] = answer[i]
    BY <1>1, Answers DEF LedgerInv, LedgerTypes, BoxInv
<1>5. ASSUME NEW i \in Jobs \ {j}
      PROVE  FileOk(i)' /\ LedgerOk(i)'
    BY <1>1, <1>4, OthersPosts
<1>6. FileOk(j)' /\ LedgerOk(j)'
    BY <1>1, <1>2, <1>4 DEF LedgerInv, FileOk, LedgerOk
<1> QED
    BY <1>3, <1>5, <1>6 DEF LedgerInv

LEMMA CalledPosts ==
    ASSUME BoxInv, LedgerInv, NEW j \in Jobs,
           NEW op \in Asked, NEW run \in Runs, NEW form, XeroCall(j, op, run, form)
    PROVE  LedgerInv'
<1>1. IdempotencyKey(op, run) \in Keys /\ UNCHANGED xeroVars
    BY XeroKeys DEF IdempotencyKey, XeroCall
<1>2. CASE Immediate(j, Err(Refusal(j, op, run, form))) /\ UNCHANGED <<disk, amnesia>>
    BY <1>1, <1>2, RefusedPosts
<1>3. CASE /\ bridge = "unset" /\ RecordIdempotency(j, IdempotencyKey(op, run))
           /\ Immediate(j, RecordAnswer(j))
    BY <1>1, <1>3, SimulatedPosts
<1>4. CASE /\ Refusal(j, op, run, form) = "none" /\ Enter(j, IdempotencyKey(op, run), "posting")
           /\ UNCHANGED <<disk, amnesia>>
    <2>1. ~CheckIdempotency(j, IdempotencyKey(op, run))
        BY <1>4 DEF Refusal
    <2> QED
        BY <1>1, <1>4, <2>1, RequestedPosts
<1> QED
    BY <1>2, <1>3, <1>4 DEF XeroCall

LEMMA AppliedCounts ==
    ASSUME LedgerInv, NEW j \in Jobs, pc[j] = "posting", Applied(j)
    PROVE  /\ posts' \in [Jobs -> [Keys -> Nat]]
           /\ \A i \in Jobs \ {j} : posts'[i] = posts[i]
           /\ \A k \in Keys : posts'[j][k] = posts[j][k] + (IF k = call[j] THEN 1 ELSE 0)
<1>1. call[j] \in Keys /\ posts \in [Jobs -> [Keys -> Nat]] /\ posts[j] \in [Keys -> Nat]
    BY DEF LedgerInv, LedgerTypes, LedgerOk
<1>2. posts' = [posts EXCEPT ![j] = [posts[j] EXCEPT ![call[j]] = @ + 1]]
    BY DEF Applied
<1>3. [posts[j] EXCEPT ![call[j]] = @ + 1] \in [Keys -> Nat]
    BY <1>1
<1> QED
    BY <1>1, <1>2, <1>3

\* The bridge applied the request; the record counts it, or its loss does.
LEMMA AcceptedPosts ==
    ASSUME BoxInv, LedgerInv, NEW j \in Jobs, PostAccepted(j)
    PROVE  LedgerInv'
<1>1. /\ bridge' = bridge /\ unheard' = unheard /\ pc[j] = "posting" /\ Applied(j)
      /\ pc' = [pc EXCEPT ![j] = "idle"] /\ call' = [call EXCEPT ![j] = NoCall]
      /\ answer' = [answer EXCEPT ![j] = RecordAnswer(j)]
    BY DEF PostAccepted, Return
<1>2. call[j] \in Keys /\ call[j] \notin disk[j].file.keys
    BY <1>1 DEF LedgerInv, LedgerOk
<1>3. Recorded(j, call[j])
    BY <1>2, RecordKeptOrCounted DEF PostAccepted, LedgerInv, LedgerTypes
<1>4. /\ posts' \in [Jobs -> [Keys -> Nat]] /\ \A i \in Jobs \ {j} : posts'[i] = posts[i]
      /\ \A k \in Keys : posts'[j][k] = posts[j][k] + (IF k = call[j] THEN 1 ELSE 0)
    BY <1>1, AppliedCounts
<1>5. LedgerTypes'
    BY <1>1, <1>3, <1>4 DEF LedgerInv, LedgerTypes, Recorded
<1>6. RecordAnswer(j).error # Duplicate
    BY Answers DEF RecordAnswer, Duplicate
<1>7. /\ answer'[j].error # Duplicate /\ pc'[j] = "idle"
      /\ \A i \in Jobs \ {j} : pc'[i] = pc[i] /\ call'[i] = call[i] /\ answer'[i] = answer[i]
    BY <1>1, <1>6 DEF LedgerInv, LedgerTypes, BoxInv
<1>8. ASSUME NEW i \in Jobs \ {j}
      PROVE  FileOk(i)' /\ LedgerOk(i)'
    BY <1>1, <1>3, <1>4, <1>7, <1>8, OthersPosts DEF Recorded
<1>9. FileOk(j)' /\ LedgerOk(j)'
    <2>1. /\ FileOk(j) /\ LedgerOk(j) /\ amnesia[j] \in Nat
          /\ \A k \in Keys : posts[j][k] \in Nat /\ unheard[j][k] \in Nat
        BY DEF LedgerInv, LedgerTypes
    <2>2. FileOk(j)'
        BY <1>3, <2>1, FilesOfBothKinds DEF FileOk, Recorded
    <2>3. ASSUME NEW k \in Keys
          PROVE  /\ unheard'[j][k] <= posts'[j][k]
                 /\ posts'[j][k] <= unheard'[j][k] + amnesia'[j]
                                    + (IF k \in disk'[j].file.keys THEN 1 ELSE 0)
                 /\ k \in disk'[j].file.keys => bridge' = "unset" \/ posts'[j][k] > unheard'[j][k]
        <3>1. /\ unheard[j][k] <= posts[j][k]
              /\ posts[j][k] <= unheard[j][k] + amnesia[j] + (IF k \in disk[j].file.keys THEN 1 ELSE 0)
              /\ k \in disk[j].file.keys => bridge = "unset" \/ posts[j][k] > unheard[j][k]
              /\ unheard'[j][k] = unheard[j][k]
            BY <1>1, <2>1 DEF LedgerOk
        <3>2. CASE /\ disk'[j].file.keys = disk[j].file.keys \cup {call[j]}
                   /\ amnesia'[j] = amnesia[j]
            BY <1>1, <1>2, <1>4, <2>1, <3>1, <3>2
        <3>3. CASE /\ disk'[j] = disk[j] \/ disk'[j].file = Unreadable
                   /\ amnesia'[j] = amnesia[j] + 1
            BY <1>1, <1>2, <1>4, <2>1, <3>1, <3>3, FilesOfBothKinds
        <3> QED
            BY <1>3, <3>2, <3>3 DEF Recorded
    <2> QED
        BY <1>7, <2>2, <2>3 DEF LedgerOk
<1> QED
    BY <1>5, <1>8, <1>9 DEF LedgerInv

\* The bridge applied the request and its answer is lost: both counts go up.
LEMMA LostPosts ==
    ASSUME BoxInv, LedgerInv, NEW j \in Jobs, PostUnheard(j) \/ PostRefused(j)
    PROVE  LedgerInv'
<1>1. /\ pc[j] = "posting" /\ bridge' = bridge /\ disk' = disk /\ amnesia' = amnesia
      /\ \E e \in {"tool_exception", "xero_bridge_error"} : Return(j, Err(e))
    BY DEF PostUnheard, PostRefused, sandboxVars, xeroVars
<1>2. Answered
    BY <1>1, Answers, CallsMove, MovedAnswered DEF LedgerInv, Duplicate
<1>3. CASE UNCHANGED <<posts, unheard>>
    BY <1>1, <1>2, <1>3, DiskKept, QuietPosts
<1>4. CASE Applied(j) /\ unheard' = [unheard EXCEPT ![j][call[j]] = @ + 1]
    <2>1. /\ posts' \in [Jobs -> [Keys -> Nat]] /\ \A i \in Jobs \ {j} : posts'[i] = posts[i]
          /\ \A k \in Keys : posts'[j][k] = posts[j][k] + (IF k = call[j] THEN 1 ELSE 0)
        BY <1>1, <1>4, AppliedCounts
    <2>2. /\ unheard' \in [Jobs -> [Keys -> Nat]] /\ \A i \in Jobs \ {j} : unheard'[i] = unheard[i]
          /\ \A k \in Keys : unheard'[j][k] = unheard[j][k] + (IF k = call[j] THEN 1 ELSE 0)
        <3>1. call[j] \in Keys /\ unheard \in [Jobs -> [Keys -> Nat]] /\ unheard[j] \in [Keys -> Nat]
            BY <1>1 DEF LedgerInv, LedgerTypes, LedgerOk
        <3>2. unheard' = [unheard EXCEPT ![j] = [unheard[j] EXCEPT ![call[j]] = @ + 1]]
            BY <1>4
        <3>3. [unheard[j] EXCEPT ![call[j]] = @ + 1] \in [Keys -> Nat]
            BY <3>1
        <3> QED
            BY <3>1, <3>2, <3>3
    <2>3. LedgerTypes'
        BY <1>1, <1>2, <2>1, <2>2 DEF LedgerInv, LedgerTypes, Answered
    <2>4. ASSUME NEW i \in Jobs
          PROVE  FileOk(i)' /\ LedgerOk(i)'
        <3>1. FileOk(i) /\ LedgerOk(i) /\ FileOk(i)' /\ amnesia[i] \in Nat
            BY <1>1 DEF LedgerInv, LedgerTypes, FileOk
        <3>2. ASSUME NEW k \in Keys
              PROVE  /\ posts[i][k] \in Nat /\ unheard[i][k] \in Nat
                     /\ \E n \in {0, 1} : /\ posts'[i][k] = posts[i][k] + n
                                          /\ unheard'[i][k] = unheard[i][k] + n
            <4>1. posts[i][k] \in Nat /\ unheard[i][k] \in Nat
                BY DEF LedgerInv, LedgerTypes
            <4>2. CASE i = j /\ k = call[j]
                BY <2>1, <2>2, <4>1, <4>2
            <4>3. CASE ~(i = j /\ k = call[j])
                <5>1. posts'[i][k] = posts[i][k] + 0 /\ unheard'[i][k] = unheard[i][k] + 0
                    BY <2>1, <2>2, <4>1, <4>3
                <5> QED
                    BY <4>1, <5>1
            <4> QED
                BY <4>2, <4>3
        <3> QED
            BY <1>1, <1>2, <3>1, <3>2 DEF LedgerOk, Answered
    <2> QED
        BY <2>3, <2>4 DEF LedgerInv
<1> QED
    BY <1>1, <1>3, <1>4 DEF PostUnheard, PostRefused, xeroVars

\* A crash loses the answers of the requests it lets through; the files stay.
LEMMA CrashPosts ==
    ASSUME BoxInv, LedgerInv, CrashXero
    PROVE  LedgerInv'
<1>1. /\ pc' = [j \in Jobs |-> "idle"] /\ call' = [j \in Jobs |-> NoCall]
      /\ answer' = [j \in Jobs |-> NoAnswer]
      /\ disk' = disk /\ amnesia' = amnesia /\ bridge' = bridge
    BY DEF CrashXero, CrashWorkspace
<1>2. PICK S \in SUBSET {j \in Jobs : pc[j] = "posting"} :
          LET hit(j, k) == IF j \in S /\ k = call[j] THEN 1 ELSE 0 IN
          /\ posts' = [j \in Jobs |-> [k \in Keys |-> posts[j][k] + hit(j, k)]]
          /\ unheard' = [j \in Jobs |-> [k \in Keys |-> unheard[j][k] + hit(j, k)]]
    BY DEF CrashXero
<1> DEFINE hit(j, k) == IF j \in S /\ k = call[j] THEN 1 ELSE 0
<1>3. /\ posts' = [j \in Jobs |-> [k \in Keys |-> posts[j][k] + hit(j, k)]]
      /\ unheard' = [j \in Jobs |-> [k \in Keys |-> unheard[j][k] + hit(j, k)]]
    BY <1>2
<1>4. \A j, k : hit(j, k) \in {0, 1}
    OBVIOUS
<1> HIDE DEF hit
<1>5. \A j \in Jobs, k \in Keys : posts[j][k] \in Nat /\ unheard[j][k] \in Nat
    BY DEF LedgerInv, LedgerTypes
<1>6. \A j \in Jobs, k \in Keys :
          /\ posts'[j][k] = posts[j][k] + hit(j, k)
          /\ unheard'[j][k] = unheard[j][k] + hit(j, k)
    BY <1>3
<1>7. posts' \in [Jobs -> [Keys -> Nat]] /\ unheard' \in [Jobs -> [Keys -> Nat]]
    <2>1. \A j \in Jobs, k \in Keys :
              posts[j][k] + hit(j, k) \in Nat /\ unheard[j][k] + hit(j, k) \in Nat
        BY <1>4, <1>5
    <2> QED
        BY <1>3, <2>1
<1>8. LedgerTypes'
    BY <1>1, <1>7 DEF LedgerInv, LedgerTypes
<1>9. ASSUME NEW j \in Jobs
      PROVE  FileOk(j)' /\ LedgerOk(j)'
    <2>1. FileOk(j) /\ LedgerOk(j) /\ amnesia[j] \in Nat
        BY DEF LedgerInv, LedgerTypes
    <2>2. FileOk(j)' /\ pc'[j] # "posting" /\ answer'[j].error # Duplicate
        BY <1>1, <2>1, Answers DEF FileOk
    <2> QED
        BY <1>1, <1>4, <1>5, <1>6, <2>1, <2>2 DEF LedgerOk
<1> QED
    BY <1>8, <1>9 DEF LedgerInv

-----------------------------------------------------------------------------

LEMMA LedgerInitially == InitXero => LedgerInv
<1> SUFFICES ASSUME InitXero
             PROVE  LedgerInv
    OBVIOUS
<1>1. [dir |-> FALSE, file |-> NoFile] \in Directory
    BY FilesOfBothKinds DEF Directory
<1>2. LedgerTypes
    BY <1>1 DEF InitXero, InitWorkspace, LedgerTypes
<1>3. ASSUME NEW j \in Jobs
      PROVE  FileOk(j) /\ LedgerOk(j)
    BY <1>3, FilesOfBothKinds, Answers DEF InitXero, InitWorkspace, FileOk, LedgerOk
<1> QED
    BY <1>2, <1>3 DEF LedgerInv

LEMMA LedgerInductive == BoxInv /\ LedgerInv /\ [Next]_vars => LedgerInv'
<1> SUFFICES ASSUME BoxInv, LedgerInv, [Next]_vars
             PROVE  LedgerInv'
    OBVIOUS
<1>1. ASSUME NEW j \in Jobs, WorkspaceStep(j), UNCHANGED xeroVars
      PROVE  LedgerInv'
    BY <1>1, RegistryPosts, CommandPosts, CodePosts DEF WorkspaceStep
<1>2. ASSUME NEW j \in Jobs, XeroStep(j)
      PROVE  LedgerInv'
    BY <1>2, CalledPosts, AcceptedPosts, LostPosts DEF XeroStep
<1>3. CASE UNCHANGED vars
    <2>1. Answered
        BY <1>3 DEF vars, Answered, LedgerInv, LedgerTypes
    <2> QED
        BY <1>3, <2>1, DiskKept, QuietPosts DEF vars, sandboxVars, xeroVars
<1> QED
    BY <1>1, <1>2, <1>3, CrashPosts DEF Next

\* For every number of jobs, keys, tool calls, sandbox requests and crashes: beyond
\* the first, each post of a key in a job is paid for by an answer that was lost or a
\* record that was lost, and a call refused as a duplicate was posted or simulated.
THEOREM PostsPaidFor == Spec => []PostsAccounted
<1>1. LedgerInv => PostsAccounted
    <2> SUFFICES ASSUME LedgerInv, NEW j \in Jobs
                 PROVE  /\ \A k \in Keys : posts[j][k] <= 1 + unheard[j][k] + amnesia[j]
                        /\ answer[j].error = Duplicate =>
                              bridge = "unset" \/ \E k \in Keys : posts[j][k] > unheard[j][k]
        BY DEF PostsAccounted, Duplicate
    <2>1. /\ LedgerOk(j) /\ amnesia[j] \in Nat
          /\ \A k \in Keys : posts[j][k] \in Nat /\ unheard[j][k] \in Nat
        BY DEF LedgerInv, LedgerTypes
    <2> QED
        BY <2>1 DEF LedgerOk
<1>2. InitXero => BoxInv /\ LedgerInv
    BY BoxInitially, LedgerInitially
<1>3. BoxInv /\ LedgerInv /\ [Next]_vars => (BoxInv /\ LedgerInv)'
    BY BoxInductive, LedgerInductive
<1> QED
    BY <1>1, <1>2, <1>3, PTL DEF Spec

-----------------------------------------------------------------------------
(* Places in a list                                                        *)

\* A list of whatever rows.
IsList(q) == \E n \in Nat : DOMAIN q = 1 .. n

\* The place of i among S, when the pairs L order S.
Rank(S, L, i) == Cardinality({j \in S : j = i \/ <<j, i>> \in L})

\* The pairs L put the members of S in a strict order, one before the other.
Orders(L, S) ==
    /\ \A i \in S : <<i, i>> \notin L
    /\ \A i, j \in S : i # j => <<i, j>> \in L \/ <<j, i>> \in L
    /\ \A i, j, k \in S : <<i, j>> \in L /\ <<j, k>> \in L => <<i, k>> \in L

\* Whoever is ahead has the smaller place.
LEMMA RankGrows ==
    ASSUME NEW S, IsFiniteSet(S), NEW L, Orders(L, S),
           NEW i \in S, NEW j \in S, <<j, i>> \in L
    PROVE  Rank(S, L, j) < Rank(S, L, i)
<1> DEFINE A == {k \in S : k = j \/ <<k, j>> \in L}
           B == {k \in S : k = i \/ <<k, i>> \in L}
<1>1. A \subseteq B /\ i \in B /\ i \notin A
  BY DEF Orders
<1>2. B \subseteq S
  OBVIOUS
<1> HIDE DEF A, B
<1>3. IsFiniteSet(B)
  BY <1>2, FS_Subset
<1>4. Cardinality(A) <= Cardinality(B) /\ (Cardinality(A) = Cardinality(B) => A = B)
      /\ Cardinality(A) \in Nat /\ Cardinality(B) \in Nat
  BY <1>1, <1>3, FS_Subset, FS_CardinalityType
<1>5. Cardinality(A) < Cardinality(B)
  BY <1>1, <1>4
<1>6. Rank(S, L, j) = Cardinality(A) /\ Rank(S, L, i) = Cardinality(B)
  BY DEF Rank, A, B
<1> QED
  BY <1>5, <1>6

\* A place is one of as many places as there are members.
LEMMA RankIn ==
    ASSUME NEW S, IsFiniteSet(S), NEW L, NEW i \in S
    PROVE  Rank(S, L, i) \in 1 .. Cardinality(S)
<1> DEFINE B == {k \in S : k = i \/ <<k, i>> \in L}
<1>1. B \subseteq S /\ i \in B
  OBVIOUS
<1> HIDE DEF B
<1>2. IsFiniteSet(B) /\ Cardinality(B) <= Cardinality(S)
      /\ Cardinality(B) \in Nat /\ Cardinality(S) \in Nat
  BY <1>1, FS_Subset, FS_CardinalityType
<1>3. Cardinality(B) # 0
  BY <1>1, <1>2, FS_EmptySet
<1> QED
  BY <1>2, <1>3 DEF Rank, B

\* Every place is somebody's: as many different places as members.
LEMMA RankTaken ==
    ASSUME NEW S, IsFiniteSet(S), NEW L, Orders(L, S), NEW n \in 1 .. Cardinality(S)
    PROVE  \E i \in S : Rank(S, L, i) = n
<1> DEFINE c == Cardinality(S)
           f == [i \in S |-> Rank(S, L, i)]
<1>1. c \in Nat /\ IsFiniteSet(1 .. c) /\ Cardinality(1 .. c) = c
  BY FS_CardinalityType, FS_Interval
<1>2. f \in Injection(S, 1 .. c)
  <2>1. f \in [S -> 1 .. c]
    BY RankIn
  <2>2. ASSUME NEW i \in S, NEW j \in S, f[i] = f[j], i # j
        PROVE  FALSE
    <3>1. Rank(S, L, i) \in 1 .. c /\ Rank(S, L, j) \in 1 .. c
      BY RankIn
    <3>2. <<i, j>> \in L \/ <<j, i>> \in L
      BY <2>2 DEF Orders
    <3>3. Rank(S, L, i) < Rank(S, L, j) \/ Rank(S, L, j) < Rank(S, L, i)
      BY <3>2, RankGrows
    <3> QED
      BY <1>1, <2>2, <3>1, <3>3
  <2> HIDE DEF f
  <2> QED
    BY <2>1, <2>2 DEF Injection, IsInjective
<1>3. f \in Surjection(S, 1 .. c)
  <2> HIDE DEF f, c
  <2>1. /\ Cardinality(S) <= Cardinality(1 .. c)
        /\ Cardinality(S) = Cardinality(1 .. c) <=> f \in Surjection(S, 1 .. c)
    BY <1>1, <1>2, FS_Injection, Zenon
  <2> QED
    BY <1>1, <2>1 DEF c
<1>4. \E i \in S : f[i] = n
  <2> HIDE DEF f
  <2> QED
    BY <1>3 DEF Surjection
<1> QED
  BY <1>4

\* The m-th member of a set of numbers.
Nth(S, m) == CHOOSE i \in S : Cardinality({j \in S : j = i \/ j < i}) = m

\* What Keep returns: the rows at the positions of S, each once.
LEMMA KeepIs ==
    ASSUME NEW table, IsList(table), NEW S \in SUBSET DOMAIN table
    PROVE  /\ Cardinality(S) \in Nat /\ IsList(Keep(table, S))
           /\ DOMAIN Keep(table, S) = 1 .. Cardinality(S)
           /\ \A m \in 1 .. Cardinality(S) :
                Nth(S, m) \in S /\ Keep(table, S)[m] = table[Nth(S, m)]
           /\ \A m, k \in 1 .. Cardinality(S) : Nth(S, m) = Nth(S, k) => m = k
           /\ \A p \in S : \E m \in 1 .. Cardinality(S) : Nth(S, m) = p
<1> DEFINE M == {p \in S \X S : p[1] < p[2]}
           Pos(i) == Cardinality({j \in S : j = i \/ j < i})
           At(m) == CHOOSE i \in S : Pos(i) = m
<1>1. IsFiniteSet(S) /\ Cardinality(S) \in Nat /\ S \subseteq Int
  <2>1. PICK n \in Nat : DOMAIN table = 1 .. n
    BY DEF IsList
  <2>2. S \subseteq 1 .. n /\ S \subseteq Int
    BY <2>1
  <2>3. IsFiniteSet(1 .. n)
    BY FS_Interval
  <2>4. IsFiniteSet(S)
    BY <2>2, <2>3, FS_Subset
  <2> QED
    BY <2>2, <2>4, FS_CardinalityType
<1>2. \A i, j \in S : <<j, i>> \in M <=> j < i
  OBVIOUS
<1>3. Orders(M, S)
  BY <1>1, <1>2 DEF Orders
<1>4. ASSUME NEW i \in S PROVE Rank(S, M, i) = Pos(i)
  <2>1. {j \in S : j = i \/ <<j, i>> \in M} = {j \in S : j = i \/ j < i}
    BY <1>2
  <2> QED
    BY <2>1 DEF Rank
<1> HIDE DEF M, Pos
<1>5. \A m \in 1 .. Cardinality(S) : At(m) \in S /\ Pos(At(m)) = m
  <2> SUFFICES ASSUME NEW m \in 1 .. Cardinality(S) PROVE \E i \in S : Pos(i) = m
    OBVIOUS
  <2>1. \E i \in S : Rank(S, M, i) = m
    BY <1>1, <1>3, RankTaken
  <2> QED
    BY <1>4, <2>1
<1>6. \A p \in S : Pos(p) \in 1 .. Cardinality(S)
  BY <1>1, <1>4, RankIn
<1>7. \A i, j \in S : Pos(i) = Pos(j) => i = j
  <2> SUFFICES ASSUME NEW i \in S, NEW j \in S, Pos(i) = Pos(j), i # j PROVE FALSE
    OBVIOUS
  <2>1. <<i, j>> \in M \/ <<j, i>> \in M
    BY <1>3 DEF Orders
  <2>2. Rank(S, M, i) < Rank(S, M, j) \/ Rank(S, M, j) < Rank(S, M, i)
    BY <1>1, <1>3, <2>1, RankGrows
  <2>3. Pos(i) < Pos(j) \/ Pos(j) < Pos(i)
    BY <1>4, <2>2
  <2> QED
    BY <1>6, <2>3
<1>8. \A m : Nth(S, m) = At(m)
  BY DEF Nth, Pos
<1>9. Keep(table, S) = [m \in 1 .. Cardinality(S) |-> table[At(m)]]
  BY DEF Keep, Listed, Pos
<1> HIDE DEF At
<1>10. \A p \in S : At(Pos(p)) = p
  BY <1>5, <1>6, <1>7
<1>11. IsList(Keep(table, S)) /\ DOMAIN Keep(table, S) = 1 .. Cardinality(S)
  BY <1>1, <1>9 DEF IsList
<1> QED
  BY <1>1, <1>5, <1>6, <1>8, <1>9, <1>10, <1>11

\* Min of two numbers, as the limits of a query use it.
LEMMA LeastOfTwo ==
    ASSUME NEW a \in Int, NEW b \in Int
    PROVE  Min({a, b}) = IF a <= b THEN a ELSE b
<1> DEFINE m == Min({a, b})
<1>1. \E x \in {a, b} : \A y \in {a, b} : x <= y
  OBVIOUS
<1>2. m \in {a, b} /\ \A y \in {a, b} : m <= y
  BY <1>1 DEF Min
<1> HIDE DEF m
<1>3. m = IF a <= b THEN a ELSE b
  BY <1>2
<1> QED
  BY <1>3 DEF m

-----------------------------------------------------------------------------
(* Reports: sums                                                           *)

\* The loop over the transactions, as the list of the values of its accumulator.
Statement == INSTANCE FoldFacts WITH Op <- AddTransaction, Base <- NoTransactions

\* A sum, as the function of the subsets of its domain that the library folds.
Partial(g, f, S) ==
    g = [s \in S |-> IF s = {} THEN 0 ELSE f[CHOOSE x \in s : TRUE] + g[s \ {CHOOSE x \in s : TRUE}]]

\* The sum is the value of one of those functions at the whole domain.
LEMMA SumIs ==
    ASSUME NEW f
    PROVE  SumOf(f) = (CHOOSE g : Partial(g, f, SUBSET DOMAIN f))[DOMAIN f]
BY Zenon DEF SumOf, MapThenSumSet, MapThenFoldSet, Partial

\* The subsets with at most n members.
Small(D, n) == {s \in SUBSET D : Cardinality(s) <= n}

\* Such a function exists: by induction on the size of the subsets it is defined for.
LEMMA PartialExists ==
    ASSUME NEW f, IsFiniteSet(DOMAIN f)
    PROVE  \E g : Partial(g, f, SUBSET DOMAIN f)
<1> DEFINE D == DOMAIN f
           Good == {n \in Nat : \E g : Partial(g, f, Small(D, n))}
<1>0. ASSUME NEW s \in SUBSET D
      PROVE  /\ IsFiniteSet(s) /\ Cardinality(s) \in Nat
             /\ s # {} => LET x == CHOOSE y \in s : TRUE IN x \in s /\ Cardinality(s \ {x}) = Cardinality(s) - 1
    <2>1. IsFiniteSet(s) /\ Cardinality(s) \in Nat
        BY FS_Subset, FS_CardinalityType
    <2>2. ASSUME s # {}
          PROVE  (CHOOSE y \in s : TRUE) \in s
        BY <2>2
    <2> QED
        BY <2>1, <2>2, FS_RemoveElement
<1>1. 0 \in Good
    <2>1. \A s \in Small(D, 0) : s = {}
        BY <1>0, FS_EmptySet DEF Small
    <2>2. Partial([s \in Small(D, 0) |-> 0], f, Small(D, 0))
        BY <2>1 DEF Partial
    <2> QED
        BY <2>2
<1>2. ASSUME NEW n \in Good
      PROVE  n + 1 \in Good
    <2>1. PICK g : Partial(g, f, Small(D, n))
        BY <1>2
    <2> DEFINE c(s) == CHOOSE y \in s : TRUE
               h == [s \in Small(D, n + 1) |-> IF s = {} THEN 0 ELSE f[c(s)] + g[s \ {c(s)}]]
    <2>2. ASSUME NEW s \in Small(D, n)
          PROVE  h[s] = g[s]
        <3>0. s \in SUBSET D /\ Cardinality(s) <= n
            BY DEF Small
        <3>2. Cardinality(s) \in Nat /\ n \in Nat
            BY <1>0, <3>0
        <3>3. Cardinality(s) <= n + 1
            BY <3>0, <3>2
        <3>1. s \in Small(D, n + 1) /\ s \in SUBSET D
            BY <3>0, <3>3 DEF Small
        <3> QED
            BY <2>1, <3>1 DEF Partial
    <2>3. ASSUME NEW s \in Small(D, n + 1), s # {}
          PROVE  s \ {c(s)} \in Small(D, n)
        <3>1. s \in SUBSET D /\ Cardinality(s) <= n + 1
            BY DEF Small
        <3>2. Cardinality(s \ {c(s)}) <= n /\ Cardinality(s) \in Nat
            BY <1>0, <3>1, <2>3
        <3> QED
            BY <3>1, <3>2 DEF Small
    <2>4. Partial(h, f, Small(D, n + 1))
        <3>1. ASSUME NEW s \in Small(D, n + 1)
              PROVE  h[s] = IF s = {} THEN 0 ELSE f[c(s)] + h[s \ {c(s)}]
            <4>1. CASE s = {}
                BY <4>1
            <4>2. CASE s # {}
                <5>1. h[s \ {c(s)}] = g[s \ {c(s)}]
                    BY <2>2, <2>3, <4>2
                <5> QED
                    BY <4>2, <5>1
            <4> QED
                BY <4>1, <4>2
        <3> DEFINE k == [s \in Small(D, n + 1) |-> IF s = {} THEN 0 ELSE f[c(s)] + h[s \ {c(s)}]]
        <3>2. h = k
            BY <3>1
        <3> HIDE DEF h
        <3> QED
            BY <3>2 DEF Partial
    <2> QED
        BY <2>4
<1>3. Good = Nat
    <2>1. Good \subseteq Nat
        OBVIOUS
    <2> HIDE DEF Good
    <2> QED
        BY <1>1, <1>2, <2>1, Statement!Induction
<1>4. Cardinality(D) \in Nat
    BY FS_CardinalityType
<1>5. PICK g : Partial(g, f, Small(D, Cardinality(D)))
    BY <1>3, <1>4
<1>6. Small(D, Cardinality(D)) = SUBSET D
    BY FS_Subset DEF Small
<1> QED
    BY <1>5, <1>6

\* Without one of its members, a finite set has one member less.
LEMMA Shrinks ==
    ASSUME NEW s, IsFiniteSet(s), NEW x \in s
    PROVE  /\ IsFiniteSet(s \ {x}) /\ Cardinality(s) \in Nat /\ Cardinality(s \ {x}) \in Nat
           /\ Cardinality(s \ {x}) = Cardinality(s) - 1
<1>1. IsFiniteSet(s \ {x})
    BY FS_Subset
<1> QED
    BY <1>1, FS_RemoveElement, FS_CardinalityType

\* Two such functions agree on the subsets where what they sum agrees.
LEMMA PartialUnique ==
    ASSUME NEW D, IsFiniteSet(D), NEW E \in SUBSET D, NEW f, NEW e,
           \A x \in E : e[x] = f[x],
           NEW g, NEW h, Partial(g, f, SUBSET D), Partial(h, e, SUBSET E)
    PROVE  \A s \in SUBSET E : h[s] = g[s]
<1> DEFINE Good == {n \in Nat : \A s \in SUBSET E : Cardinality(s) <= n => h[s] = g[s]}
<1>0. ASSUME NEW s \in SUBSET E
      PROVE  /\ IsFiniteSet(s) /\ Cardinality(s) \in Nat /\ s \in SUBSET D
             /\ s = {} => h[s] = g[s]
             /\ s # {} => \E x \in s : h[s] = f[x] + h[s \ {x}] /\ g[s] = f[x] + g[s \ {x}]
    <2>1. IsFiniteSet(s) /\ Cardinality(s) \in Nat
        BY FS_Subset, FS_CardinalityType
    <2>2. s \in SUBSET D
        OBVIOUS
    <2>3. /\ h[s] = IF s = {} THEN 0 ELSE e[CHOOSE x \in s : TRUE] + h[s \ {CHOOSE x \in s : TRUE}]
          /\ g[s] = IF s = {} THEN 0 ELSE f[CHOOSE x \in s : TRUE] + g[s \ {CHOOSE x \in s : TRUE}]
        BY <2>2 DEF Partial
    <2>4. ASSUME s # {}
          PROVE  (CHOOSE x \in s : TRUE) \in s
        BY <2>4
    <2> DEFINE c == CHOOSE x \in s : TRUE
    <2>5. s # {} => c \in s /\ c \in E
        BY <2>4
    <2>6. s # {} => h[s] = f[c] + h[s \ {c}] /\ g[s] = f[c] + g[s \ {c}]
        BY <2>3, <2>5
    <2> HIDE DEF c
    <2> QED
        BY <2>1, <2>2, <2>3, <2>5, <2>6
<1>1. 0 \in Good
    BY <1>0, FS_EmptySet
<1>2. ASSUME NEW n \in Good
      PROVE  n + 1 \in Good
    <2>1. ASSUME NEW s \in SUBSET E, Cardinality(s) <= n + 1, s # {}
          PROVE  h[s] = g[s]
        <3>1. PICK x \in s : h[s] = f[x] + h[s \ {x}] /\ g[s] = f[x] + g[s \ {x}]
            BY <1>0, <2>1
        <3>2. s \ {x} \in SUBSET E /\ Cardinality(s \ {x}) = Cardinality(s) - 1
            BY <1>0, Shrinks
        <3>4. Cardinality(s) \in Nat /\ n \in Nat
            BY <1>0, <1>2
        <3>3. Cardinality(s \ {x}) <= n
            BY <3>2, <3>4, <2>1
        <3> QED
            BY <1>2, <3>1, <3>2, <3>3
    <2> QED
        BY <1>0, <2>1
<1>3. Good = Nat
    <2>1. Good \subseteq Nat
        OBVIOUS
    <2> HIDE DEF Good
    <2> QED
        BY <1>1, <1>2, <2>1, Statement!Induction
<1> QED
    <2> SUFFICES ASSUME NEW s \in SUBSET E PROVE h[s] = g[s]
        OBVIOUS
    <2>1. Cardinality(s) \in Nat
        BY <1>0
    <2>2. Cardinality(s) \in Good
        BY <2>1, <1>3
    <2> QED
        BY <2>1, <2>2

\* Which member the sum takes first does not matter.
\* Whichever member is added first, the sum is the same: the order in which a loop or
\* a library adds a set of amounts up is of no importance.
LEMMA AnyFirst ==
    ASSUME NEW D, IsFiniteSet(D), NEW f \in [D -> Int], NEW g, Partial(g, f, SUBSET D)
    PROVE  /\ g[{}] = 0
           /\ \A s \in SUBSET D : g[s] \in Int /\ \A x \in s : g[s] = f[x] + g[s \ {x}]
<1> DEFINE Fits(s) == g[s] \in Int /\ \A x \in s : g[s] = f[x] + g[s \ {x}]
           Good == {n \in Nat : \A s \in SUBSET D : Cardinality(s) <= n => Fits(s)}
<1>0. ASSUME NEW s \in SUBSET D
      PROVE  /\ IsFiniteSet(s) /\ Cardinality(s) \in Nat
             /\ s = {} => g[s] = 0
             /\ s # {} => \E x \in s : g[s] = f[x] + g[s \ {x}]
    <2>1. IsFiniteSet(s) /\ Cardinality(s) \in Nat
        BY FS_Subset, FS_CardinalityType
    <2>3. g[s] = IF s = {} THEN 0 ELSE f[CHOOSE x \in s : TRUE] + g[s \ {CHOOSE x \in s : TRUE}]
        BY DEF Partial
    <2>4. ASSUME s # {}
          PROVE  (CHOOSE x \in s : TRUE) \in s
        BY <2>4
    <2> QED
        BY <2>1, <2>3, <2>4
<1>1. 0 \in Good
    <2>1. ASSUME NEW s \in SUBSET D, Cardinality(s) <= 0
          PROVE  s = {}
        BY <1>0, <2>1, FS_EmptySet
    <2> QED
        BY <1>0, <2>1
<1>2. ASSUME NEW n \in Good
      PROVE  n + 1 \in Good
    <2>1. ASSUME NEW s \in SUBSET D, Cardinality(s) <= n + 1, s # {}
          PROVE  Fits(s)
        <3>1. PICK c \in s : g[s] = f[c] + g[s \ {c}]
            BY <1>0, <2>1
        <3>2. ASSUME NEW x \in s
              PROVE  s \ {x} \in SUBSET D /\ Cardinality(s \ {x}) <= n /\ f[x] \in Int
            <4>1. Cardinality(s) \in Nat /\ n \in Nat /\ IsFiniteSet(s)
                BY <1>0, <1>2
            <4>2. Cardinality(s \ {x}) = Cardinality(s) - 1
                BY <4>1, Shrinks
            <4> QED
                BY <4>1, <4>2, <2>1
        <3>3. Fits(s \ {c})
            BY <1>2, <3>2
        <3>4. ASSUME NEW x \in s, x # c
              PROVE  g[s] = f[x] + g[s \ {x}]
            <4>1. Fits(s \ {x})
                BY <1>2, <3>2
            <4>2. x \in s \ {c} /\ c \in s \ {x} /\ (s \ {c}) \ {x} = (s \ {x}) \ {c}
                BY <3>4
            <4> DEFINE u == (s \ {x}) \ {c}
            <4>3. g[s \ {c}] = f[x] + g[u] /\ g[s \ {x}] = f[c] + g[u]
                BY <3>3, <4>1, <4>2
            <4>4. u \in SUBSET D /\ Cardinality(u) <= n
                <5>1. IsFiniteSet(s \ {x}) /\ Cardinality(s \ {x}) \in Nat
                    BY <1>0, <3>2
                <5>2. Cardinality(u) = Cardinality(s \ {x}) - 1 /\ n \in Nat
                    BY <5>1, <4>2, Shrinks, <1>2
                <5> QED
                    BY <5>1, <5>2, <3>2
            <4>5. g[u] \in Int /\ f[x] \in Int /\ f[c] \in Int
                BY <1>2, <4>4, <3>2
            <4> HIDE DEF u
            <4> QED
                BY <3>1, <4>3, <4>5
        <3>5. g[s] \in Int
            <4>1. f[c] \in Int /\ g[s \ {c}] \in Int
                BY <3>2, <3>3
            <4> QED
                BY <3>1, <4>1
        <3>6. ASSUME NEW x \in s PROVE g[s] = f[x] + g[s \ {x}]
            BY <3>1, <3>4
        <3> QED
            BY <3>5, <3>6
    <2> QED
        BY <1>0, <2>1
<1>3. Good = Nat
    <2>1. Good \subseteq Nat
        OBVIOUS
    <2> HIDE DEF Good
    <2> QED
        BY <1>1, <1>2, <2>1, Statement!Induction
<1>4. ASSUME NEW s \in SUBSET D PROVE Fits(s)
    <2>1. Cardinality(s) \in Nat
        BY <1>0
    <2>2. Cardinality(s) \in Good
        BY <2>1, <1>3
    <2> QED
        BY <2>1, <2>2
<1> QED
    BY <1>0, <1>4

\* A sum is one of its terms and the sum of the others.
LEMMA SumSplit ==
    ASSUME NEW D, IsFiniteSet(D), NEW f \in [D -> Int]
    PROVE  /\ SumOf(f) \in Int
           /\ D = {} => SumOf(f) = 0
           /\ \A x \in D : SumOf(f) = f[x] + SumOf([y \in D \ {x} |-> f[y]])
<1> DEFINE g == CHOOSE g : Partial(g, f, SUBSET D)
<1>1. Partial(g, f, SUBSET D) /\ SumOf(f) = g[D]
    BY SumIs, PartialExists
<1> HIDE DEF g
<1>2. /\ g[{}] = 0
      /\ \A s \in SUBSET D : g[s] \in Int /\ \A x \in s : g[s] = f[x] + g[s \ {x}]
    BY <1>1, AnyFirst
<1>3. ASSUME NEW x \in D
      PROVE  SumOf([y \in D \ {x} |-> f[y]]) = g[D \ {x}]
    <2> DEFINE E == D \ {x}
               e == [y \in E |-> f[y]]
               h == CHOOSE h : Partial(h, e, SUBSET E)
    <2>1. E \in SUBSET D /\ DOMAIN e = E /\ IsFiniteSet(E) /\ \A y \in E : e[y] = f[y]
        BY FS_Subset
    <2> HIDE DEF E, e
    <2>2. Partial(h, e, SUBSET E) /\ SumOf(e) = h[E]
        BY <2>1, SumIs, PartialExists
    <2> HIDE DEF h
    <2>3. h[E] = g[E]
        BY <1>1, <2>1, <2>2, PartialUnique
    <2> QED
        BY <2>2, <2>3 DEF e, E
<1> QED
    BY <1>1, <1>2, <1>3

\* A sum of zeros.
LEMMA SumZero ==
    ASSUME NEW D, IsFiniteSet(D)
    PROVE  SumOf([y \in D |-> 0]) = 0
<1> DEFINE Good == {n \in Nat : \A E \in SUBSET D : Cardinality(E) = n => SumOf([y \in E |-> 0]) = 0}
<1>0. ASSUME NEW E \in SUBSET D
      PROVE  /\ IsFiniteSet(E) /\ Cardinality(E) \in Nat
             /\ E = {} => SumOf([y \in E |-> 0]) = 0
             /\ \A x \in E : SumOf([y \in E |-> 0]) = 0 + SumOf([y \in E \ {x} |-> 0])
    <2>1. IsFiniteSet(E) /\ Cardinality(E) \in Nat
        BY FS_Subset, FS_CardinalityType
    <2> DEFINE f == [y \in E |-> 0]
    <2>2. f \in [E -> Int]
        OBVIOUS
    <2>3. \A x \in E : f[x] = 0 /\ [y \in E \ {x} |-> f[y]] = [y \in E \ {x} |-> 0]
        OBVIOUS
    <2> HIDE DEF f
    <2>4. /\ E = {} => SumOf(f) = 0
          /\ \A x \in E : SumOf(f) = f[x] + SumOf([y \in E \ {x} |-> f[y]])
        BY <2>1, <2>2, SumSplit
    <2>5. \A x \in E : SumOf(f) = 0 + SumOf([y \in E \ {x} |-> 0])
        BY <2>3, <2>4
    <2> QED
        BY <2>1, <2>4, <2>5 DEF f
<1>1. 0 \in Good
    <2>1. \A E \in SUBSET D : Cardinality(E) = 0 => E = {}
        BY <1>0, FS_EmptySet
    <2> QED
        BY <1>0, <2>1
<1>2. ASSUME NEW n \in Good
      PROVE  n + 1 \in Good
    <2>1. ASSUME NEW E \in SUBSET D, Cardinality(E) = n + 1
          PROVE  SumOf([y \in E |-> 0]) = 0
        <3>1. E # {}
            BY <2>1, FS_EmptySet, <1>2
        <3>2. PICK x \in E : TRUE
            BY <3>1
        <3>3. E \ {x} \in SUBSET D /\ Cardinality(E \ {x}) = n
            <4>1. n \in Nat /\ IsFiniteSet(E)
                BY <1>0, <1>2
            <4>2. Cardinality(E \ {x}) = Cardinality(E) - 1
                BY <4>1, Shrinks
            <4> QED
                BY <4>1, <4>2, <2>1
        <3>4. SumOf([y \in E \ {x} |-> 0]) = 0
            BY <1>2, <3>3
        <3> QED
            BY <1>0, <3>4
    <2>2. n + 1 \in Nat
        BY <1>2
    <2> QED
        BY <2>1, <2>2
<1>3. Good = Nat
    <2>1. Good \subseteq Nat
        OBVIOUS
    <2> HIDE DEF Good
    <2> QED
        BY <1>1, <1>2, <2>1, Statement!Induction
<1> QED
    BY <1>0, <1>3

\* When one term grows by v, so does the sum.
LEMMA SumChange ==
    ASSUME NEW D, IsFiniteSet(D), NEW f \in [D -> Int], NEW g \in [D -> Int], NEW x \in D, NEW v \in Int,
           \A y \in D : g[y] = IF y = x THEN f[y] + v ELSE f[y]
    PROVE  SumOf(g) = SumOf(f) + v
<1> DEFINE e == [y \in D \ {x} |-> f[y]]
           Rest == SumOf(e)
<1>1. g[x] = f[x] + v /\ f[x] \in Int
    OBVIOUS
<1>2. [y \in D \ {x} |-> g[y]] = e
    OBVIOUS
<1>3. SumOf(f) = f[x] + Rest
    BY SumSplit
<1>4. SumOf(g) = g[x] + Rest
    <2>1. SumOf(g) = g[x] + SumOf([y \in D \ {x} |-> g[y]])
        BY SumSplit
    <2> QED
        BY <1>2, <2>1
<1>5. Rest \in Int
    <2>1. e \in [D \ {x} -> Int]
        OBVIOUS
    <2>2. IsFiniteSet(D \ {x})
        BY FS_Subset
    <2> HIDE DEF e
    <2> QED
        BY <2>1, <2>2, SumSplit
<1> HIDE DEF Rest
<1> QED
    BY <1>1, <1>3, <1>4, <1>5

\* The sum of the first k members of a list.
LEMMA SumTo ==
    ASSUME NEW n \in Nat, NEW v \in [1 .. n -> Int]
    PROVE  /\ SumOf([i \in 1 .. 0 |-> v[i]]) = 0
           /\ \A k \in 0 .. n : SumOf([i \in 1 .. k |-> v[i]]) \in Int
           /\ \A k \in 1 .. n :
                 SumOf([i \in 1 .. k |-> v[i]]) = SumOf([i \in 1 .. (k - 1) |-> v[i]]) + v[k]
<1>1. ASSUME NEW k \in 0 .. n
      PROVE  /\ SumOf([i \in 1 .. k |-> v[i]]) \in Int
             /\ k = 0 => SumOf([i \in 1 .. k |-> v[i]]) = 0
             /\ k > 0 => SumOf([i \in 1 .. k |-> v[i]]) = v[k] + SumOf([i \in 1 .. (k - 1) |-> v[i]])
    <2> DEFINE f == [i \in 1 .. k |-> v[i]]
    <2>1. f \in [1 .. k -> Int] /\ IsFiniteSet(1 .. k)
        BY FS_Interval
    <2>2. k > 0 => k \in 1 .. k /\ f[k] = v[k] /\ (1 .. k) \ {k} = 1 .. (k - 1)
        OBVIOUS
    <2>3. k > 0 => [i \in (1 .. k) \ {k} |-> f[i]] = [i \in 1 .. (k - 1) |-> v[i]]
        BY <2>2
    <2>4. k = 0 => 1 .. k = {}
        OBVIOUS
    <2> HIDE DEF f
    <2>5. /\ SumOf(f) \in Int /\ (k = 0 => SumOf(f) = 0)
          /\ k > 0 => SumOf(f) = f[k] + SumOf([i \in (1 .. k) \ {k} |-> f[i]])
        <3> DEFINE S == 1 .. k
        <3>1. k > 0 => k \in S
            BY <2>2
        <3>2. k = 0 => S = {}
            BY <2>4
        <3>3. f \in [S -> Int] /\ IsFiniteSet(S)
            BY <2>1
        <3> HIDE DEF S
        <3>4. /\ SumOf(f) \in Int /\ (S = {} => SumOf(f) = 0)
              /\ \A x \in S : SumOf(f) = f[x] + SumOf([y \in S \ {x} |-> f[y]])
            BY <3>3, SumSplit
        <3>5. /\ SumOf(f) \in Int /\ (k = 0 => SumOf(f) = 0)
              /\ k > 0 => SumOf(f) = f[k] + SumOf([i \in S \ {k} |-> f[i]])
            BY <3>1, <3>2, <3>4
        <3> QED
            BY <3>5 DEF S
    <2>6. k > 0 => SumOf(f) = v[k] + SumOf([i \in 1 .. (k - 1) |-> v[i]])
        BY <2>2, <2>3, <2>5
    <2> QED
        BY <2>5, <2>6 DEF f
<1>2. \A k \in 0 .. n : SumOf([i \in 1 .. k |-> v[i]]) \in Int
    BY <1>1
<1>3. ASSUME NEW k \in 1 .. n
      PROVE  SumOf([i \in 1 .. k |-> v[i]]) = SumOf([i \in 1 .. (k - 1) |-> v[i]]) + v[k]
    <2>1. k \in 0 .. n /\ k - 1 \in 0 .. n /\ k > 0 /\ v[k] \in Int
        OBVIOUS
    <2>2. /\ SumOf([i \in 1 .. k |-> v[i]]) = v[k] + SumOf([i \in 1 .. (k - 1) |-> v[i]])
          /\ SumOf([i \in 1 .. (k - 1) |-> v[i]]) \in Int
        BY <1>1, <1>2, <2>1
    <2> QED
        BY <2>1, <2>2
<1>4. SumOf([i \in 1 .. 0 |-> v[i]]) = 0
    <2>1. 0 \in 0 .. n
        OBVIOUS
    <2> QED
        BY <1>1, <2>1
<1> QED
    BY <1>2, <1>3, <1>4

-----------------------------------------------------------------------------
(* Reports: integer arithmetic                                             *)

\* Quotient and remainder.
LEMMA DivMod ==
    ASSUME NEW n \in Int, NEW d \in Nat, d > 0
    PROVE  n \div d \in Int /\ n % d \in 0 .. (d - 1) /\ n = d * (n \div d) + (n % d)
<1>1. n \div d \in Int /\ n % d \in 0 .. (d - 1)
    OBVIOUS
<1>2. n = d * (n \div d) + (n % d)
    OBVIOUS
<1> QED
    BY <1>1, <1>2, Zenon

\* The first of twelve parts of a yearly amount is a twelfth, rounded up.
LEMMA Twelfth ==
    ASSUME NEW a \in Nat
    PROVE  Allocate(a, 12)[1] \in Nat /\ 12 * Allocate(a, 12)[1] - a \in 0 .. 11
BY DEF Allocate

\* DivideHalfEven rounds to the nearest, half to even.
LEMMA Nearest ==
    ASSUME NEW n \in Int, NEW d \in Nat, d > 0
    PROVE  DivideHalfEven(n, d) \in Int /\ NearestEven(DivideHalfEven(n, d), n, d)
<1> DEFINE q == n \div d
           m == n % d
<1>1. q \in Int /\ m \in 0 .. (d - 1) /\ n = d * q + m
    BY DivMod
<1>2. DivideHalfEven(n, d) = IF 2 * m > d \/ (2 * m = d /\ q % 2 = 1) THEN q + 1 ELSE q
    BY DEF DivideHalfEven
<1> HIDE DEF q, m
<1> DEFINE p == d * q
<1>3. p \in Int /\ q * d = p /\ (q + 1) * d = p + d
    BY <1>1
<1> HIDE DEF p
<1>4. n = p + m
    BY <1>1 DEF p
<1>5. CASE 2 * m > d \/ (2 * m = d /\ q % 2 = 1)
    <2>1. DivideHalfEven(n, d) = q + 1
        BY <1>2, <1>5
    <2>2. 2 * ((q + 1) * d - n) = 2 * (d - m)
        BY <1>1, <1>3, <1>4
    <2>3. 2 * (d - m) <= d /\ -(2 * (d - m)) < d /\ (2 * (d - m) = d => (q + 1) % 2 = 0)
        BY <1>1, <1>5
    <2> QED
        BY <1>1, <2>1, <2>2, <2>3 DEF NearestEven
<1>6. CASE ~(2 * m > d \/ (2 * m = d /\ q % 2 = 1))
    <2>1. DivideHalfEven(n, d) = q
        BY <1>2, <1>6
    <2>2. 2 * (q * d - n) = -2 * m
        BY <1>1, <1>3, <1>4
    <2>3. 2 * m <= d /\ (2 * m = d => q % 2 = 0)
        BY <1>1, <1>6
    <2> QED
        BY <1>1, <2>1, <2>2, <2>3 DEF NearestEven
<1> QED
    BY <1>5, <1>6

\* A share of a whole is between nothing and all of it, in basis points.
LEMMA ShareOfAll ==
    ASSUME NEW a \in Nat, NEW b \in Nat
    PROVE  BasisPoints(a, b + a) \in Int /\ 0 <= BasisPoints(a, b + a) /\ BasisPoints(a, b + a) <= 10000
<1> DEFINE d == b + a
           n == a * 10000
           q == DivideHalfEven(n, d)
<1>1. ASSUME d = 0 PROVE q \in 0 .. 10000
    BY <1>1 DEF DivideHalfEven
<1>2. ASSUME d > 0 PROVE q \in 0 .. 10000
    <2>1. n \in Nat /\ d \in Nat /\ n <= 10000 * d
        OBVIOUS
    <2> HIDE DEF d, n
    <2>2. q \in Int /\ NearestEven(q, n, d)
        BY <1>2, <2>1, Nearest
    <2> HIDE DEF q
    <2>3. 2 * (q * d - n) <= d /\ -(2 * (q * d - n)) <= d
        BY <2>2 DEF NearestEven
    <2> DEFINE p == q * d
    <2>4. p \in Int /\ 2 * p - 2 * n <= d /\ 2 * n - 2 * p <= d
        BY <2>1, <2>2, <2>3
    <2>5. q >= 10001 => p >= 10001 * d
        BY <1>2, <2>1, <2>2
    <2>6. q <= -1 => p <= -d
        BY <1>2, <2>1, <2>2
    <2> HIDE DEF p
    <2>7. ~(q >= 10001) /\ ~(q <= -1)
        BY <1>2, <2>1, <2>4, <2>5, <2>6
    <2> QED
        BY <2>2, <2>7
<1>3. d = 0 \/ d > 0
    OBVIOUS
<1>4. q \in 0 .. 10000
    <2> HIDE DEF q, d
    <2> QED
        BY <1>1, <1>2, <1>3
<1> DEFINE w == BasisPoints(a, b + a)
<1>5. w = q
    BY DEF BasisPoints
<1> HIDE DEF q, w
<1>6. w \in Int /\ 0 <= w /\ w <= 10000
    BY <1>4, <1>5
<1> QED
    BY <1>6 DEF w

-----------------------------------------------------------------------------
(* Reports: the loop over the transactions                                 *)

\* The totals of the loop.
Totals(acc) ==
    /\ DOMAIN acc = {"income", "expenses", "months", "by_category", "monthly_income",
                     "monthly_expenses", "items"}
    /\ acc.income \in Int /\ acc.expenses \in Int
    /\ acc.months \in SUBSET Months /\ acc.by_category \in [Categories -> Int]
    /\ acc.monthly_income \in [Months -> Int] /\ acc.monthly_expenses \in [Months -> Int]
    /\ acc.items \in Seq(Int)

\* A transaction that passed validation.
GoodTransaction(t) ==
    /\ t.form = "good" /\ t.type \in {"income", "expense", "transfer"}
    /\ t.type \in {"income", "expense"} => t.month \in Months /\ t.amount \in Nat
    /\ t.type = "expense" => t.category \in Categories

\* The effect of an income and of an expense on the totals.
IncomeEffect(acc, next, t) ==
    /\ Totals(next)
    /\ next.income = acc.income + t.amount
    /\ next.expenses = acc.expenses /\ next.by_category = acc.by_category
    /\ next.months = acc.months \cup {t.month}
    /\ next.monthly_income = [acc.monthly_income EXCEPT ![t.month] = @ + t.amount]
    /\ next.monthly_expenses = acc.monthly_expenses
    /\ next.items = acc.items

ExpenseEffect(acc, next, t) ==
    /\ Totals(next)
    /\ next.expenses = acc.expenses + t.amount
    /\ next.income = acc.income
    /\ next.by_category = [acc.by_category EXCEPT ![t.category] = @ + t.amount]
    /\ next.months = acc.months \cup {t.month}
    /\ next.monthly_expenses = [acc.monthly_expenses EXCEPT ![t.month] = @ + t.amount]
    /\ next.monthly_income = acc.monthly_income
    /\ next.items = Append(acc.items, t.amount)

\* The profit of each month, and of some months together.
NetOf(acc) == [m \in Months |-> acc.monthly_income[m] - acc.monthly_expenses[m]]
Over(f, S) == SumOf([m \in S |-> f[m]])

\* AddTransaction on an income: the fields it changes, and those it leaves alone.
LEMMA IncomeAdded ==
    ASSUME NEW acc, Totals(acc), NEW t, GoodTransaction(t), t.type = "income"
    PROVE  IncomeEffect(acc, AddTransaction(acc, t), t)
<1> DEFINE next == AddTransaction(acc, t)
<1>1. t.month \in Months /\ t.amount \in Nat
    BY DEF GoodTransaction
<1>2. next = [acc EXCEPT !.income = @ + t.amount,
                         !.monthly_income[t.month] = @ + t.amount,
                         !.months = @ \cup {t.month}]
    BY DEF AddTransaction
<1>3. /\ next.income = acc.income + t.amount
      /\ next.expenses = acc.expenses /\ next.by_category = acc.by_category
      /\ next.months = acc.months \cup {t.month}
      /\ next.monthly_income = [acc.monthly_income EXCEPT ![t.month] = @ + t.amount]
      /\ next.monthly_expenses = acc.monthly_expenses
      /\ next.items = acc.items
    BY <1>2 DEF Totals
<1>4. Totals(next)
    <2>1. DOMAIN next = DOMAIN acc
        BY <1>2
    <2> HIDE DEF next
    <2> QED
        BY <1>1, <1>3, <2>1 DEF Totals
<1> QED
    BY <1>3, <1>4 DEF IncomeEffect

\* AddTransaction on an expense.
LEMMA ExpenseAdded ==
    ASSUME NEW acc, Totals(acc), NEW t, GoodTransaction(t), t.type = "expense"
    PROVE  ExpenseEffect(acc, AddTransaction(acc, t), t)
<1> DEFINE next == AddTransaction(acc, t)
<1>1. t.month \in Months /\ t.amount \in Nat /\ t.category \in Categories
    BY DEF GoodTransaction
<1>2. next = [acc EXCEPT !.expenses = @ + t.amount,
                         !.monthly_expenses[t.month] = @ + t.amount,
                         !.by_category[t.category] = @ + t.amount,
                         !.months = @ \cup {t.month},
                         !.items = Append(@, t.amount)]
    BY DEF AddTransaction
<1>3. /\ next.expenses = acc.expenses + t.amount
      /\ next.income = acc.income
      /\ next.by_category = [acc.by_category EXCEPT ![t.category] = @ + t.amount]
      /\ next.months = acc.months \cup {t.month}
      /\ next.monthly_expenses = [acc.monthly_expenses EXCEPT ![t.month] = @ + t.amount]
      /\ next.monthly_income = acc.monthly_income
      /\ next.items = Append(acc.items, t.amount)
    BY <1>2 DEF Totals
<1>4. Totals(next)
    <2>1. Append(acc.items, t.amount) \in Seq(Int)
        BY <1>1 DEF Totals
    <2>2. DOMAIN next = DOMAIN acc
        BY <1>2
    <2> HIDE DEF next
    <2> QED
        <3>1. /\ next.monthly_expenses \in [Months -> Int] /\ next.by_category \in [Categories -> Int]
              /\ next.monthly_income \in [Months -> Int] /\ next.months \in SUBSET Months
            BY <1>1, <1>3 DEF Totals
        <3>2. next.income \in Int /\ next.expenses \in Int /\ next.items \in Seq(Int)
            BY <1>1, <1>3, <2>1 DEF Totals
        <3>3. DOMAIN next = {"income", "expenses", "months", "by_category", "monthly_income",
                             "monthly_expenses", "items"}
            BY <2>2 DEF Totals
        <3> QED
            BY <3>1, <3>2, <3>3 DEF Totals
<1> QED
    BY <1>3, <1>4 DEF ExpenseEffect

\* A month gains an amount: the months together gain it too.
LEMMA MonthGains ==
    ASSUME NEW S \in SUBSET Months, NEW f \in [Months -> Int], NEW g \in [Months -> Int],
           NEW m \in Months, NEW v \in Int, m \notin S => f[m] = 0,
           \A y \in Months : g[y] = IF y = m THEN f[y] + v ELSE f[y]
    PROVE  Over(g, S \cup {m}) = Over(f, S) + v
<1> DEFINE D == S \cup {m}
           e == [x \in S |-> f[x]]
           h == [x \in D |-> g[x]]
<1>0. IsFiniteSet(S) /\ IsFiniteSet(D)
    BY ReportBounds, FS_Subset
<1>1. ASSUME m \in S
      PROVE  SumOf(h) = SumOf(e) + v
    <2>1. D = S
        BY <1>1
    <2>2. e \in [S -> Int] /\ h \in [S -> Int] /\ \A y \in S : h[y] = IF y = m THEN e[y] + v ELSE e[y]
        BY <2>1
    <2> HIDE DEF e, h
    <2> QED
        BY <1>0, <1>1, <2>2, SumChange
<1>2. ASSUME m \notin S
      PROVE  SumOf(h) = SumOf(e) + v
    <2>1. h \in [D -> Int] /\ h[m] = v /\ e \in [S -> Int]
        BY <1>2
    <2>2. [y \in D \ {m} |-> h[y]] = e
        BY <1>2
    <2>3. m \in D
        OBVIOUS
    <2> HIDE DEF e, h, D
    <2>4. SumOf(h) = h[m] + SumOf([y \in D \ {m} |-> h[y]])
        <3>1. IsFiniteSet(D)
            BY <1>0 DEF D
        <3>2. \A w \in [D -> Int] : SumOf(w) = w[m] + SumOf([y \in D \ {m} |-> w[y]])
            BY <2>3, <3>1, SumSplit
        <3> QED
            BY <2>1, <3>2
    <2>5. SumOf(e) \in Int
        BY <1>0, <2>1, SumSplit
    <2>6. SumOf(h) = h[m] + SumOf(e)
        BY <2>2, <2>4
    <2>7. h[m] = v
        BY <2>1
    <2> QED
        BY <2>5, <2>6, <2>7
<1>3. Over(g, D) = SumOf(h) /\ Over(f, S) = SumOf(e)
    BY DEF Over
<1> HIDE DEF e, h
<1> QED
    BY <1>1, <1>2, <1>3

\* What each transaction earns and what it costs.
Earned(txs) == [i \in DOMAIN txs |-> IF txs[i].type = "income" THEN txs[i].amount ELSE 0]
Spent(txs) == [i \in DOMAIN txs |-> IF txs[i].type = "expense" THEN txs[i].amount ELSE 0]

\* The totals of the first k transactions.
EarnedTo(txs, k) == SumOf([i \in 1 .. k |-> Earned(txs)[i]])
SpentTo(txs, k) == SumOf([i \in 1 .. k |-> Spent(txs)[i]])

\* The expenses among the first k transactions, and those above an amount.
Costs(txs, k) == {i \in 1 .. k : txs[i].type = "expense"}
Above(txs, k, a) == {i \in Costs(txs, k) : txs[i].amount > a}
Larger(items, a) == {j \in DOMAIN items : items[j] > a}

\* What the totals say of the first k transactions.
StatementOk(acc, k, txs) ==
    /\ Totals(acc)
    /\ acc.income = EarnedTo(txs, k)
    /\ acc.expenses = SpentTo(txs, k)
    /\ SumOf(acc.by_category) = acc.expenses
    /\ \A m \in Months \ acc.months : acc.monthly_income[m] = 0 /\ acc.monthly_expenses[m] = 0
    /\ Over(NetOf(acc), acc.months) = acc.income - acc.expenses
    /\ Len(acc.items) = Cardinality(Costs(txs, k))
    /\ \A a \in Int : Cardinality(Larger(acc.items, a)) = Cardinality(Above(txs, k, a))

\* A list of n transactions that passed validation.
GoodStatement(txs, n) ==
    /\ n \in Nat /\ DOMAIN txs = 1 .. n /\ \A i \in 1 .. n : GoodTransaction(txs[i])

\* The expenses among the first k transactions are those among the first k - 1, and
\* the k-th if it is one.
LEMMA OneMoreCost ==
    ASSUME NEW n, NEW txs, GoodStatement(txs, n), NEW k \in 1 .. n
    PROVE  /\ txs[k].type # "expense" =>
                 Costs(txs, k) = Costs(txs, k - 1)
                 /\ \A a \in Int : Above(txs, k, a) = Above(txs, k - 1, a)
           /\ txs[k].type = "expense" =>
                 /\ Cardinality(Costs(txs, k)) = Cardinality(Costs(txs, k - 1)) + 1
                 /\ \A a \in Int : Cardinality(Above(txs, k, a)) =
                       Cardinality(Above(txs, k - 1, a)) + (IF txs[k].amount > a THEN 1 ELSE 0)
<1>0. k \in Nat /\ k - 1 \in Nat /\ 1 .. k = (1 .. (k - 1)) \cup {k} /\ k \notin 1 .. (k - 1)
    BY DEF GoodStatement
<1>1. ASSUME txs[k].type # "expense"
      PROVE  Costs(txs, k) = Costs(txs, k - 1)
    BY <1>0, <1>1 DEF Costs
<1>2. ASSUME txs[k].type = "expense"
      PROVE  Costs(txs, k) = Costs(txs, k - 1) \cup {k} /\ k \notin Costs(txs, k - 1)
    BY <1>0, <1>2 DEF Costs
<1>3. IsFiniteSet(Costs(txs, k - 1)) /\ Cardinality(Costs(txs, k - 1)) \in Nat
    <2>1. IsFiniteSet(1 .. (k - 1)) /\ Costs(txs, k - 1) \subseteq 1 .. (k - 1)
        BY <1>0, FS_Interval DEF Costs
    <2> QED
        BY <2>1, FS_Subset, FS_CardinalityType
<1>4. ASSUME NEW a \in Int, txs[k].type = "expense"
      PROVE  Cardinality(Above(txs, k, a)) =
                Cardinality(Above(txs, k - 1, a)) + (IF txs[k].amount > a THEN 1 ELSE 0)
    <2>1. Above(txs, k, a) = Above(txs, k - 1, a) \cup (IF txs[k].amount > a THEN {k} ELSE {})
          /\ k \notin Above(txs, k - 1, a)
        BY <1>2, <1>4 DEF Above
    <2>2. IsFiniteSet(Above(txs, k - 1, a))
        <3>1. Above(txs, k - 1, a) \subseteq Costs(txs, k - 1)
            BY DEF Above
        <3> QED
            BY <1>3, <3>1, FS_Subset
    <2>3. Cardinality(Above(txs, k - 1, a)) \in Nat
        BY <2>2, FS_CardinalityType
    <2>4. CASE txs[k].amount > a
        BY <2>1, <2>2, <2>4, FS_AddElement
    <2>5. CASE ~(txs[k].amount > a)
        <3>1. Above(txs, k, a) = Above(txs, k - 1, a)
            BY <2>1, <2>5
        <3> QED
            BY <3>1, <2>3, <2>5
    <2> QED
        BY <2>4, <2>5
<1>5. ASSUME txs[k].type = "expense"
      PROVE  Cardinality(Costs(txs, k)) = Cardinality(Costs(txs, k - 1)) + 1
    BY <1>2, <1>3, <1>5, FS_AddElement
<1>6. ASSUME txs[k].type # "expense", NEW a \in Int
      PROVE  Above(txs, k, a) = Above(txs, k - 1, a)
    BY <1>1, <1>6 DEF Above
<1> QED
    BY <1>1, <1>4, <1>5, <1>6

\* An amount appended to the items is larger than a or not.
LEMMA LargerAppend ==
    ASSUME NEW items \in Seq(Int), NEW x \in Int, NEW a \in Int
    PROVE  Cardinality(Larger(Append(items, x), a))
              = Cardinality(Larger(items, a)) + (IF x > a THEN 1 ELSE 0)
<1> DEFINE n == Len(items)
           q == Append(items, x)
<1>1. n \in Nat /\ DOMAIN items = 1 .. n /\ DOMAIN q = 1 .. (n + 1) /\ q[n + 1] = x
      /\ \A j \in 1 .. n : q[j] = items[j]
    OBVIOUS
<1> HIDE DEF q, n
<1>2. 1 .. (n + 1) = (1 .. n) \cup {n + 1} /\ n + 1 \notin 1 .. n
    BY <1>1
<1>3. Larger(q, a) = Larger(items, a) \cup (IF x > a THEN {n + 1} ELSE {}) /\ n + 1 \notin Larger(items, a)
    BY <1>1, <1>2 DEF Larger
<1>4. IsFiniteSet(Larger(items, a)) /\ Cardinality(Larger(items, a)) \in Nat
    <2>1. IsFiniteSet(1 .. n) /\ Larger(items, a) \subseteq 1 .. n
        BY <1>1, FS_Interval DEF Larger
    <2> QED
        BY <2>1, FS_Subset, FS_CardinalityType
<1>5. CASE x > a
    <2>1. Larger(q, a) = Larger(items, a) \cup {n + 1}
        BY <1>3, <1>5
    <2>2. Cardinality(Larger(q, a)) = Cardinality(Larger(items, a)) + 1
        BY <1>3, <1>4, <2>1, FS_AddElement
    <2> QED
        BY <1>5, <2>2 DEF q
<1>6. CASE ~(x > a)
    <2>1. Larger(q, a) = Larger(items, a)
        BY <1>3, <1>6
    <2> QED
        BY <1>4, <1>6, <2>1 DEF q
<1> QED
    BY <1>5, <1>6

\* What one transaction adds to the sums of the first ones.
LEMMA SumsGrow ==
    ASSUME NEW n, NEW txs, GoodStatement(txs, n), NEW k \in 1 .. n
    PROVE  /\ EarnedTo(txs, k)
                 = EarnedTo(txs, k - 1) + (IF txs[k].type = "income" THEN txs[k].amount ELSE 0)
           /\ SpentTo(txs, k)
                 = SpentTo(txs, k - 1) + (IF txs[k].type = "expense" THEN txs[k].amount ELSE 0)
<1>1. n \in Nat /\ DOMAIN txs = 1 .. n
    BY DEF GoodStatement
<1>2. Earned(txs) \in [1 .. n -> Int] /\ Spent(txs) \in [1 .. n -> Int]
    BY DEF Earned, Spent, GoodStatement, GoodTransaction
<1>3. /\ Earned(txs)[k] = IF txs[k].type = "income" THEN txs[k].amount ELSE 0
      /\ Spent(txs)[k] = IF txs[k].type = "expense" THEN txs[k].amount ELSE 0
    BY <1>1 DEF Earned, Spent
<1>4. \A v \in [1 .. n -> Int] :
         SumOf([i \in 1 .. k |-> v[i]]) = SumOf([i \in 1 .. (k - 1) |-> v[i]]) + v[k]
    BY <1>1, SumTo
<1> QED
    BY <1>2, <1>3, <1>4 DEF EarnedTo, SpentTo

\* An income keeps the invariant of the loop.
LEMMA IncomeStep ==
    ASSUME NEW n, NEW txs, GoodStatement(txs, n), NEW k \in 1 .. n,
           NEW acc, StatementOk(acc, k - 1, txs), txs[k].type = "income"
    PROVE  StatementOk(AddTransaction(acc, txs[k]), k, txs)
<1> DEFINE next == AddTransaction(acc, txs[k])
           m == txs[k].month
           v == txs[k].amount
<1>1. m \in Months /\ v \in Int /\ GoodTransaction(txs[k])
    BY DEF GoodStatement, GoodTransaction
<1>2. Totals(acc)
    BY DEF StatementOk
<1>0. IncomeEffect(acc, next, txs[k])
    BY <1>1, <1>2, IncomeAdded
<1> HIDE DEF next
<1>3. /\ Totals(next)
      /\ next.income = acc.income + v
      /\ next.expenses = acc.expenses /\ next.by_category = acc.by_category
      /\ next.months = acc.months \cup {m}
      /\ next.monthly_income = [acc.monthly_income EXCEPT ![m] = @ + v]
      /\ next.monthly_expenses = acc.monthly_expenses
      /\ next.items = acc.items
    BY <1>0 DEF IncomeEffect
<1>4. next.income = EarnedTo(txs, k) /\ next.expenses = SpentTo(txs, k)
    <2>1. EarnedTo(txs, k) = acc.income + v /\ SpentTo(txs, k) = acc.expenses + 0
        BY SumsGrow DEF StatementOk
    <2> QED
        BY <1>2, <1>3, <2>1 DEF Totals
<1>5. SumOf(next.by_category) = next.expenses
    BY <1>3 DEF StatementOk
<1>6. \A x \in Months \ next.months : next.monthly_income[x] = 0 /\ next.monthly_expenses[x] = 0
    BY <1>1, <1>2, <1>3 DEF StatementOk, Totals
<1> HIDE DEF m, v
<1>7. Over(NetOf(next), next.months) = next.income - next.expenses
    <2> DEFINE f == NetOf(acc)
               g == NetOf(next)
    <2>1. /\ acc.months \in SUBSET Months /\ f \in [Months -> Int] /\ g \in [Months -> Int]
          /\ \A y \in Months : g[y] = IF y = m THEN f[y] + v ELSE f[y]
        BY <1>1, <1>2, <1>3 DEF Totals, NetOf
    <2>2. m \notin acc.months => f[m] = 0
        BY <1>1, <1>2 DEF StatementOk, Totals, NetOf
    <2> HIDE DEF f, g
    <2>4. Over(g, acc.months \cup {m}) = Over(f, acc.months) + v
        <3> DEFINE S == acc.months
        <3>1. S \in SUBSET Months /\ (m \notin S => f[m] = 0)
            BY <2>1, <2>2
        <3> HIDE DEF S
        <3>2. Over(g, S \cup {m}) = Over(f, S) + v
            BY <1>1, <2>1, <3>1, MonthGains
        <3> QED
            BY <3>2 DEF S
    <2>5. Over(f, acc.months) = acc.income - acc.expenses
        BY DEF StatementOk, f
    <2>6. Over(g, next.months) = next.income - next.expenses
        BY <1>1, <1>2, <1>3, <2>4, <2>5 DEF Totals
    <2> QED
        BY <2>6 DEF g
<1>8. Len(next.items) = Cardinality(Costs(txs, k))
    BY <1>3, OneMoreCost DEF StatementOk
<1>9. \A a \in Int : Cardinality(Larger(next.items, a)) = Cardinality(Above(txs, k, a))
    BY <1>3, OneMoreCost DEF StatementOk
<1>10. StatementOk(next, k, txs)
    BY <1>3, <1>4, <1>5, <1>6, <1>7, <1>8, <1>9 DEF StatementOk
<1> QED
    BY <1>10 DEF next

\* An expense keeps it: its month loses what the profit loses.
LEMMA ExpenseStep ==
    ASSUME NEW n, NEW txs, GoodStatement(txs, n), NEW k \in 1 .. n,
           NEW acc, StatementOk(acc, k - 1, txs), txs[k].type = "expense"
    PROVE  StatementOk(AddTransaction(acc, txs[k]), k, txs)
<1> DEFINE next == AddTransaction(acc, txs[k])
           m == txs[k].month
           c == txs[k].category
           v == txs[k].amount
<1>1. m \in Months /\ v \in Int /\ c \in Categories /\ GoodTransaction(txs[k])
    BY DEF GoodStatement, GoodTransaction
<1>2. Totals(acc)
    BY DEF StatementOk
<1>0. ExpenseEffect(acc, next, txs[k])
    BY <1>1, <1>2, ExpenseAdded
<1> HIDE DEF next
<1>3. /\ Totals(next)
      /\ next.expenses = acc.expenses + v
      /\ next.income = acc.income
      /\ next.by_category = [acc.by_category EXCEPT ![c] = @ + v]
      /\ next.months = acc.months \cup {m}
      /\ next.monthly_expenses = [acc.monthly_expenses EXCEPT ![m] = @ + v]
      /\ next.monthly_income = acc.monthly_income
      /\ next.items = Append(acc.items, v)
    BY <1>0 DEF ExpenseEffect
<1>4. next.income = EarnedTo(txs, k) /\ next.expenses = SpentTo(txs, k)
    <2>1. EarnedTo(txs, k) = acc.income + 0 /\ SpentTo(txs, k) = acc.expenses + v
        BY SumsGrow DEF StatementOk
    <2> QED
        BY <1>2, <1>3, <2>1 DEF Totals
<1>6. \A x \in Months \ next.months : next.monthly_income[x] = 0 /\ next.monthly_expenses[x] = 0
    BY <1>1, <1>2, <1>3 DEF StatementOk, Totals
<1> HIDE DEF m, c, v
<1>5. SumOf(next.by_category) = next.expenses
    <2> DEFINE f == acc.by_category
               g == next.by_category
    <2>1. /\ f \in [Categories -> Int] /\ g \in [Categories -> Int] /\ IsFiniteSet(Categories)
          /\ \A y \in Categories : g[y] = IF y = c THEN f[y] + v ELSE f[y]
        BY <1>1, <1>2, <1>3, ReportBounds DEF Totals
    <2>2. SumOf(f) = acc.expenses
        BY DEF StatementOk
    <2> HIDE DEF f, g
    <2>3. SumOf(g) = SumOf(f) + v
        BY <1>1, <2>1, SumChange
    <2> QED
        BY <1>3, <2>2, <2>3 DEF g
<1>7. Over(NetOf(next), next.months) = next.income - next.expenses
    <2> DEFINE f == NetOf(acc)
               g == NetOf(next)
               w == -v
    <2>1. /\ acc.months \in SUBSET Months /\ f \in [Months -> Int] /\ g \in [Months -> Int]
          /\ w \in Int
          /\ \A y \in Months : g[y] = IF y = m THEN f[y] + w ELSE f[y]
        <3>1. /\ acc.months \in SUBSET Months /\ f \in [Months -> Int] /\ g \in [Months -> Int]
              /\ w \in Int
            <4>1. acc.months \in SUBSET Months /\ w \in Int
                BY <1>1, <1>2 DEF Totals
            <4>2. f \in [Months -> Int]
                BY <1>2 DEF Totals, NetOf
            <4>3. g \in [Months -> Int]
                BY <1>3 DEF Totals, NetOf
            <4> QED
                BY <4>1, <4>2, <4>3
        <3>2. ASSUME NEW y \in Months
              PROVE  g[y] = IF y = m THEN f[y] + w ELSE f[y]
            <4>1. /\ acc.monthly_income[y] \in Int /\ acc.monthly_expenses[y] \in Int
                  /\ next.monthly_expenses[y] = acc.monthly_expenses[y] + (IF y = m THEN v ELSE 0)
                BY <1>1, <1>2, <1>3 DEF Totals
            <4>2. /\ g[y] = next.monthly_income[y] - next.monthly_expenses[y]
                  /\ f[y] = acc.monthly_income[y] - acc.monthly_expenses[y]
                BY DEF NetOf
            <4> QED
                BY <1>1, <1>3, <4>1, <4>2
        <3> QED
            BY <3>1, <3>2
    <2>2. m \notin acc.months => f[m] = 0
        BY <1>1, <1>2 DEF StatementOk, Totals, NetOf
    <2> HIDE DEF f, g
    <2>4. Over(g, acc.months \cup {m}) = Over(f, acc.months) + w
        <3> DEFINE S == acc.months
        <3>1. S \in SUBSET Months /\ (m \notin S => f[m] = 0)
            BY <2>1, <2>2
        <3> HIDE DEF S, w
        <3>2. Over(g, S \cup {m}) = Over(f, S) + w
            BY <1>1, <2>1, <3>1, MonthGains
        <3> QED
            BY <3>2 DEF S
    <2>5. Over(f, acc.months) = acc.income - acc.expenses
        BY DEF StatementOk, f
    <2>6. Over(g, next.months) = next.income - next.expenses
        BY <1>1, <1>2, <1>3, <2>4, <2>5 DEF Totals
    <2> QED
        BY <2>6 DEF g
<1>8. Len(next.items) = Cardinality(Costs(txs, k))
    <2>1. acc.items \in Seq(Int) /\ Len(next.items) = Len(acc.items) + 1
        BY <1>1, <1>2, <1>3 DEF Totals
    <2>2. Len(acc.items) = Cardinality(Costs(txs, k - 1))
        BY DEF StatementOk
    <2> QED
        BY <2>1, <2>2, OneMoreCost
<1>9. ASSUME NEW a \in Int
      PROVE  Cardinality(Larger(next.items, a)) = Cardinality(Above(txs, k, a))
    <2>1. acc.items \in Seq(Int)
        BY <1>2 DEF Totals
    <2>2. Cardinality(Larger(Append(acc.items, v), a))
             = Cardinality(Larger(acc.items, a)) + (IF v > a THEN 1 ELSE 0)
        BY <1>1, <2>1, LargerAppend
    <2>3. Cardinality(Larger(acc.items, a)) = Cardinality(Above(txs, k - 1, a))
        BY DEF StatementOk
    <2> QED
        BY <1>3, <2>2, <2>3, OneMoreCost DEF v
<1>10. StatementOk(next, k, txs)
    BY <1>3, <1>4, <1>5, <1>6, <1>7, <1>8, <1>9 DEF StatementOk
<1> QED
    BY <1>10 DEF next

\* It holds before the first transaction.
LEMMA StatementStart ==
    ASSUME NEW n, NEW txs, GoodStatement(txs, n)
    PROVE  StatementOk(NoTransactions, 0, txs)
<1>1. Totals(NoTransactions)
    BY DEF Totals, NoTransactions
<1>2. NoTransactions.income = 0 /\ NoTransactions.expenses = 0 /\ NoTransactions.months = {}
      /\ NoTransactions.by_category = [c \in Categories |-> 0] /\ NoTransactions.items = <<>>
      /\ \A m \in Months : NoTransactions.monthly_income[m] = 0 /\ NoTransactions.monthly_expenses[m] = 0
    BY DEF NoTransactions
<1>3. EarnedTo(txs, 0) = 0 /\ SpentTo(txs, 0) = 0
    <2>1. n \in Nat /\ Earned(txs) \in [1 .. n -> Int] /\ Spent(txs) \in [1 .. n -> Int]
        BY DEF Earned, Spent, GoodStatement, GoodTransaction
    <2>2. \A v \in [1 .. n -> Int] : SumOf([i \in 1 .. 0 |-> v[i]]) = 0
        BY <2>1, SumTo
    <2> QED
        BY <2>1, <2>2 DEF EarnedTo, SpentTo
<1>4. SumOf(NoTransactions.by_category) = 0
    BY <1>2, SumZero, ReportBounds
<1>5. Over(NetOf(NoTransactions), {}) = 0
    <2> DEFINE f == [m \in {} |-> NetOf(NoTransactions)[m]]
    <2>1. f \in [{} -> Int]
        OBVIOUS
    <2> HIDE DEF f
    <2>2. SumOf(f) = 0
        BY <2>1, SumSplit, FS_EmptySet
    <2> QED
        BY <2>2 DEF f, Over
<1>6. Costs(txs, 0) = {} /\ \A a \in Int : Above(txs, 0, a) = {} /\ Larger(<<>>, a) = {}
    BY DEF Costs, Above, Larger
<1>7. Cardinality({}) = 0
    BY FS_EmptySet
<1>8. Len(<<>>) = 0 /\ 0 - 0 = 0
    OBVIOUS
<1> DEFINE acc == NoTransactions
<1> HIDE DEF acc
<1>9. /\ acc.income = EarnedTo(txs, 0) /\ acc.expenses = SpentTo(txs, 0)
      /\ SumOf(acc.by_category) = acc.expenses
      /\ \A m \in Months \ acc.months : acc.monthly_income[m] = 0 /\ acc.monthly_expenses[m] = 0
    BY <1>2, <1>3, <1>4 DEF acc
<1>10. Over(NetOf(acc), acc.months) = acc.income - acc.expenses
    BY <1>2, <1>5, <1>8 DEF acc
<1>11. /\ Len(acc.items) = Cardinality(Costs(txs, 0))
       /\ \A a \in Int : Cardinality(Larger(acc.items, a)) = Cardinality(Above(txs, 0, a))
    BY <1>2, <1>6, <1>7, <1>8 DEF acc
<1>12. Totals(acc)
    BY <1>1 DEF acc
<1>13. StatementOk(acc, 0, txs)
    BY <1>9, <1>10, <1>11, <1>12 DEF StatementOk
<1> QED
    BY <1>13 DEF acc

\* A transfer counts for nothing.
LEMMA TransferStep ==
    ASSUME NEW n, NEW txs, GoodStatement(txs, n), NEW k \in 1 .. n,
           NEW acc, StatementOk(acc, k - 1, txs), txs[k].type = "transfer"
    PROVE  StatementOk(AddTransaction(acc, txs[k]), k, txs)
<1>1. AddTransaction(acc, txs[k]) = acc
    BY DEF AddTransaction
<1>2. EarnedTo(txs, k) = acc.income + 0 /\ SpentTo(txs, k) = acc.expenses + 0
    BY SumsGrow DEF StatementOk
<1>3. acc.income \in Int /\ acc.expenses \in Int
    BY DEF StatementOk, Totals
<1>4. EarnedTo(txs, k) = acc.income /\ SpentTo(txs, k) = acc.expenses
    BY <1>2, <1>3
<1>5. Costs(txs, k) = Costs(txs, k - 1) /\ \A a \in Int : Above(txs, k, a) = Above(txs, k - 1, a)
    BY OneMoreCost
<1>6. StatementOk(acc, k, txs)
    BY <1>4, <1>5 DEF StatementOk
<1> QED
    BY <1>1, <1>6

\* It holds after the last one.
LEMMA StatementLoop ==
    ASSUME NEW n, NEW txs, GoodStatement(txs, n)
    PROVE  StatementOk(FoldLeft(AddTransaction, NoTransactions, txs), n, txs)
<1>1. n \in Nat /\ DOMAIN txs = 1 .. n
    BY DEF GoodStatement
<1>0. PICK f : Statement!Trace(f, txs, n)
    BY <1>1, Statement!FoldTrace
<1>2. /\ f[0] = NoTransactions
      /\ f[n] = Statement!FoldLeft(AddTransaction, NoTransactions, txs)
      /\ \A k \in 1 .. n : f[k] = AddTransaction(f[k - 1], txs[k])
    BY <1>0 DEF Statement!Trace
<1>3. f[n] = FoldLeft(AddTransaction, NoTransactions, txs)
    <2>1. FoldLeft(AddTransaction, NoTransactions, txs)
             = Statement!FoldLeft(AddTransaction, NoTransactions, txs)
        BY Zenon DEF FoldLeft, Statement!FoldLeft, MapThenFoldSet, Statement!MapThenFoldSet,
                     Max, Statement!Max
    <2> QED
        BY <1>2, <2>1
<1> DEFINE Good == {m \in Nat : m <= n => StatementOk(f[m], m, txs)}
<1>4. 0 \in Good
    BY <1>2, StatementStart
<1>5. ASSUME NEW m \in Good
      PROVE  m + 1 \in Good
    <2> SUFFICES ASSUME m + 1 <= n
                 PROVE  StatementOk(f[m + 1], m + 1, txs)
        BY <1>5
    <2>1. m \in Nat /\ m + 1 \in 1 .. n /\ (m + 1) - 1 = m /\ StatementOk(f[m], m, txs)
        BY <1>1, <1>5
    <2> DEFINE k == m + 1
    <2>2. k \in 1 .. n /\ StatementOk(f[k - 1], k - 1, txs) /\ f[k] = AddTransaction(f[k - 1], txs[k])
        BY <1>2, <2>1
    <2>3. txs[k].type \in {"income", "expense", "transfer"}
        BY <2>2 DEF GoodStatement, GoodTransaction
    <2> HIDE DEF k
    <2>4. StatementOk(f[k], k, txs)
        BY <2>2, <2>3, IncomeStep, ExpenseStep, TransferStep
    <2> QED
        BY <2>4 DEF k
<1>6. Good = Nat
    <2>1. Good \subseteq Nat
        OBVIOUS
    <2> HIDE DEF Good
    <2> QED
        BY <1>4, <1>5, <2>1, Statement!Induction
<1> QED
    BY <1>1, <1>3, <1>6

-----------------------------------------------------------------------------
(* Reports: the statement                                                  *)

\* top_expenses: as many of the largest as asked for.
LEMMA TopIsLargest ==
    ASSUME NEW items \in Seq(Int), NEW t \in Nat
    PROVE  LET larger(j, i) == items[j] > items[i] \/ (items[j] = items[i] /\ j < i)
               sorted == Listed(items, DOMAIN items, larger)
               shown == SubSeq(sorted, 1, Min({t, Len(sorted)}))
           IN /\ Len(shown) = Min({t, Len(items)})
              /\ \A a \in ToSet(shown) : a \in Int /\ Cardinality(Larger(items, a)) < t
<1> DEFINE E == DOMAIN items
           Ahead(j, i) == items[j] > items[i] \/ (items[j] = items[i] /\ j < i)
           L == {p \in E \X E : Ahead(p[1], p[2])}
           Pos(i) == Cardinality({j \in E : j = i \/ Ahead(j, i)})
           At(m) == CHOOSE i \in E : Pos(i) = m
           c == Cardinality(E)
           sorted == [m \in 1 .. c |-> items[At(m)]]
           d == Min({t, Len(sorted)})
           shown == SubSeq(sorted, 1, d)
<1>1. E = 1 .. Len(items) /\ Len(items) \in Nat /\ \A i \in E : items[i] \in Int /\ i \in Int
    OBVIOUS
<1>2. IsFiniteSet(E) /\ c = Len(items) /\ c \in Nat
    <2> DEFINE n == Len(items)
    <2>1. E = 1 .. n /\ n \in Nat
        BY <1>1
    <2> HIDE DEF E, n
    <2>2. IsFiniteSet(1 .. n) /\ Cardinality(1 .. n) = n
        BY <2>1, FS_Interval
    <2>3. IsFiniteSet(E) /\ Cardinality(E) = n
        BY <2>1, <2>2
    <2> QED
        BY <2>1, <2>3 DEF n
<1>3. \A i, j \in E : <<j, i>> \in L <=> Ahead(j, i)
    OBVIOUS
<1>4. Orders(L, E)
    <2>1. \A i \in E : ~Ahead(i, i)
        BY <1>1
    <2>2. \A i, j \in E : i # j => Ahead(i, j) \/ Ahead(j, i)
        BY <1>1
    <2>3. \A i, j, k \in E : Ahead(i, j) /\ Ahead(j, k) => Ahead(i, k)
        BY <1>1
    <2> HIDE DEF Ahead, E, L
    <2> QED
        BY <1>3, <2>1, <2>2, <2>3 DEF Orders
<1>5. ASSUME NEW i \in E PROVE Rank(E, L, i) = Pos(i)
    <2>1. {j \in E : j = i \/ <<j, i>> \in L} = {j \in E : j = i \/ Ahead(j, i)}
        BY <1>3
    <2> QED
        BY <2>1 DEF Rank
<1> HIDE DEF E, L, Pos
<1>6. \A m \in 1 .. c : At(m) \in E /\ Pos(At(m)) = m
    <2> SUFFICES ASSUME NEW m \in 1 .. c PROVE \E i \in E : Pos(i) = m
        OBVIOUS
    <2>1. \E i \in E : Rank(E, L, i) = m
        BY <1>2, <1>4, RankTaken
    <2> QED
        BY <1>5, <2>1
<1> HIDE DEF At
<1>7. sorted \in Seq(Int) /\ Len(sorted) = c /\ \A m \in 1 .. c : sorted[m] = items[At(m)]
    BY <1>1, <1>2, <1>6
<1>8. d \in Nat /\ d <= c /\ d <= t /\ d = Min({t, Len(items)})
    <2> HIDE DEF sorted, c
    <2>1. d = Min({t, c})
        BY <1>7
    <2>2. Min({t, c}) = IF t <= c THEN t ELSE c
        BY <1>2, LeastOfTwo
    <2>3. Len(items) = c
        BY <1>2
    <2> HIDE DEF d
    <2>4. d = IF t <= c THEN t ELSE c
        BY <2>1, <2>2
    <2> QED
        BY <1>2, <2>1, <2>3, <2>4
<1>9. DOMAIN shown = 1 .. d /\ Len(shown) = d /\ \A m \in 1 .. d : shown[m] = items[At(m)]
    <2> HIDE DEF sorted, d, c
    <2> DEFINE Q == [m \in 1 .. d |-> sorted[m]]
    <2>1. shown = Q
        BY <1>2, <1>7, <1>8
    <2>2. DOMAIN Q = 1 .. d /\ Len(Q) = d /\ \A m \in 1 .. d : Q[m] = items[At(m)]
        BY <1>2, <1>7, <1>8
    <2> HIDE DEF shown, Q
    <2> QED
        BY <2>1, <2>2
<1> HIDE DEF shown, d, sorted
<1>10. ASSUME NEW a \in ToSet(shown)
       PROVE  a \in Int /\ Cardinality(Larger(items, a)) < t
    <2>1. PICK m \in 1 .. d : a = items[At(m)]
        BY <1>9 DEF ToSet
    <2> DEFINE i == At(m)
               A == {j \in E : j = i \/ Ahead(j, i)}
    <2>2. m \in 1 .. c /\ i \in E /\ Pos(i) = m /\ m <= t
        BY <1>2, <1>6, <1>8
    <2> HIDE DEF i
    <2>3. Larger(items, a) \subseteq A \ {i} /\ i \in A
        <3>1. a = items[i]
            BY <2>1 DEF i
        <3> QED
            BY <1>1, <2>2, <3>1 DEF Larger, E
    <2>4. IsFiniteSet(A) /\ Cardinality(A) = m
        <3>1. A \subseteq E
            OBVIOUS
        <3> QED
            BY <1>2, <2>2, <3>1, FS_Subset DEF Pos
    <2> HIDE DEF A
    <2>5. Cardinality(A \ {i}) = m - 1 /\ IsFiniteSet(A \ {i})
        BY <2>3, <2>4, FS_RemoveElement, FS_Subset
    <2>6. Cardinality(Larger(items, a)) <= m - 1 /\ Cardinality(Larger(items, a)) \in Nat
        BY <2>3, <2>5, FS_Subset, FS_CardinalityType
    <2>7. a \in Int
        BY <1>1, <2>1, <2>2 DEF i
    <2> QED
        BY <1>8, <2>2, <2>6, <2>7
<1>11. Len(shown) = Min({t, Len(items)})
    BY <1>8, <1>9
<1>12. shown = LET larger(j, i) == items[j] > items[i] \/ (items[j] = items[i] /\ j < i)
                   s == Listed(items, DOMAIN items, larger)
               IN SubSeq(s, 1, Min({t, Len(s)}))
    BY DEF shown, d, sorted, At, Pos, E, Listed
<1> QED
    BY <1>10, <1>11, <1>12

\* Every figure of a statement agrees with its transactions.
LEMMA StatementAgrees ==
    ASSUME NEW n, NEW txs, GoodStatement(txs, n)
    PROVE  StatementBalances(txs, FinanceReport(txs))
<1> DEFINE acc == FoldLeft(AddTransaction, NoTransactions, txs)
           r == FinanceReport(txs)
           net == acc.income - acc.expenses
           income == Total(txs, LAMBDA t : t.type = "income", LAMBDA t : t.amount)
           expenses == Total(txs, LAMBDA t : t.type = "expense", LAMBDA t : t.amount)
           all == {t \in DOMAIN txs : txs[t].type = "expense"}
<1>1. StatementOk(acc, n, txs)
    BY StatementLoop
<1>2. n \in Nat /\ DOMAIN txs = 1 .. n
    BY DEF GoodStatement
<1>3. /\ r.income = acc.income /\ r.expenses = acc.expenses /\ r.net = net
      /\ r.margin_bp = BasisPoints(net, acc.income)
      /\ r.by_category = acc.by_category
      /\ r.monthly = [m \in acc.months |-> acc.monthly_income[m] - acc.monthly_expenses[m]]
    BY DEF FinanceReport
<1>4. LET larger(j, i) == acc.items[j] > acc.items[i] \/ (acc.items[j] = acc.items[i] /\ j < i)
          sorted == Listed(acc.items, DOMAIN acc.items, larger)
      IN r.top = SubSeq(sorted, 1, Min({Top, Len(sorted)}))
    BY DEF FinanceReport
<1> HIDE DEF acc, r
<1>5. Totals(acc)
    BY <1>1 DEF StatementOk
<1>6. income = EarnedTo(txs, n) /\ expenses = SpentTo(txs, n)
    <2>1. /\ income = SumOf([i \in DOMAIN txs |-> IF txs[i].type = "income" THEN txs[i].amount ELSE 0])
          /\ expenses = SumOf([i \in DOMAIN txs |-> IF txs[i].type = "expense" THEN txs[i].amount ELSE 0])
        BY DEF Total
    <2>2. /\ [i \in 1 .. n |-> Earned(txs)[i]]
                = [i \in DOMAIN txs |-> IF txs[i].type = "income" THEN txs[i].amount ELSE 0]
          /\ [i \in 1 .. n |-> Spent(txs)[i]]
                = [i \in DOMAIN txs |-> IF txs[i].type = "expense" THEN txs[i].amount ELSE 0]
        BY <1>2 DEF Earned, Spent
    <2> HIDE DEF income, expenses
    <2> QED
        BY <2>1, <2>2 DEF EarnedTo, SpentTo
<1>7. income = acc.income /\ expenses = acc.expenses /\ income \in Int /\ expenses \in Int
    BY <1>1, <1>5, <1>6 DEF StatementOk, Totals
<1>8. SumOf(r.by_category) = expenses
    BY <1>1, <1>3, <1>7 DEF StatementOk
<1>9. SumOf(r.monthly) = r.net
    <2>1. r.monthly = [m \in acc.months |-> NetOf(acc)[m]]
        BY <1>3, <1>5 DEF NetOf, Totals
    <2> QED
        BY <1>1, <1>3, <2>1 DEF StatementOk, Over
<1>10. income > 0 => NearestEven(r.margin_bp, 10000 * r.net, income)
    <2> HIDE DEF income, expenses
    <2> SUFFICES ASSUME income > 0 PROVE NearestEven(r.margin_bp, 10000 * r.net, income)
        OBVIOUS
    <2>1. net \in Int /\ 10000 * net \in Int /\ net * 10000 = 10000 * net /\ income \in Nat
        BY <1>7
    <2>2. r.margin_bp = DivideHalfEven(10000 * net, income)
        BY <1>3, <1>7, <2>1 DEF BasisPoints
    <2> HIDE DEF net
    <2> QED
        BY <1>3, <2>1, <2>2, Nearest
<1>11. /\ Len(r.top) = Min({Top, Len(acc.items)})
       /\ \A a \in ToSet(r.top) : a \in Int /\ Cardinality(Larger(acc.items, a)) < Top
    <2>1. acc.items \in Seq(Int) /\ Top \in Nat
        BY <1>5, ReportBounds DEF Totals
    <2> QED
        BY <1>4, <2>1, TopIsLargest
<1>12. all = Costs(txs, n) /\ \A a \in Int : {i \in all : txs[i].amount > a} = Above(txs, n, a)
    BY <1>2 DEF Costs, Above
<1>13. Len(r.top) = Min({Top, Cardinality(all)})
    BY <1>1, <1>11, <1>12 DEF StatementOk
<1>14. \A a \in ToSet(r.top) : Cardinality({i \in all : txs[i].amount > a}) < Top
    BY <1>1, <1>11, <1>12 DEF StatementOk
<1> HIDE DEF net
<1>15. /\ r.income = income /\ r.expenses = expenses
       /\ SumOf(r.by_category) = expenses
       /\ SumOf(r.monthly) = r.net /\ r.net = income - expenses
    BY <1>3, <1>7, <1>8, <1>9 DEF net
<1> HIDE DEF income, expenses, all
<1>16. StatementBalances(txs, r)
          <=> /\ r.income = income /\ r.expenses = expenses
              /\ SumOf(r.by_category) = expenses
              /\ SumOf(r.monthly) = r.net /\ r.net = income - expenses
              /\ income > 0 => NearestEven(r.margin_bp, 10000 * r.net, income)
              /\ Len(r.top) = Min({Top, Cardinality(all)})
              /\ \A a \in ToSet(r.top) : Cardinality({i \in all : txs[i].amount > a}) < Top
    BY DEF StatementBalances, income, expenses, all
<1>17. StatementBalances(txs, r)
    BY <1>10, <1>13, <1>14, <1>15, <1>16
<1> QED
    BY <1>17 DEF r

-----------------------------------------------------------------------------
(* Reports: the loop over the subscriptions                                *)

\* The loop, as the list of the values of its accumulator.
Revenue == INSTANCE FoldFacts WITH Op <- AddSubscription, Base <- NoSubscriptions

\* The figures of the loop over the subscriptions.
Figures(acc) ==
    /\ DOMAIN acc = {"mrr", "arr", "active", "trial", "cancelled", "count", "plan_mrr"}
    /\ acc.mrr \in Int /\ acc.arr \in Int
    /\ acc.active \in Nat /\ acc.trial \in Nat /\ acc.cancelled \in Nat
    /\ acc.count \in [Plans -> Int] /\ acc.plan_mrr \in [Plans -> Int]

\* A subscription that passed validation.
GoodSubscription(s) ==
    /\ s.form = "good" /\ s.plan \in Plans /\ s.status \in {"active", "trial", "cancelled"}
    /\ s.status = "active" => s.interval \in {"month", "year"} /\ s.amount \in Nat

\* A list of n subscriptions that passed validation.
GoodRevenue(subs, n) ==
    /\ n \in Nat /\ DOMAIN subs = 1 .. n /\ \A i \in 1 .. n : GoodSubscription(subs[i])

\* What a subscription brings in a month and in a year, while it is active.
Brings(s) ==
    IF s.status # "active" THEN 0 ELSE IF s.interval = "year" THEN Allocate(s.amount, 12)[1] ELSE s.amount
BringsAYear(s) ==
    IF s.status # "active" THEN 0 ELSE IF s.interval = "year" THEN s.amount ELSE 12 * s.amount

\* A count of one thing.
OneIf(P) == IF P THEN 1 ELSE 0

\* The effect of a subscription on the figures.
SubscriptionEffect(acc, next, s) ==
    /\ Figures(next)
    /\ next.mrr = acc.mrr + Brings(s) /\ next.arr = acc.arr + BringsAYear(s)
    /\ next.active = acc.active + OneIf(s.status = "active")
    /\ next.trial = acc.trial + OneIf(s.status = "trial")
    /\ next.cancelled = acc.cancelled + OneIf(s.status = "cancelled")
    /\ \A p \in Plans : /\ next.count[p] = IF p = s.plan THEN acc.count[p] + 1 ELSE acc.count[p]
                        /\ next.plan_mrr[p] = IF p = s.plan THEN acc.plan_mrr[p] + Brings(s)
                                                            ELSE acc.plan_mrr[p]

\* How many of the first k subscriptions are active and paid by the year.
Yearly(subs) == [i \in DOMAIN subs |-> OneIf(subs[i].status = "active" /\ subs[i].interval = "year")]
YearlyTo(subs, k) == SumOf([i \in 1 .. k |-> Yearly(subs)[i]])

\* What the figures say of the first k subscriptions.
RevenueOk(acc, k, subs) ==
    /\ Figures(acc)
    /\ acc.active + acc.trial + acc.cancelled = k
    /\ SumOf(acc.count) = k
    /\ SumOf(acc.plan_mrr) = acc.mrr
    /\ YearlyTo(subs, k) \in Nat
    /\ 0 <= 12 * acc.mrr - acc.arr /\ 12 * acc.mrr - acc.arr <= 11 * YearlyTo(subs, k)

\* Twelve months bring at least what the year brings, and less than 12 minor units more.
LEMMA BringsBoth ==
    ASSUME NEW s, GoodSubscription(s)
    PROVE  /\ Brings(s) \in Int /\ BringsAYear(s) \in Int
           /\ 0 <= 12 * Brings(s) - BringsAYear(s)
           /\ 12 * Brings(s) - BringsAYear(s) <= 11 * OneIf(s.status = "active" /\ s.interval = "year")
<1>1. CASE s.status = "active"
    <2>1. s.amount \in Nat
        BY <1>1 DEF GoodSubscription
    <2>2. Allocate(s.amount, 12)[1] \in Nat /\ 12 * Allocate(s.amount, 12)[1] - s.amount \in 0 .. 11
        BY <2>1, Twelfth
    <2> QED
        BY <1>1, <2>1, <2>2 DEF Brings, BringsAYear, OneIf
<1>2. CASE s.status # "active"
    BY <1>2 DEF Brings, BringsAYear, OneIf
<1> QED
    BY <1>1, <1>2

\* AddSubscription: the figures it changes, and those it leaves alone.
LEMMA SubscriptionAdded ==
    ASSUME NEW acc, Figures(acc), NEW s, GoodSubscription(s)
    PROVE  SubscriptionEffect(acc, AddSubscription(acc, s), s)
<1> DEFINE next == AddSubscription(acc, s)
           m == IF s.interval = "year" THEN Allocate(s.amount, 12)[1] ELSE s.amount
           a == IF s.interval = "year" THEN s.amount ELSE 12 * s.amount
           p == s.plan
<1>1. p \in Plans /\ s.status \in {"active", "trial", "cancelled"}
    BY DEF GoodSubscription
<1>2. Brings(s) \in Int /\ BringsAYear(s) \in Int
    BY BringsBoth
<1>3. next = IF s.status = "active"
             THEN [[acc EXCEPT !.count[p] = @ + 1, ![s.status] = @ + 1]
                      EXCEPT !.mrr = @ + m, !.arr = @ + a, !.plan_mrr[p] = @ + m]
             ELSE [acc EXCEPT !.count[p] = @ + 1, ![s.status] = @ + 1]
    BY DEF AddSubscription
<1>4. s.status = "active" => Brings(s) = m /\ BringsAYear(s) = a
    BY DEF Brings, BringsAYear
<1>5. s.status # "active" => Brings(s) = 0 /\ BringsAYear(s) = 0
    BY DEF Brings, BringsAYear
<1> HIDE DEF m, a
<1>6. DOMAIN next = DOMAIN acc
    BY <1>3
<1>7. next.count = [acc.count EXCEPT ![p] = @ + 1]
    BY <1>1, <1>3 DEF Figures
<1>8. /\ next.active = acc.active + OneIf(s.status = "active")
      /\ next.trial = acc.trial + OneIf(s.status = "trial")
      /\ next.cancelled = acc.cancelled + OneIf(s.status = "cancelled")
    BY <1>1, <1>3 DEF Figures, OneIf
<1>9. next.mrr = acc.mrr + Brings(s) /\ next.arr = acc.arr + BringsAYear(s)
    BY <1>1, <1>3, <1>4, <1>5 DEF Figures
<1>10. next.plan_mrr = IF s.status = "active" THEN [acc.plan_mrr EXCEPT ![p] = @ + m] ELSE acc.plan_mrr
    BY <1>1, <1>3 DEF Figures
<1> HIDE DEF next
<1>11. /\ acc.count \in [Plans -> Int] /\ acc.plan_mrr \in [Plans -> Int]
       /\ acc.active \in Nat /\ acc.trial \in Nat /\ acc.cancelled \in Nat
       /\ acc.mrr \in Int /\ acc.arr \in Int
    BY DEF Figures
<1>12. ASSUME NEW x \in Plans
       PROVE  next.plan_mrr[x] = IF x = p THEN acc.plan_mrr[x] + Brings(s) ELSE acc.plan_mrr[x]
    BY <1>2, <1>4, <1>5, <1>10, <1>11
<1>13. next.plan_mrr \in [Plans -> Int]
    <2> DEFINE f == acc.plan_mrr
    <2>1. f \in [Plans -> Int] /\ (s.status = "active" => m \in Int)
        BY <1>2, <1>4, <1>11
    <2> HIDE DEF f
    <2>2. s.status = "active" => [f EXCEPT ![p] = @ + m] \in [Plans -> Int]
        BY <1>1, <2>1
    <2> QED
        BY <1>10, <2>1, <2>2 DEF f
<1>14. /\ next.count \in [Plans -> Int]
       /\ \A x \in Plans : next.count[x] = IF x = p THEN acc.count[x] + 1 ELSE acc.count[x]
    <2> DEFINE f == acc.count
               g == [f EXCEPT ![p] = @ + 1]
    <2>1. f \in [Plans -> Int]
        BY <1>11
    <2> HIDE DEF f
    <2>2. g \in [Plans -> Int]
        BY <1>1, <2>1
    <2>3. \A x \in Plans : g[x] = IF x = p THEN f[x] + 1 ELSE f[x]
        BY <1>1, <2>1
    <2>4. next.count = g
        BY <1>7 DEF f
    <2> HIDE DEF g
    <2> QED
        BY <2>2, <2>3, <2>4 DEF f
<1>15. next.active \in Nat /\ next.trial \in Nat /\ next.cancelled \in Nat
    BY <1>8, <1>11 DEF OneIf
<1>16. next.mrr \in Int /\ next.arr \in Int
    BY <1>2, <1>9, <1>11
<1>17. Figures(next)
    BY <1>6, <1>13, <1>14, <1>15, <1>16 DEF Figures
<1>18. SubscriptionEffect(acc, next, s)
    BY <1>8, <1>9, <1>12, <1>14, <1>17 DEF SubscriptionEffect
<1> QED
    BY <1>18 DEF next

\* The invariant of the loop holds before the first subscription.
LEMMA RevenueStart ==
    ASSUME NEW n, NEW subs, GoodRevenue(subs, n)
    PROVE  RevenueOk(NoSubscriptions, 0, subs)
<1> DEFINE acc == NoSubscriptions
<1>1. Figures(acc)
    BY DEF Figures, NoSubscriptions
<1>2. /\ acc.active + acc.trial + acc.cancelled = 0 /\ 12 * acc.mrr - acc.arr = 0
      /\ acc.count = [p \in Plans |-> 0] /\ acc.plan_mrr = [p \in Plans |-> 0] /\ acc.mrr = 0
    BY DEF NoSubscriptions
<1>3. YearlyTo(subs, 0) = 0
    <2>1. n \in Nat /\ Yearly(subs) \in [1 .. n -> Int]
        BY DEF Yearly, OneIf, GoodRevenue
    <2>2. \A v \in [1 .. n -> Int] : SumOf([i \in 1 .. 0 |-> v[i]]) = 0
        BY <2>1, SumTo
    <2> QED
        BY <2>1, <2>2 DEF YearlyTo
<1> HIDE DEF acc
<1>4. SumOf(acc.count) = 0 /\ SumOf(acc.plan_mrr) = acc.mrr
    BY <1>2, SumZero, ReportBounds
<1>5. RevenueOk(acc, 0, subs)
    BY <1>1, <1>2, <1>3, <1>4 DEF RevenueOk
<1> QED
    BY <1>5 DEF acc

\* One more subscription.
LEMMA RevenueStep ==
    ASSUME NEW n, NEW subs, GoodRevenue(subs, n), NEW k \in 1 .. n,
           NEW acc, RevenueOk(acc, k - 1, subs)
    PROVE  RevenueOk(AddSubscription(acc, subs[k]), k, subs)
<1> DEFINE next == AddSubscription(acc, subs[k])
           s == subs[k]
           y == OneIf(s.status = "active" /\ s.interval = "year")
<1>1. GoodSubscription(s) /\ n \in Nat /\ DOMAIN subs = 1 .. n /\ k \in Nat
    BY DEF GoodRevenue
<1>2. Figures(acc)
    BY DEF RevenueOk
<1>3. SubscriptionEffect(acc, next, s)
    BY <1>1, <1>2, SubscriptionAdded
<1> HIDE DEF next
<1>4. /\ Brings(s) \in Int /\ BringsAYear(s) \in Int
      /\ 0 <= 12 * Brings(s) - BringsAYear(s)
      /\ 12 * Brings(s) - BringsAYear(s) <= 11 * y
    BY <1>1, BringsBoth
<1>5. YearlyTo(subs, k) = YearlyTo(subs, k - 1) + y
    <2>1. Yearly(subs) \in [1 .. n -> Int] /\ Yearly(subs)[k] = y
        BY <1>1 DEF Yearly, OneIf
    <2>2. \A v \in [1 .. n -> Int] :
             SumOf([i \in 1 .. k |-> v[i]]) = SumOf([i \in 1 .. (k - 1) |-> v[i]]) + v[k]
        BY <1>1, SumTo
    <2> HIDE DEF y
    <2> QED
        BY <2>1, <2>2 DEF YearlyTo
<1>6. next.active + next.trial + next.cancelled = k
    <2>1. acc.active + acc.trial + acc.cancelled = k - 1
        BY DEF RevenueOk
    <2>2. s.status \in {"active", "trial", "cancelled"}
        BY <1>1 DEF GoodSubscription
    <2>3. acc.active \in Nat /\ acc.trial \in Nat /\ acc.cancelled \in Nat
        BY <1>2 DEF Figures
    <2>4. /\ next.active = acc.active + OneIf(s.status = "active")
          /\ next.trial = acc.trial + OneIf(s.status = "trial")
          /\ next.cancelled = acc.cancelled + OneIf(s.status = "cancelled")
        BY <1>3 DEF SubscriptionEffect
    <2> DEFINE ac == acc.active
               tr == acc.trial
               ca == acc.cancelled
               da == OneIf(s.status = "active")
               dt == OneIf(s.status = "trial")
               dc == OneIf(s.status = "cancelled")
    <2>5. da + dt + dc = 1 /\ da \in Nat /\ dt \in Nat /\ dc \in Nat
        BY <2>2 DEF OneIf
    <2>6. /\ ac + tr + ca = k - 1 /\ ac \in Nat /\ tr \in Nat /\ ca \in Nat
          /\ next.active + next.trial + next.cancelled = (ac + da) + (tr + dt) + (ca + dc)
        BY <2>1, <2>3, <2>4
    <2> HIDE DEF ac, tr, ca, da, dt, dc
    <2> QED
        BY <1>1, <2>5, <2>6
<1>7. s.plan \in Plans
    BY <1>1 DEF GoodSubscription
<1>8. SumOf(next.count) = k
    <2> DEFINE f == acc.count
               g == next.count
    <2>1. f \in [Plans -> Int] /\ g \in [Plans -> Int]
        BY <1>2, <1>3 DEF Figures, SubscriptionEffect
    <2>2. \A x \in Plans : g[x] = IF x = s.plan THEN f[x] + 1 ELSE f[x]
        BY <1>3 DEF SubscriptionEffect
    <2>3. SumOf(f) = k - 1
        BY DEF RevenueOk
    <2> HIDE DEF f, g, s
    <2>4. SumOf(g) = SumOf(f) + 1
        BY <1>7, <2>1, <2>2, SumChange, ReportBounds
    <2>5. SumOf(g) = k
        BY <1>1, <2>3, <2>4
    <2> QED
        BY <2>5 DEF g
<1>9. SumOf(next.plan_mrr) = next.mrr
    <2> DEFINE f == acc.plan_mrr
               g == next.plan_mrr
               v == Brings(s)
    <2>1. f \in [Plans -> Int] /\ g \in [Plans -> Int] /\ v \in Int
        BY <1>2, <1>3, <1>4 DEF Figures, SubscriptionEffect
    <2>2. \A x \in Plans : g[x] = IF x = s.plan THEN f[x] + v ELSE f[x]
        BY <1>3 DEF SubscriptionEffect
    <2>3. SumOf(f) = acc.mrr /\ next.mrr = acc.mrr + v
        BY <1>3 DEF RevenueOk, SubscriptionEffect
    <2> HIDE DEF f, g, s, v
    <2>4. SumOf(g) = SumOf(f) + v
        BY <1>7, <2>1, <2>2, SumChange, ReportBounds
    <2>5. SumOf(g) = next.mrr
        BY <2>3, <2>4
    <2> QED
        BY <2>5 DEF g
<1>10. y \in {0, 1}
    BY DEF OneIf
<1> HIDE DEF y, s
<1>11. YearlyTo(subs, k) \in Nat
    BY <1>5, <1>10 DEF RevenueOk
<1>12. 0 <= 12 * next.mrr - next.arr /\ 12 * next.mrr - next.arr <= 11 * YearlyTo(subs, k)
    <2>1. acc.mrr \in Int /\ acc.arr \in Int /\ YearlyTo(subs, k - 1) \in Nat
        BY <1>2 DEF Figures, RevenueOk
    <2>2. 0 <= 12 * acc.mrr - acc.arr /\ 12 * acc.mrr - acc.arr <= 11 * YearlyTo(subs, k - 1)
        BY DEF RevenueOk
    <2>3. next.mrr = acc.mrr + Brings(s) /\ next.arr = acc.arr + BringsAYear(s)
        BY <1>3 DEF SubscriptionEffect
    <2> QED
        BY <1>4, <1>5, <1>10, <2>1, <2>2, <2>3
<1>13. Figures(next)
    BY <1>3 DEF SubscriptionEffect
<1>14. RevenueOk(next, k, subs)
    BY <1>6, <1>8, <1>9, <1>11, <1>12, <1>13 DEF RevenueOk
<1> QED
    BY <1>14 DEF next, s

\* It holds after the last one.
LEMMA RevenueLoop ==
    ASSUME NEW n, NEW subs, GoodRevenue(subs, n)
    PROVE  RevenueOk(FoldLeft(AddSubscription, NoSubscriptions, subs), n, subs)
<1>1. n \in Nat /\ DOMAIN subs = 1 .. n
    BY DEF GoodRevenue
<1>0. PICK f : Revenue!Trace(f, subs, n)
    BY <1>1, Revenue!FoldTrace
<1>2. /\ f[0] = NoSubscriptions
      /\ f[n] = Revenue!FoldLeft(AddSubscription, NoSubscriptions, subs)
      /\ \A k \in 1 .. n : f[k] = AddSubscription(f[k - 1], subs[k])
    BY <1>0 DEF Revenue!Trace
<1>3. f[n] = FoldLeft(AddSubscription, NoSubscriptions, subs)
    <2>1. FoldLeft(AddSubscription, NoSubscriptions, subs)
             = Revenue!FoldLeft(AddSubscription, NoSubscriptions, subs)
        BY Zenon DEF FoldLeft, Revenue!FoldLeft, MapThenFoldSet, Revenue!MapThenFoldSet,
                     Max, Revenue!Max
    <2> QED
        BY <1>2, <2>1
<1> DEFINE Good == {m \in Nat : m <= n => RevenueOk(f[m], m, subs)}
<1>4. 0 \in Good
    BY <1>2, RevenueStart
<1>5. ASSUME NEW m \in Good
      PROVE  m + 1 \in Good
    <2> SUFFICES ASSUME m + 1 <= n
                 PROVE  RevenueOk(f[m + 1], m + 1, subs)
        BY <1>5
    <2>1. m \in Nat /\ m + 1 \in 1 .. n /\ (m + 1) - 1 = m /\ RevenueOk(f[m], m, subs)
        BY <1>1, <1>5
    <2> DEFINE k == m + 1
    <2>2. k \in 1 .. n /\ RevenueOk(f[k - 1], k - 1, subs) /\ f[k] = AddSubscription(f[k - 1], subs[k])
        BY <1>2, <2>1
    <2> HIDE DEF k
    <2>3. RevenueOk(f[k], k, subs)
        BY <2>2, RevenueStep
    <2> QED
        BY <2>3 DEF k
<1>6. Good = Nat
    <2>1. Good \subseteq Nat
        OBVIOUS
    <2> HIDE DEF Good
    <2> QED
        BY <1>4, <1>5, <2>1, Revenue!Induction
<1> QED
    BY <1>1, <1>3, <1>6

\* Every figure of a revenue report agrees with its subscriptions.
LEMMA RevenueAgrees ==
    ASSUME NEW n, NEW subs, GoodRevenue(subs, n), n = Len(subs)
    PROVE  RevenueBalances(subs, RevopsReport(subs))
<1> DEFINE acc == FoldLeft(AddSubscription, NoSubscriptions, subs)
           r == RevopsReport(subs)
           active(s) == s.status = "active"
           yearly == Total(subs, LAMBDA s : active(s) /\ s.interval = "year", LAMBDA s : 1)
           excess == 12 * acc.mrr - acc.arr
<1>1. RevenueOk(acc, n, subs)
    BY RevenueLoop
<1>2. n \in Nat /\ DOMAIN subs = 1 .. n
    BY DEF GoodRevenue
<1>3. /\ r.acc = acc
      /\ r.churn_bp = BasisPoints(acc.cancelled, acc.active + acc.cancelled)
      /\ r.arpa = DivideHalfEven(acc.mrr, acc.active)
    BY DEF RevopsReport
<1>4. yearly = YearlyTo(subs, n)
    <2>1. yearly = SumOf([i \in DOMAIN subs |->
                             IF subs[i].status = "active" /\ subs[i].interval = "year" THEN 1 ELSE 0])
        BY DEF Total
    <2>2. [i \in 1 .. n |-> Yearly(subs)[i]]
             = [i \in DOMAIN subs |->
                   IF subs[i].status = "active" /\ subs[i].interval = "year" THEN 1 ELSE 0]
        BY <1>2 DEF Yearly, OneIf
    <2> HIDE DEF yearly
    <2> QED
        BY <2>1, <2>2 DEF YearlyTo
<1> HIDE DEF acc, r
<1>5. /\ acc.mrr \in Int /\ acc.arr \in Int
      /\ acc.active \in Nat /\ acc.trial \in Nat /\ acc.cancelled \in Nat
    BY <1>1 DEF RevenueOk, Figures
<1>6. /\ acc.active + acc.trial + acc.cancelled = Len(subs)
      /\ SumOf(acc.count) = Len(subs)
      /\ SumOf(acc.plan_mrr) = acc.mrr
    BY <1>1 DEF RevenueOk
<1>7. yearly \in Nat /\ 0 <= excess /\ excess <= 11 * yearly
    <2> HIDE DEF yearly
    <2> QED
        BY <1>1, <1>4 DEF RevenueOk
<1> HIDE DEF yearly
<1>8. (yearly = 0 => excess = 0) /\ (yearly > 0 => excess < 12 * yearly)
    <2> DEFINE m == acc.mrr
               a == acc.arr
    <2>1. m \in Int /\ a \in Int /\ excess = 12 * m - a
        BY <1>5
    <2> HIDE DEF m, a
    <2>2. excess \in Int
        BY <2>1
    <2> HIDE DEF excess
    <2> QED
        BY <1>7, <2>2
<1> HIDE DEF excess
<1>9. acc.active > 0 => NearestEven(r.arpa, acc.mrr, acc.active)
    BY <1>3, <1>5, Nearest
<1>10. 0 <= r.churn_bp /\ r.churn_bp <= 10000
    <2> DEFINE a == acc.cancelled
               b == acc.active
    <2>1. a \in Nat /\ b \in Nat /\ r.churn_bp = BasisPoints(a, b + a)
        BY <1>3, <1>5
    <2> HIDE DEF a, b
    <2> DEFINE w == BasisPoints(a, b + a)
    <2>2. w \in Int /\ 0 <= w /\ w <= 10000
        BY <2>1, ShareOfAll
    <2>3. r.churn_bp = w
        BY <2>1
    <2> HIDE DEF w
    <2> QED
        BY <2>2, <2>3
<1> DEFINE Sums == /\ r.acc.active + r.acc.trial + r.acc.cancelled = Len(subs)
                   /\ SumOf(r.acc.count) = Len(subs)
                   /\ SumOf(r.acc.plan_mrr) = r.acc.mrr
           Years == LET x == 12 * r.acc.mrr - r.acc.arr
                    IN 0 <= x /\ (yearly = 0 => x = 0) /\ (yearly > 0 => x < 12 * yearly)
           Shares == r.acc.active > 0 => NearestEven(r.arpa, r.acc.mrr, r.acc.active)
           Churn == 0 <= r.churn_bp /\ r.churn_bp <= 10000
<1>11. RevenueBalances(subs, r) <=> Sums /\ Years /\ Shares /\ Churn
    BY DEF RevenueBalances, yearly, Total
<1>12. Sums
    BY <1>3, <1>6
<1>13. Years
    <2>1. 12 * r.acc.mrr - r.acc.arr = excess
        BY <1>3 DEF excess
    <2> QED
        BY <1>7, <1>8, <2>1
<1>14. Shares
    BY <1>3, <1>9
<1>15. Churn
    BY <1>10
<1> HIDE DEF Sums, Years, Shares, Churn
<1>16. RevenueBalances(subs, r)
    BY <1>11, <1>12, <1>13, <1>14, <1>15
<1> QED
    BY <1>16 DEF r

-----------------------------------------------------------------------------
(* Reports: the answers                                                    *)

\* A failure says of itself what its code says, and is not a success.
LEMMA FailureSays ==
    ASSUME NEW code, NEW hint
    PROVE  Truthful(Failure(code, hint)) /\ Failure(code, hint).ok = FALSE
<1> DEFINE a == Failure(code, hint)
<1>1. /\ a.ok = FALSE /\ a.code = code /\ a.retryable = RetryableByCode[code]
      /\ a.retry_after = (RetryableByCode[code] /\ hint)
    BY DEF Failure
<1> HIDE DEF a
<1>2. ~a.ok /\ a.retryable = RetryableByCode[a.code]
    BY <1>1
<1>3. a.retry_after => a.retryable
    BY <1>1, Zenon
<1>4. Truthful(a)
    BY <1>2, <1>3 DEF Truthful
<1> QED
    BY <1>1, <1>4 DEF a

\* What the two tools answer when their figures are v.
Answer(head, entries, source, v) ==
    IF head = "unhashable" THEN FromException
    ELSE IF head = "invalid" THEN Failure("validation_failed", FALSE)
    ELSE IF \E i \in DOMAIN entries : entries[i].form = "unhashable" THEN FromException
    ELSE IF \E i \in DOMAIN entries : entries[i].form = "invalid" THEN Failure("validation_failed", FALSE)
    ELSE Success("READ_ONLY", v, ReadEvidence(source, Len(entries), FALSE), FALSE)

\* Figures only for good arguments and good rows, and evidence that counts the rows.
LEMMA AnswerSays ==
    ASSUME NEW head \in Forms, NEW entries, NEW source, NEW v,
           \A i \in DOMAIN entries : entries[i].form \in Forms
    PROVE  /\ Truthful(Answer(head, entries, source, v))
           /\ Answer(head, entries, source, v).ok
                 <=> head = "good" /\ \A i \in DOMAIN entries : entries[i].form = "good"
           /\ Answer(head, entries, source, v).ok
                 => /\ Answer(head, entries, source, v).report = v
                    /\ Answer(head, entries, source, v).evidence.row_count = Len(entries)
<1> DEFINE a == Answer(head, entries, source, v)
           Fine == head = "good" /\ \A i \in DOMAIN entries : entries[i].form = "good"
<1>1. ASSUME ~Fine
      PROVE  Truthful(a) /\ a.ok = FALSE
    <2>1. a = FromException \/ a = Failure("validation_failed", FALSE)
        BY <1>1 DEF Answer, Forms
    <2> QED
        BY <2>1, FailureSays DEF FromException
<1>2. ASSUME Fine
      PROVE  /\ Truthful(a) /\ a.ok = TRUE
             /\ a.report = v /\ a.evidence.row_count = Len(entries)
    <2> DEFINE e == ReadEvidence(source, Len(entries), FALSE)
    <2>1. a = Success("READ_ONLY", v, e, FALSE)
        BY <1>2 DEF Answer
    <2>2. /\ DOMAIN e = {"source", "row_count", "unverified"}
          /\ e.source = source /\ e.row_count = Len(entries)
          /\ e.unverified = (source = "caller_supplied")
        BY DEF ReadEvidence
    <2> HIDE DEF e
    <2>3. a = [ok |-> TRUE, mode |-> "READ_ONLY", report |-> v, evidence |-> e]
        BY <2>1, <2>2 DEF Success
    <2> HIDE DEF a
    <2>4. a.ok = TRUE /\ a.report = v /\ a.evidence = e
        BY <2>3
    <2>5. Truthful(a)
        BY <2>2, <2>4 DEF Truthful
    <2> QED
        BY <2>2, <2>4, <2>5
<1> HIDE DEF a, Fine
<1>3. Truthful(a) /\ (a.ok <=> Fine) /\ (a.ok => a.report = v /\ a.evidence.row_count = Len(entries))
    BY <1>1, <1>2
<1> QED
    BY <1>3 DEF a, Fine

\* The rows a caller hands in that pass validation are good ones.
LEMMA GoodRows ==
    /\ \A t \in Transactions : t.form \in Forms /\ (t.form = "good" => GoodTransaction(t))
    /\ \A s \in Subscriptions : s.form \in Forms /\ (s.form = "good" => GoodSubscription(s))
<1>1. ASSUME NEW t \in Transactions
      PROVE  t.form \in Forms /\ (t.form = "good" => GoodTransaction(t))
    BY ReportBounds DEF Transactions, Forms, GoodTransaction
<1>2. ASSUME NEW s \in Subscriptions
      PROVE  s.form \in Forms /\ (s.form = "good" => GoodSubscription(s))
    BY ReportBounds DEF Subscriptions, Forms, GoodSubscription
<1> QED
    BY <1>1, <1>2

\* The list holds rows of the report asked for.
ReportsInv ==
    /\ report \in {"none", "finance", "revops"}
    /\ report = "finance" => list \in Seq(Transactions)
    /\ report = "revops" => list \in Seq(Subscriptions)

\* The answer to a request for a statement.
LEMMA FinanceSays ==
    ASSUME ReportsInv, report = "finance", NEW head \in Forms, NEW source
    PROVE  LET a == GenerateFinanceReport(head, list, source) IN
           /\ Truthful(a)
           /\ a.ok <=> head = "good" /\ \A i \in DOMAIN list : list[i].form = "good"
           /\ a.ok => StatementBalances(list, a.report) /\ a.evidence.row_count = Len(list)
<1> DEFINE n == Len(list)
           v == FinanceReport(list)
           a == Answer(head, list, source, v)
<1>1. n \in Nat /\ DOMAIN list = 1 .. n /\ \A i \in 1 .. n : list[i] \in Transactions
    BY DEF ReportsInv
<1>2. GenerateFinanceReport(head, list, source) = a
    BY DEF GenerateFinanceReport, Validated, Answer
<1>3. /\ Truthful(a)
      /\ a.ok <=> head = "good" /\ \A i \in DOMAIN list : list[i].form = "good"
      /\ a.ok => a.report = v /\ a.evidence.row_count = Len(list)
    <2>1. \A i \in DOMAIN list : list[i].form \in Forms
        BY <1>1, GoodRows
    <2> HIDE DEF v
    <2> QED
        BY <2>1, AnswerSays
<1> HIDE DEF a, v
<1>4. ASSUME a.ok
      PROVE  StatementBalances(list, v)
    <2>1. GoodStatement(list, n)
        <3>1. \A i \in 1 .. n : GoodTransaction(list[i])
            BY <1>1, <1>3, <1>4, GoodRows
        <3> HIDE DEF n
        <3> QED
            BY <1>1, <3>1 DEF GoodStatement
    <2> QED
        BY <2>1, StatementAgrees DEF v
<1>5. a.ok => StatementBalances(list, a.report)
    BY <1>3, <1>4
<1> QED
    BY <1>2, <1>3, <1>5

\* The answer to a request for a revenue report.
LEMMA RevopsSays ==
    ASSUME ReportsInv, report = "revops", NEW head \in Forms
    PROVE  LET a == GenerateRevopsReport(head, list) IN
           /\ Truthful(a)
           /\ a.ok <=> head = "good" /\ \A i \in DOMAIN list : list[i].form = "good"
           /\ a.ok => RevenueBalances(list, a.report) /\ a.evidence.row_count = Len(list)
<1> DEFINE n == Len(list)
           v == RevopsReport(list)
           a == Answer(head, list, "caller_supplied", v)
<1>1. n \in Nat /\ DOMAIN list = 1 .. n /\ \A i \in 1 .. n : list[i] \in Subscriptions
    BY DEF ReportsInv
<1>2. GenerateRevopsReport(head, list) = a
    BY DEF GenerateRevopsReport, Validated, Answer
<1>3. /\ Truthful(a)
      /\ a.ok <=> head = "good" /\ \A i \in DOMAIN list : list[i].form = "good"
      /\ a.ok => a.report = v /\ a.evidence.row_count = Len(list)
    <2>1. \A i \in DOMAIN list : list[i].form \in Forms
        BY <1>1, GoodRows
    <2> HIDE DEF v
    <2> QED
        BY <2>1, AnswerSays
<1> HIDE DEF a, v
<1>4. ASSUME a.ok
      PROVE  RevenueBalances(list, v)
    <2>1. GoodRevenue(list, n)
        <3>1. \A i \in 1 .. n : GoodSubscription(list[i])
            BY <1>1, <1>3, <1>4, GoodRows
        <3> HIDE DEF n
        <3> QED
            BY <1>1, <3>1 DEF GoodRevenue
    <2> QED
        BY <2>1, RevenueAgrees DEF v
<1>5. a.ok => RevenueBalances(list, a.report)
    BY <1>3, <1>4
<1> QED
    BY <1>2, <1>3, <1>5

\* The other money tools refuse.
LEMMA RefusalsSay == \A a \in Refusals : Truthful(a) /\ ~a.ok
<1> SUFFICES ASSUME NEW a \in Refusals PROVE Truthful(a) /\ a.ok = FALSE
    OBVIOUS
<1>1. PICK t, name : a = Failure(t[name], FALSE)
    BY DEF Refusals
<1> QED
    BY <1>1, FailureSays

\* What the reports say agrees with the rows: ReportsBalance in every state of the
\* reports, for every list of transactions or subscriptions.
THEOREM ReportsAgree == ReportsSpec => []ReportsBalance
<1>1. InitReports => ReportsInv
    BY DEF InitReports, ReportsInv
<1>2. ReportsInv /\ [ReportStep]_<<report, list>> => ReportsInv'
    <2> SUFFICES ASSUME ReportsInv, [ReportStep]_<<report, list>>
                 PROVE  ReportsInv'
        OBVIOUS
    <2>1. CASE report = "finance" /\ \E t \in Transactions : AddRow(t)
        BY <2>1 DEF ReportsInv, AddRow
    <2>2. CASE report = "revops" /\ \E s \in Subscriptions : AddRow(s)
        BY <2>2 DEF ReportsInv, AddRow
    <2>3. CASE UNCHANGED <<report, list>>
        BY <2>3 DEF ReportsInv
    <2> QED
        BY <2>1, <2>2, <2>3 DEF ReportStep
<1>3. ReportsInv => ReportsBalance
    <2> SUFFICES ASSUME ReportsInv PROVE ReportsBalance
        OBVIOUS
    <2>1. {"good", "invalid"} \subseteq Forms
        BY DEF Forms
    <2> QED
        BY <2>1, FinanceSays, RevopsSays, RefusalsSay DEF ReportsBalance
<1> QED
    BY <1>1, <1>2, <1>3, PTL DEF ReportsSpec

(***************************************************************************)
(* ReadAccess: who reads which job.                                        *)
(***************************************************************************)
-----------------------------------------------------------------------------
(* The inductive invariant of the rows and the tokens                      *)

\* What the owner of a row says about whose row it is.
RowOk(j) ==
    /\ rows[j] = Null => creator[j] = Null /\ j \in recorded
    /\ rows[j] # Null =>
          \/ creator[j] = Null /\ j \in recorded /\ rows[j] = Unowned
          \/ creator[j] = "legacy" /\ j \in recorded /\ rows[j] = OwnerOf(Legacy)
          \/ /\ creator[j] \in DOMAIN Clients
             /\ IF j \in recorded THEN rows[j] = OwnerOf(Envelope(creator[j])) ELSE rows[j] = Unowned

ReadsInv ==
    /\ rows = [j \in JobIds |-> rows[j]] /\ creator = [j \in JobIds |-> creator[j]]
    /\ recorded \subseteq JobIds
    /\ \A j \in JobIds : RowOk(j)
    /\ \A t \in issued : \E c \in DOMAIN Clients : TokenOf(t, c)

-----------------------------------------------------------------------------
(* Steps                                                                   *)

\* A row that is made once, and made right, leaves the others alone.
LEMMA NewRowOk ==
    ASSUME ReadsInv, NEW j \in JobIds, NEW row, NEW who, NewRow(j, row, who),
           \/ UNCHANGED recorded /\ who = Null /\ row = Unowned
           \/ UNCHANGED recorded /\ who = "legacy" /\ row = OwnerOf(Legacy)
           \/ UNCHANGED recorded /\ who \in DOMAIN Clients /\ row = OwnerOf(Envelope(who))
           \/ recorded' = recorded \ {j} /\ who \in DOMAIN Clients /\ row = Unowned,
           \A t \in issued' : \E c \in DOMAIN Clients : TokenOf(t, c)
    PROVE  ReadsInv'
<1>1. /\ rows' = [rows EXCEPT ![j] = row] /\ creator' = [creator EXCEPT ![j] = who]
      /\ rows[j] = Null /\ j \in recorded /\ recorded' \subseteq recorded
    BY DEF NewRow, ReadsInv, RowOk
<1>2. /\ rows' = [i \in JobIds |-> rows'[i]] /\ creator' = [i \in JobIds |-> creator'[i]]
      /\ rows'[j] = row /\ creator'[j] = who
      /\ \A i \in JobIds \ {j} : rows'[i] = rows[i] /\ creator'[i] = creator[i]
    BY <1>1 DEF ReadsInv
<1>3. row # Null
    BY ClientsAssumption
<1>4. RowOk(j)'
    BY <1>1, <1>2, <1>3 DEF RowOk
<1>5. ASSUME NEW i \in JobIds \ {j}
      PROVE  RowOk(i)'
    BY <1>2, <1>5 DEF ReadsInv, RowOk
<1>6. (\A t \in issued : \E c \in DOMAIN Clients : TokenOf(t, c))'
    BY DEF TokenOf
<1> QED
    BY <1>1, <1>2, <1>4, <1>5, <1>6 DEF ReadsInv

\* A new token names the client that asked for it.
LEMMA IssuedToClients ==
    ASSUME ReadsInv, NEW c \in DOMAIN Clients, NEW at \in Instants, Issue(c, at)
    PROVE  \A t \in issued' : \E d \in DOMAIN Clients : TokenOf(t, d)
<1>1. TokenOf(IssueToken(Envelope(c), at), c)
    BY DEF TokenOf
<1> QED
    BY <1>1 DEF ReadsInv, Issue

LEMMA JobsInductive ==
    ASSUME ReadsInv, JobsStep
    PROVE  ReadsInv'
<1>1. ASSUME NEW j \in JobIds, NEW c \in DOMAIN Clients, NEW at \in Instants, CreateJob(j, c, at)
      PROVE  ReadsInv'
    BY <1>1, NewRowOk, IssuedToClients DEF CreateJob
<1>2. ASSUME NEW j \in JobIds, NEW c \in DOMAIN Clients, NEW at \in Instants, RepeatJob(j, c, at)
      PROVE  ReadsInv'
    BY <1>2, IssuedToClients DEF RepeatJob, ReadsInv, RowOk, TokenOf
<1>3. ASSUME NEW j \in JobIds, CreateLegacyJob(j)
      PROVE  ReadsInv'
    BY <1>3, NewRowOk DEF CreateLegacyJob, ReadsInv
<1>4. ASSUME NEW j \in JobIds, NEW parent \in JobIds, DelegateChild(j, parent)
      PROVE  ReadsInv'
    <2>1. RowOk(parent) /\ rows[parent] # Null /\ NewRow(j, rows[parent], creator[parent])
        BY <1>4 DEF DelegateChild, ReadsInv
    <2>2. recorded' = IF parent \in recorded THEN recorded ELSE recorded \ {j}
        BY <1>4 DEF DelegateChild
    <2>3. \A t \in issued' : \E c \in DOMAIN Clients : TokenOf(t, c)
        BY <1>4 DEF DelegateChild, ReadsInv
    <2> QED
        BY <2>1, <2>2, <2>3, NewRowOk DEF RowOk
<1>5. ASSUME NEW j \in JobIds, NEW c \in DOMAIN Clients, DelegateFromSync(j, c)
      PROVE  ReadsInv'
    BY <1>5, NewRowOk DEF DelegateFromSync, ReadsInv
<1> QED
    BY <1>1, <1>2, <1>3, <1>4, <1>5 DEF JobsStep

LEMMA ReadsInductive == ReadsInv /\ [ReadStep]_readVars => ReadsInv'
<1> SUFFICES ASSUME ReadsInv, [ReadStep]_readVars
             PROVE  ReadsInv'
    OBVIOUS
<1>1. CASE UNCHANGED <<rows, creator, recorded, issued>>
    BY <1>1 DEF ReadsInv, RowOk, TokenOf
<1>2. CASE JobsStep
    BY <1>2, JobsInductive
<1> QED
    BY <1>1, <1>2 DEF ReadStep, IndexRow, readVars

LEMMA ReadsInitially == InitReads => ReadsInv
BY DEF InitReads, ReadsInv, RowOk

-----------------------------------------------------------------------------
(* What the routes answer                                                  *)

LEMMA SameOwner ==
    ASSUME NEW p, NEW q
    PROVE  OwnerOf(p) = OwnerOf(q) <=> p.tenant = q.tenant /\ p.sub = q.sub
BY DEF OwnerOf

LEMMA OwnedAnswer ==
    ASSUME NEW p, NEW j, NEW scope
    PROVE  RequireOwnedJob(p, j, scope) = 200
               <=> rows[j] # Null /\ HasScope(p, scope) /\ OwnsResource(p, rows[j])
BY DEF RequireOwnedJob

LEMMA ScopeOf ==
    ASSUME NEW p, NEW scope
    PROVE  HasScope(p, scope) <=> {scope, "*"} \cap p.scopes # {}
BY DEF HasScope

\* To a token belongs the row of its principal, made with a row to inherit from.
LEMMA TokenOwns ==
    ASSUME ReadsInv, NEW c \in DOMAIN Clients, NEW j \in JobIds, NEW p,
           p.sub = Clients[c].sub, p.tenant = Clients[c].tenant, p.method = "principal_token"
    PROVE  rows[j] # Null /\ OwnsResource(p, rows[j])
               <=> SamePrincipal(creator[j], c) /\ j \in recorded
<1>1. RowOk(j)
    BY DEF ReadsInv
<1>2. OwnerOf(p) = OwnerOf(Envelope(c))
    BY SameOwner DEF Envelope
<1>3. ASSUME NEW q, q.tenant # Null
      PROVE  /\ OwnsResource(p, OwnerOf(q)) <=> OwnerOf(q) = OwnerOf(Envelope(c))
    <2>1. OwnerOf(q).tenant = q.tenant /\ OwnerOf(q).owner = q.sub
        BY DEF OwnerOf
    <2> QED
        BY <1>2, <1>3, <2>1, SameOwner DEF OwnsResource
<1>4. ~OwnsResource(p, Unowned)
    BY DEF OwnsResource, Unowned
<1>5. Legacy.tenant # Null /\ \A d \in DOMAIN Clients : Envelope(d).tenant # Null
    BY ClientsAssumption DEF Envelope
<1>6. CASE rows[j] = Null \/ rows[j] = Unowned
    <2>1. \A d \in DOMAIN Clients : OwnerOf(Envelope(d)) # Unowned
        <3>1. \A d \in DOMAIN Clients : OwnerOf(Envelope(d)).tenant = Envelope(d).tenant
            BY DEF OwnerOf
        <3> QED
            BY <1>5, <3>1 DEF Unowned
    <2>2. ~(SamePrincipal(creator[j], c) /\ j \in recorded)
        BY <1>1, <1>6, <2>1, ClientsAssumption DEF RowOk, SamePrincipal
    <2> QED
        BY <1>4, <1>6, <2>2
<1>7. CASE creator[j] = "legacy" /\ rows[j] = OwnerOf(Legacy)
    BY <1>3, <1>5, <1>7, ClientsAssumption DEF SamePrincipal
<1>8. CASE creator[j] \in DOMAIN Clients /\ j \in recorded /\ rows[j] = OwnerOf(Envelope(creator[j]))
    BY <1>3, <1>5, <1>8, ClientsAssumption DEF SamePrincipal
<1> QED
    BY <1>1, <1>6, <1>7, <1>8 DEF RowOk

\* The shared secrets own what is theirs and what is nobody's.
LEMMA LegacyOwns ==
    ASSUME ReadsInv, NEW j \in JobIds
    PROVE  rows[j] # Null /\ OwnsResource(Legacy, rows[j])
               <=> rows[j] # Null /\ (creator[j] \in {Null, "legacy"} \/ j \notin recorded)
<1>1. RowOk(j)
    BY DEF ReadsInv
<1>2. Legacy.method = "legacy_gateway" /\ Legacy.tenant # Null
    BY ClientsAssumption DEF Legacy
<1>3. OwnsResource(Legacy, Unowned) /\ OwnsResource(Legacy, OwnerOf(Legacy))
    BY <1>2 DEF OwnsResource, Unowned, OwnerOf
<1>4. ASSUME NEW d \in DOMAIN Clients
      PROVE  ~OwnsResource(Legacy, OwnerOf(Envelope(d))) /\ d \notin {Null, "legacy"}
    <2>1. Envelope(d).tenant # Null /\ OwnerOf(Envelope(d)) # OwnerOf(Legacy)
        BY ClientsAssumption DEF Envelope
    <2>2. /\ OwnerOf(Envelope(d)).tenant = Envelope(d).tenant
          /\ OwnerOf(Envelope(d)).owner = Envelope(d).sub
        BY DEF OwnerOf
    <2> QED
        BY <2>1, <2>2, SameOwner, ClientsAssumption DEF OwnsResource
<1> QED
    BY <1>1, <1>3, <1>4 DEF RowOk

\* For every registry and every history of submissions and delegations: a token opens
\* exactly the recorded rows of its client's principal. The shared secrets open events,
\* sandbox and trace of every job, and status and artifacts of the rows that are theirs
\* or nobody's, the children of a client's synchronous run among them.
THEOREM WhoReadsJobs == ReadsSpec => []JobsReadByOwner
<1>1. ASSUME ReadsInv
      PROVE  JobsReadByOwner
    <2>1. ASSUME NEW j \in JobIds, NEW c \in DOMAIN Clients, NEW t \in issued,
                 NEW now \in Instants, TokenOf(t, c)
          PROVE  /\ ReadWithToken("status", t, now, j) = 200 <=> MayRead(j, c, t, now, "job.read")
                 /\ ReadWithToken("trace", t, now, j) = 200 <=> MayRead(j, c, t, now, "job.read")
                 /\ ReadWithToken("artifacts", t, now, j) = 200
                        <=> MayRead(j, c, t, now, "artifact.read")
        <3> DEFINE p == TokenPrincipal(t)
        <3>1. PICK at \in Instants : t = IssueToken(Envelope(c), at)
            BY <2>1 DEF TokenOf
        <3>2. /\ t.sub = Clients[c].sub /\ t.tenant = Clients[c].tenant
              /\ t.scopes = Clients[c].scopes /\ t.iat = at /\ t.exp = at + Ttl
            BY <3>1 DEF IssueToken, Envelope
        <3>3. /\ p.sub = Clients[c].sub /\ p.tenant = Clients[c].tenant
              /\ p.scopes = Clients[c].scopes /\ p.method = "principal_token"
            BY <3>2 DEF TokenPrincipal
        <3>4. at \in Int /\ now \in Int /\ Ttl \in Int /\ Leeway \in Int
            BY ReadAssumption
        <3>5. TokenValid(t, now) <=> InTime(t, now) /\ Clients[c].tenant # ""
            BY <3>2, <3>4, ClientsAssumption DEF TokenValid, InTime
        <3> HIDE DEF p
        <3>6. ASSUME NEW scope
              PROVE  RequireOwnedJob(p, j, scope) = 200
                         <=> /\ SamePrincipal(creator[j], c) /\ j \in recorded
                             /\ {scope, "*"} \cap Clients[c].scopes # {}
            BY <1>1, <3>3, OwnedAnswer, ScopeOf, TokenOwns
        <3>7. /\ ReadJob("status", p, j) = RequireOwnedJob(p, j, "job.read")
              /\ ReadJob("trace", p, j) = RequireOwnedJob(p, j, "job.read")
              /\ ReadJob("artifacts", p, j) = RequireOwnedJob(p, j, "artifact.read")
            BY <3>3 DEF ReadJob, AuthorizeJobRead
        <3>8. ASSUME NEW route
              PROVE  ReadWithToken(route, t, now, j) = 200
                         <=> TokenValid(t, now) /\ ReadJob(route, p, j) = 200
            BY DEF ReadWithToken, p
        <3>9. ASSUME NEW scope
              PROVE  TokenValid(t, now) /\ RequireOwnedJob(p, j, scope) = 200
                         <=> MayRead(j, c, t, now, scope)
            <4> DEFINE opens == {scope, "*"} \cap Clients[c].scopes # {}
            <4>1. RequireOwnedJob(p, j, scope) = 200
                      <=> SamePrincipal(creator[j], c) /\ j \in recorded /\ opens
                BY <3>6
            <4>2. MayRead(j, c, t, now, scope)
                      <=> /\ SamePrincipal(creator[j], c) /\ j \in recorded
                          /\ InTime(t, now) /\ Clients[c].tenant # "" /\ opens
                BY DEF MayRead
            <4> HIDE DEF opens
            <4> QED
                BY <3>5, <4>1, <4>2
        <3> QED
            BY <3>7, <3>8, <3>9
    <2>2. ASSUME NEW j \in JobIds
          PROVE  /\ ReadJob("trace", Legacy, j) = 200
                 /\ \A route \in {"status", "artifacts"} :
                       ReadJob(route, Legacy, j) = 200
                           <=> /\ rows[j] # Null
                               /\ creator[j] \in {Null, "legacy"} \/ j \notin recorded
        <3>1. /\ ReadJob("status", Legacy, j) = RequireOwnedJob(Legacy, j, "job.read")
              /\ ReadJob("artifacts", Legacy, j) = RequireOwnedJob(Legacy, j, "artifact.read")
              /\ ReadJob("trace", Legacy, j) = 200
            BY DEF ReadJob, AuthorizeJobRead, Legacy
        <3>2. HasScope(Legacy, "job.read") /\ HasScope(Legacy, "artifact.read")
            BY DEF HasScope, Legacy
        <3>3. ASSUME NEW scope, HasScope(Legacy, scope)
              PROVE  RequireOwnedJob(Legacy, j, scope) = 200
                         <=> /\ rows[j] # Null
                             /\ creator[j] \in {Null, "legacy"} \/ j \notin recorded
            BY <1>1, <3>3, OwnedAnswer, LegacyOwns
        <3> QED
            BY <3>1, <3>2, <3>3
    <2> QED
        BY <1>1, <2>1, <2>2 DEF JobsReadByOwner, ReadsInv
<1> QED
    BY ReadsInitially, ReadsInductive, <1>1, PTL DEF ReadsSpec

-----------------------------------------------------------------------------
(* Retrieval: the vault                                                    *)

\* The vault answers with the best of the rows that pass the filters and score.
LEMMA VaultAnswers ==
    ASSUME NEW n \in Nat, NEW table, DOMAIN table = 1 .. n,
           \A i \in 1 .. n : table[i] \in VaultRows,
           NEW ask, ask.k \in Nat
    PROVE  VaultAnswer(table, ask,
                       AboveMin(QueryChunks(table, ask.k, ask.entity, ask.superseded)))
<1> DEFINE E == {i \in DOMAIN table : Eligible(table[i], ask.entity, ask.superseded)}
           Ahead(j, i) == Before(table[j], table[i]) \/ (j < i /\ ~Before(table[i], table[j]))
           L == {p \in E \X E : Ahead(p[1], p[2])}
           Pos(i) == Cardinality({j \in E : j = i \/ Ahead(j, i)})
           At(m) == CHOOSE i \in E : Pos(i) = m
           G == {i \in E : table[i].score >= MinScore}
           c == Cardinality(E)
           g == Cardinality(G)
           w == [m \in 1 .. c |-> At(m)]
           ranked == [m \in 1 .. c |-> table[At(m)]]
           d == Min({ask.k, Len(ranked)})
           Q == SubSeq(ranked, 1, d)
           P == {i \in DOMAIN Q : Q[i].score >= MinScore}
<1>1. QueryChunks(table, ask.k, ask.entity, ask.superseded) = Q
  BY DEF QueryChunks, Listed
<1>2. AboveMin(Q) = Keep(Q, P)
  BY DEF AboveMin
<1>3. E \subseteq 1 .. n /\ G \subseteq E
  OBVIOUS
<1>4. /\ IsFiniteSet(E) /\ IsFiniteSet(G) /\ c \in Nat /\ g \in Nat /\ g <= c
  <2> HIDE DEF E, G
  <2>1. IsFiniteSet(1 .. n)
    BY FS_Interval
  <2>2. IsFiniteSet(E)
    BY <1>3, <2>1, FS_Subset
  <2>3. IsFiniteSet(G) /\ g <= c
    BY <1>3, <2>2, FS_Subset
  <2> QED
    BY <2>2, <2>3, FS_CardinalityType
<1>5. \A i \in E : table[i].score \in Int /\ table[i].updated \in Int /\ i \in Int
  BY RowsAssumption
<1>6. \A i, j \in E : <<j, i>> \in L <=> Ahead(j, i)
  OBVIOUS
<1>7. Orders(L, E) /\ Orders(L, G)
  <2>1. \A i \in E : ~Ahead(i, i)
    BY <1>5 DEF Before
  <2>2. \A i, j \in E : i # j => Ahead(i, j) \/ Ahead(j, i)
    BY <1>5 DEF Before
  <2>3. \A i, j, k \in E : Ahead(i, j) /\ Ahead(j, k) => Ahead(i, k)
    BY <1>5 DEF Before
  <2> HIDE DEF Ahead, E, G, L
  <2> QED
    BY <1>3, <1>6, <2>1, <2>2, <2>3 DEF Orders
<1>8. ASSUME NEW i \in E PROVE Rank(E, L, i) = Pos(i)
  <2>1. {j \in E : j = i \/ <<j, i>> \in L} = {j \in E : j = i \/ Ahead(j, i)}
    BY <1>6
  <2> QED
    BY <2>1 DEF Rank
\* What is ahead of a good row is good.
<1>9. ASSUME NEW i \in G PROVE Rank(G, L, i) = Pos(i)
  <2>1. \A j \in E : Ahead(j, i) => j \in G
    BY <1>5, ReadAssumption DEF Before
  <2>2. {j \in G : j = i \/ <<j, i>> \in L} = {j \in E : j = i \/ Ahead(j, i)}
    <3> HIDE DEF Ahead, L
    <3> QED
      BY <1>3, <1>6, <2>1
  <2> QED
    BY <2>2 DEF Rank
<1>10. \A i, j \in E : Ahead(j, i) => Pos(j) < Pos(i)
  <2> SUFFICES ASSUME NEW i \in E, NEW j \in E, Ahead(j, i) PROVE Pos(j) < Pos(i)
    OBVIOUS
  <2> HIDE DEF Ahead, L, E, Pos
  <2> QED
    BY <1>4, <1>6, <1>7, <1>8, RankGrows
<1>11. /\ \A i \in E : Pos(i) \in 1 .. c
       /\ \A i \in G : Pos(i) \in 1 .. g
  <2> HIDE DEF Ahead, L, E, G, Pos
  <2> QED
    BY <1>3, <1>4, <1>8, <1>9, RankIn
<1>12. \A i, j \in E : Pos(i) = Pos(j) => i = j
  <2> SUFFICES ASSUME NEW i \in E, NEW j \in E, Pos(i) = Pos(j), i # j PROVE FALSE
    OBVIOUS
  <2> HIDE DEF Ahead, L, E, Pos
  <2>1. Ahead(i, j) \/ Ahead(j, i)
    BY <1>6, <1>7 DEF Orders
  <2>2. Pos(i) < Pos(j) \/ Pos(j) < Pos(i)
    BY <1>10, <2>1
  <2> QED
    BY <1>4, <1>11, <2>2
<1> HIDE DEF Ahead, L, E, G, Pos
<1>13. \A m \in 1 .. c : At(m) \in E /\ Pos(At(m)) = m
  <2> SUFFICES ASSUME NEW m \in 1 .. c PROVE \E i \in E : Pos(i) = m
    OBVIOUS
  <2>1. \E i \in E : Rank(E, L, i) = m
    BY <1>4, <1>7, RankTaken
  <2> QED
    BY <1>8, <2>1
<1> HIDE DEF At
<1>14. \A i \in E : At(Pos(i)) = i
  BY <1>11, <1>12, <1>13
<1>15. \A m \in 1 .. c : At(m) \in G <=> m <= g
  <2> SUFFICES ASSUME NEW m \in 1 .. c PROVE At(m) \in G <=> m <= g
    OBVIOUS
  <2>1. At(m) \in G => m <= g
    BY <1>11, <1>13
  <2>2. ASSUME m <= g PROVE At(m) \in G
    <3>1. \E i \in G : Rank(G, L, i) = m
      BY <1>4, <1>7, <2>2, RankTaken
    <3>2. PICK i \in G : Pos(i) = m
      BY <1>9, <3>1
    <3> QED
      BY <1>3, <1>14, <3>2
  <2> QED
    BY <2>1, <2>2
<1>16. /\ \A m \in 1 .. c : ranked[m] = table[At(m)] /\ table[At(m)] \in VaultRows
       /\ ranked \in Seq(VaultRows) /\ Len(ranked) = c
  <2>1. \A m \in 1 .. c : table[At(m)] \in VaultRows
    BY <1>3, <1>13
  <2> QED
    BY <1>4, <2>1
<1>17. d \in Nat /\ d <= c /\ d = (IF ask.k <= c THEN ask.k ELSE c)
  <2> HIDE DEF ranked
  <2> QED
    BY <1>4, <1>16, LeastOfTwo
<1>18. DOMAIN Q = 1 .. d /\ \A m \in 1 .. d : Q[m] = table[At(m)]
  <2> HIDE DEF ranked, d
  <2>1. Q = [m \in 1 .. d |-> ranked[m]]
    BY <1>4, <1>16, <1>17
  <2> QED
    BY <1>4, <1>16, <1>17, <2>1
<1> HIDE DEF ranked, d, Q, c, g
<1>19. P = {m \in 1 .. d : m <= g}
  <2>1. \A m \in 1 .. d : m \in 1 .. c
    BY <1>4, <1>17
  <2>2. \A m \in 1 .. d : Q[m].score >= MinScore <=> At(m) \in G
    BY <1>13, <1>18, <2>1 DEF G
  <2> QED
    BY <1>15, <1>18, <2>1, <2>2
<1>20. Cardinality(P) = Min({ask.k, g})
  <2> DEFINE e == Min({ask.k, g})
  <2>1. e = IF ask.k <= g THEN ask.k ELSE g
    BY <1>4, LeastOfTwo
  <2> HIDE DEF e
  <2>2. e \in Nat /\ P = 1 .. e
    BY <1>4, <1>17, <1>19, <2>1
  <2>3. Cardinality(1 .. e) = e
    BY <2>2, FS_Interval
  <2> QED
    BY <2>2, <2>3 DEF e
<1> DEFINE shown == Keep(Q, P)
<1>21. P \subseteq 1 .. d
  BY <1>19
<1> HIDE DEF P
<1>22. /\ Cardinality(P) \in Nat /\ DOMAIN shown = 1 .. Cardinality(P)
       /\ \A m \in 1 .. Cardinality(P) : Nth(P, m) \in P /\ shown[m] = Q[Nth(P, m)]
       /\ \A p \in P : \E m \in 1 .. Cardinality(P) : Nth(P, m) = p
  <2>1. IsList(Q) /\ P \in SUBSET DOMAIN Q
    BY <1>17, <1>18, <1>21 DEF IsList
  <2> QED
    BY <2>1, KeepIs
<1> HIDE DEF shown
<1>24. ToSet(shown) = {table[At(m)] : m \in P}
  <2>1. ToSet(shown) = {Q[m] : m \in P}
    BY <1>22 DEF ToSet
  <2> QED
    BY <1>18, <1>21, <2>1
<1>25. Len(shown) = Min({ask.k, Cardinality(G)})
  <2>1. Len(shown) = Cardinality(P)
    BY <1>22
  <2> QED
    BY <1>20, <2>1 DEF g
<1>26. ToSet(shown) \subseteq {table[i] : i \in G}
  <2>1. \A m \in P : At(m) \in G
    BY <1>4, <1>15, <1>17, <1>19, <1>21
  <2> QED
    BY <1>24, <2>1
<1>27. ASSUME NEW s \in ToSet(shown), NEW i \in G, Before(table[i], s)
       PROVE  table[i] \in ToSet(shown)
  <2>1. PICK m \in P : s = table[At(m)]
    BY <1>24
  <2>2. m \in 1 .. c /\ m \in 1 .. d
    BY <1>4, <1>17, <1>21
  <2>3. Pos(i) < m
    <3>1. Ahead(i, At(m))
      BY <1>27, <2>1 DEF Ahead
    <3> QED
      BY <1>3, <1>10, <1>13, <2>2, <3>1
  <2>4. Pos(i) \in P
    BY <1>4, <1>11, <1>17, <1>19, <2>2, <2>3
  <2> QED
    BY <1>3, <1>14, <1>24, <2>4
<1>28. shown = AboveMin(QueryChunks(table, ask.k, ask.entity, ask.superseded))
  BY <1>1, <1>2 DEF shown
<1> DEFINE good == {i \in {j \in DOMAIN table : Eligible(table[j], ask.entity, ask.superseded)} :
                      table[i].score >= MinScore}
<1>29. good = G
  BY DEF G, E
<1> HIDE DEF good
<1> QED
  BY <1>25, <1>26, <1>27, <1>28, <1>29 DEF VaultAnswer, good

-----------------------------------------------------------------------------
(* Retrieval: the backbone                                                 *)

\* The two loops of the backbone, as the lists of what they keep.
ByIdentity == INSTANCE FoldFacts WITH Op <- PlaceByIdentity, Base <- <<>>
ByContentHash == INSTANCE FoldFacts WITH Op <- PlaceByContentHash, Base <- <<>>

\* One row of R for each key of the rows seen, which none of them beats.
OnePer(kept, R, key, B, seen) ==
    /\ kept \in Seq(R)
    /\ \A i, k \in DOMAIN kept : key[kept[i]] = key[kept[k]] => i = k
    /\ \A r \in seen : \E i \in DOMAIN kept : key[kept[i]] = key[r] /\ <<r, kept[i]>> \notin B

\* Nobody beats himself, and who beats a row beats what that one beats.
Strict(B, R) ==
    /\ \A r \in R : <<r, r>> \notin B
    /\ \A a, b, c \in R : <<a, b>> \in B /\ <<b, c>> \in B => <<a, c>> \in B

\* One round of the loop.
LEMMA OneMore ==
    ASSUME NEW R, NEW key, NEW B, Strict(B, R), NEW kept, NEW seen \in SUBSET R,
           OnePer(kept, R, key, B, seen), NEW r \in R, NEW next,
           IF \E i \in DOMAIN kept : key[kept[i]] = key[r]
           THEN next = [i \in DOMAIN kept |->
                          IF key[kept[i]] = key[r] /\ <<r, kept[i]>> \in B THEN r ELSE kept[i]]
           ELSE next = Append(kept, r)
    PROVE  OnePer(next, R, key, B, seen \cup {r})
<1>1. kept \in Seq(R) /\ DOMAIN kept = 1 .. Len(kept) /\ Len(kept) \in Nat
      /\ \A i \in DOMAIN kept : kept[i] \in R
  BY DEF OnePer
<1>2. CASE \E i \in DOMAIN kept : key[kept[i]] = key[r]
  <2>1. next = [i \in DOMAIN kept |->
                   IF key[kept[i]] = key[r] /\ <<r, kept[i]>> \in B THEN r ELSE kept[i]]
    BY <1>2
  <2>2. DOMAIN next = DOMAIN kept /\ next \in Seq(R)
    <3>1. \A i \in 1 .. Len(kept) : next[i] \in R
      BY <1>1, <2>1
    <3>2. next = [i \in 1 .. Len(kept) |-> next[i]]
      BY <1>1, <2>1
    <3>3. [i \in 1 .. Len(kept) |-> next[i]] \in Seq(R)
      BY <1>1, <3>1
    <3>4. DOMAIN next = DOMAIN kept
      BY <2>1
    <3> QED
      BY <3>2, <3>3, <3>4
  <2>3. \A i \in DOMAIN kept : key[next[i]] = key[kept[i]]
    BY <2>1
  <2>4. ASSUME NEW s \in seen \cup {r}
        PROVE  \E i \in DOMAIN kept : key[next[i]] = key[s] /\ <<s, next[i]>> \notin B
    <3>1. CASE s \in seen
      <4>1. PICK i \in DOMAIN kept : key[kept[i]] = key[s] /\ <<s, kept[i]>> \notin B
        BY <3>1 DEF OnePer
      <4>2. s \in R /\ kept[i] \in R
        BY <1>1, <3>1
      <4>3. <<s, next[i]>> \notin B
        BY <2>1, <4>1, <4>2 DEF Strict
      <4> QED
        BY <2>3, <4>1, <4>3
    <3>2. CASE s = r
      <4>1. PICK i \in DOMAIN kept : key[kept[i]] = key[r]
        BY <1>2
      <4>2. <<s, next[i]>> \notin B
        BY <2>1, <3>2, <4>1 DEF Strict
      <4> QED
        BY <2>3, <3>2, <4>1, <4>2
    <3> QED
      BY <3>1, <3>2
  <2>5. \A i, k \in DOMAIN kept : key[next[i]] = key[next[k]] => i = k
    BY <2>3 DEF OnePer
  <2> QED
    BY <2>2, <2>4, <2>5 DEF OnePer
<1>3. CASE ~\E i \in DOMAIN kept : key[kept[i]] = key[r]
  <2> DEFINE l == Len(kept)
  <2>1. next = Append(kept, r)
    BY <1>3
  <2>2. /\ next \in Seq(R) /\ DOMAIN next = 1 .. l + 1 /\ next[l + 1] = r
        /\ \A i \in 1 .. l : next[i] = kept[i]
    <3>1. next \in Seq(R) /\ Len(next) = l + 1
      BY <1>1, <2>1, AppendProperties
    <3>2. DOMAIN next = 1 .. l + 1
      BY <3>1, LenProperties
    <3>3. /\ Append(kept, r)[Len(kept) + 1] = r
          /\ \A i \in 1 .. Len(kept) : Append(kept, r)[i] = kept[i]
      BY <1>1, AppendProperties
    <3>4. next[l + 1] = r /\ \A i \in 1 .. l : next[i] = kept[i]
      BY <2>1, <3>3
    <3> QED
      BY <3>1, <3>2, <3>4
  <2> HIDE DEF l
  <2>3. l \in Nat /\ DOMAIN kept = 1 .. l
    BY <1>1 DEF l
  <2>4. /\ l + 1 \in DOMAIN next /\ \A i \in DOMAIN kept : i \in DOMAIN next /\ next[i] = kept[i]
        /\ \A i \in DOMAIN next : i = l + 1 \/ i \in DOMAIN kept
    BY <2>2, <2>3
  <2>5. \A i, k \in DOMAIN next : key[next[i]] = key[next[k]] => i = k
    BY <1>3, <2>2, <2>4 DEF OnePer
  <2>6. ASSUME NEW s \in seen \cup {r}
        PROVE  \E i \in DOMAIN next : key[next[i]] = key[s] /\ <<s, next[i]>> \notin B
    BY <2>2, <2>4 DEF OnePer, Strict
  <2> QED
    BY <2>2, <2>5, <2>6 DEF OnePer
<1> QED
  BY <1>2, <1>3

\* The round in terms of the keys and of the pairs that beat each other.
Round(prev, r, next, key, B) ==
    IF \E i \in DOMAIN prev : key[prev[i]] = key[r]
    THEN next = [i \in DOMAIN prev |->
                   IF key[prev[i]] = key[r] /\ <<r, prev[i]>> \in B THEN r ELSE prev[i]]
    ELSE next = Append(prev, r)

\* The loop over a whole list keeps one row for each key, unbeaten.
LEMMA AllRounds ==
    ASSUME NEW n \in Nat, NEW q, DOMAIN q = 1 .. n, NEW key, NEW B, Strict(B, ToSet(q)),
           NEW f, f[0] = <<>>,
           \A k \in 1 .. n : f[k - 1] \in Seq(ToSet(q)) => Round(f[k - 1], q[k], f[k], key, B)
    PROVE  OnePer(f[n], ToSet(q), key, B, ToSet(q))
<1> DEFINE R == ToSet(q)
           Seen(m) == {q[k] : k \in 1 .. m}
           Good == {m \in Nat : m <= n => OnePer(f[m], R, key, B, Seen(m))}
<1>1. \A k \in 1 .. n : q[k] \in R
  BY DEF ToSet
<1>2. Seen(n) = R
  BY DEF ToSet
<1>3. 0 \in Good
  <2>1. Seen(0) = {} /\ <<>> \in Seq(R) /\ DOMAIN <<>> = {}
    OBVIOUS
  <2> HIDE DEF Seen
  <2> QED
    BY <2>1 DEF OnePer
<1>4. ASSUME NEW m \in Good PROVE m + 1 \in Good
  <2>0. m \in Nat /\ m + 1 \in Nat
    BY <1>4
  <2> SUFFICES ASSUME m + 1 <= n PROVE OnePer(f[m + 1], R, key, B, Seen(m + 1))
    BY <2>0
  <2>1. m \in Nat /\ m + 1 \in 1 .. n /\ (m + 1) - 1 = m
    BY <1>4
  <2>2. OnePer(f[m], R, key, B, Seen(m))
    BY <1>4, <2>1
  <2>3. Round(f[m], q[m + 1], f[m + 1], key, B)
    BY <2>1, <2>2 DEF OnePer
  <2>4. Seen(m) \in SUBSET R /\ Seen(m + 1) = Seen(m) \cup {q[m + 1]} /\ q[m + 1] \in R
    <3>1. 1 .. m + 1 = (1 .. m) \cup {m + 1} /\ 1 .. m \subseteq 1 .. n
      BY <2>1
    <3> QED
      BY <1>1, <2>1, <3>1
  <2> HIDE DEF Seen, R, Good
  <2>5. Strict(B, R)
    BY DEF R
  <2>6. OnePer(f[m + 1], R, key, B, Seen(m) \cup {q[m + 1]})
    BY <2>2, <2>3, <2>4, <2>5, OneMore DEF Round
  <2> QED
    BY <2>4, <2>6
<1>5. n \in Good
  <2> HIDE DEF Good
  <2>1. Good \subseteq Nat
    BY DEF Good
  <2>2. Good = Nat
    BY <1>3, <1>4, <2>1, ByIdentity!Induction
  <2> QED
    BY <2>2
<1>6. OnePer(f[n], R, key, B, Seen(n))
  <2> HIDE DEF Seen, R
  <2> QED
    BY <1>5
<1> QED
  BY <1>2, <1>6

\* _dedup_by_identity
LEMMA IdentityOnce ==
    ASSUME NEW q, IsList(q), \A r \in ToSet(q) : r \in BackboneRows
    PROVE  LET kept == DedupByIdentity(q) IN
           /\ IsList(kept) /\ ToSet(kept) \subseteq ToSet(q)
           /\ \A i, k \in DOMAIN kept : kept[i].file = kept[k].file => i = k
           /\ \A r \in ToSet(q) : \E s \in ToSet(kept) : s.file = r.file /\ ~Higher(r, s)
<1> DEFINE R == ToSet(q)
           key == [r \in R |-> r.file]
           B == {p \in R \X R : Higher(p[1], p[2])}
           kept == DedupByIdentity(q)
<1>1. PICK n \in Nat : DOMAIN q = 1 .. n
  BY DEF IsList
<1>2. PICK f : /\ f = [k \in 0 .. n |-> f[k]]
               /\ f[0] = <<>> /\ f[n] = ByIdentity!FoldLeft(PlaceByIdentity, <<>>, q)
               /\ \A k \in 1 .. n : f[k] = PlaceByIdentity(f[k - 1], q[k])
  BY <1>1, ByIdentity!FoldSteps
<1>3. f[n] = kept
  <2>1. FoldLeft(PlaceByIdentity, <<>>, q) = ByIdentity!FoldLeft(PlaceByIdentity, <<>>, q)
    BY Zenon DEF FoldLeft, ByIdentity!FoldLeft, MapThenFoldSet, ByIdentity!MapThenFoldSet,
                 Max, ByIdentity!Max
  <2> QED
    BY <1>2, <2>1 DEF DedupByIdentity
<1>4. \A a, b \in R : <<a, b>> \in B <=> Higher(a, b)
  OBVIOUS
<1>5. Strict(B, R)
  <2>1. \A r \in R : r.score \in Int
    BY RowsAssumption
  <2>2. \A a, b \in R : Higher(a, b) <=> a.score > b.score
    BY DEF Higher
  <2> HIDE DEF B, R
  <2> QED
    BY <1>4, <2>1, <2>2 DEF Strict
<1>6. ASSUME NEW k \in 1 .. n, f[k - 1] \in Seq(R)
      PROVE  Round(f[k - 1], q[k], f[k], key, B)
  <2> DEFINE p == f[k - 1]
  <2>1. q[k] \in R /\ \A i \in DOMAIN p : p[i] \in R
    BY <1>1, <1>6 DEF ToSet
  <2>2. \A i \in DOMAIN p : /\ key[p[i]] = key[q[k]] <=> p[i].file = q[k].file
                            /\ <<q[k], p[i]>> \in B <=> Higher(q[k], p[i])
    BY <1>4, <2>1
  <2>3. f[k] = PlaceByIdentity(p, q[k])
    BY <1>2
  <2> HIDE DEF p, key, B
  <2> QED
    BY <2>2, <2>3 DEF Round, PlaceByIdentity, Place, p
<1>7. OnePer(kept, R, key, B, R)
  <2> HIDE DEF kept, key, B
  <2> QED
    BY <1>1, <1>2, <1>3, <1>5, <1>6, AllRounds
<1> QED
  <2> HIDE DEF kept, B
  <2>1. kept \in Seq(R)
    BY <1>7 DEF OnePer
  <2>2. IsList(kept) /\ \A i \in DOMAIN kept : kept[i] \in R
    BY <2>1 DEF IsList
  <2>3. \A i \in DOMAIN kept : key[kept[i]] = kept[i].file /\ kept[i] \in ToSet(kept)
    BY <2>2 DEF ToSet
  <2>4. \A r \in R : key[r] = r.file
    OBVIOUS
  <2> HIDE DEF key
  <2>5. \A i, k \in DOMAIN kept : kept[i].file = kept[k].file => i = k
    BY <1>7, <2>3 DEF OnePer
  <2>6. \A r \in R : \E s \in ToSet(kept) : s.file = r.file /\ ~Higher(r, s)
    <3> SUFFICES ASSUME NEW r \in R
                 PROVE  \E s \in ToSet(kept) : s.file = r.file /\ ~Higher(r, s)
      OBVIOUS
    <3>1. PICK i \in DOMAIN kept : key[kept[i]] = key[r] /\ <<r, kept[i]>> \notin B
      BY <1>7 DEF OnePer
    <3> QED
      BY <1>4, <2>2, <2>3, <2>4, <3>1
  <2>7. ToSet(kept) \subseteq R
    BY <2>2 DEF ToSet
  <2> QED
    BY <2>2, <2>5, <2>6, <2>7 DEF kept

\* _dedup_by_content_hash_with_precedence
LEMMA ContentHashOnce ==
    ASSUME NEW q, IsList(q), \A r \in ToSet(q) : r \in BackboneRows
    PROVE  LET kept == DedupByContentHash(q) IN
           /\ IsList(kept) /\ ToSet(kept) \subseteq ToSet(q)
           /\ \A i, k \in DOMAIN kept : kept[i].hash = kept[k].hash => i = k
           /\ \A r \in ToSet(q) : \E s \in ToSet(kept) : s.hash = r.hash /\ ~Precedes(r, s)
<1> DEFINE R == ToSet(q)
           key == [r \in R |-> r.hash]
           B == {p \in R \X R : Precedes(p[1], p[2])}
           kept == DedupByContentHash(q)
<1>1. PICK n \in Nat : DOMAIN q = 1 .. n
  BY DEF IsList
<1>2. PICK f : /\ f = [k \in 0 .. n |-> f[k]]
               /\ f[0] = <<>> /\ f[n] = ByContentHash!FoldLeft(PlaceByContentHash, <<>>, q)
               /\ \A k \in 1 .. n : f[k] = PlaceByContentHash(f[k - 1], q[k])
  BY <1>1, ByContentHash!FoldSteps
<1>3. f[n] = kept
  <2>1. FoldLeft(PlaceByContentHash, <<>>, q) = ByContentHash!FoldLeft(PlaceByContentHash, <<>>, q)
    BY Zenon DEF FoldLeft, ByContentHash!FoldLeft, MapThenFoldSet, ByContentHash!MapThenFoldSet,
                 Max, ByContentHash!Max
  <2> QED
    BY <1>2, <2>1 DEF DedupByContentHash
<1>4. \A a, b \in R : <<a, b>> \in B <=> Precedes(a, b)
  OBVIOUS
<1>5. Strict(B, R)
  <2>1. \A r \in R : r.score \in Int /\ r.class \in {"canonical", "controller"}
    BY RowsAssumption
  <2>2. \A a, b \in R : Precedes(a, b) <=> IF a.class = b.class THEN a.score > b.score
                                           ELSE a.class = "canonical"
    BY DEF Precedes, Higher
  <2> HIDE DEF B, R
  <2> QED
    BY <1>4, <2>1, <2>2 DEF Strict
<1>6. ASSUME NEW k \in 1 .. n, f[k - 1] \in Seq(R)
      PROVE  Round(f[k - 1], q[k], f[k], key, B)
  <2> DEFINE p == f[k - 1]
  <2>1. q[k] \in R /\ \A i \in DOMAIN p : p[i] \in R
    BY <1>1, <1>6 DEF ToSet
  <2>2. \A i \in DOMAIN p : /\ key[p[i]] = key[q[k]] <=> p[i].hash = q[k].hash
                            /\ <<q[k], p[i]>> \in B <=> Precedes(q[k], p[i])
    BY <1>4, <2>1
  <2>3. f[k] = PlaceByContentHash(p, q[k])
    BY <1>2
  <2> HIDE DEF p, key, B
  <2> QED
    BY <2>2, <2>3 DEF Round, PlaceByContentHash, Place, p
<1>7. OnePer(kept, R, key, B, R)
  <2> HIDE DEF kept, key, B
  <2> QED
    BY <1>1, <1>2, <1>3, <1>5, <1>6, AllRounds
<1> QED
  <2> HIDE DEF kept, B
  <2>1. kept \in Seq(R)
    BY <1>7 DEF OnePer
  <2>2. IsList(kept) /\ \A i \in DOMAIN kept : kept[i] \in R
    BY <2>1 DEF IsList
  <2>3. \A i \in DOMAIN kept : key[kept[i]] = kept[i].hash /\ kept[i] \in ToSet(kept)
    BY <2>2 DEF ToSet
  <2>4. \A r \in R : key[r] = r.hash
    OBVIOUS
  <2> HIDE DEF key
  <2>5. \A i, k \in DOMAIN kept : kept[i].hash = kept[k].hash => i = k
    BY <1>7, <2>3 DEF OnePer
  <2>6. \A r \in R : \E s \in ToSet(kept) : s.hash = r.hash /\ ~Precedes(r, s)
    <3> SUFFICES ASSUME NEW r \in R
                 PROVE  \E s \in ToSet(kept) : s.hash = r.hash /\ ~Precedes(r, s)
      OBVIOUS
    <3>1. PICK i \in DOMAIN kept : key[kept[i]] = key[r] /\ <<r, kept[i]>> \notin B
      BY <1>7 DEF OnePer
    <3> QED
      BY <1>4, <2>2, <2>3, <2>4, <3>1
  <2>7. ToSet(kept) \subseteq R
    BY <2>2 DEF ToSet
  <2> QED
    BY <2>2, <2>5, <2>6, <2>7 DEF kept

\* What Keep returns, as a list of rows.
LEMMA KeepRows ==
    ASSUME NEW table, IsList(table), NEW S \in SUBSET DOMAIN table
    PROVE  ToSet(Keep(table, S)) = {table[p] : p \in S}
<1> DEFINE w == Keep(table, S)
           c == Cardinality(S)
<1>1. /\ DOMAIN w = 1 .. c
      /\ \A m \in 1 .. c : Nth(S, m) \in S /\ w[m] = table[Nth(S, m)]
      /\ \A p \in S : \E m \in 1 .. c : Nth(S, m) = p
  BY KeepIs
<1>2. ToSet(w) = {w[m] : m \in 1 .. c}
  BY <1>1 DEF ToSet
<1> HIDE DEF w, c
<1>3. ASSUME NEW p \in S PROVE \E m \in 1 .. c : w[m] = table[p]
  <2>1. PICK m \in 1 .. c : Nth(S, m) = p
    BY <1>1
  <2> QED
    BY <1>1, <2>1
<1> QED
  BY <1>1, <1>2, <1>3 DEF w

\* The backbone answers with one row per document, the best the asker may see.
LEMMA BackboneAnswers ==
    ASSUME NEW table, IsList(table), \A r \in ToSet(table) : r \in BackboneRows, NEW sub
    PROVE  BackboneAnswer(table, sub, AboveMin(Resolve(table, sub)))
<1> DEFINE mine == {r \in ToSet(table) : HasAccess(r, sub)}
           F == FilterByPermission(table, sub)
           D1 == DedupByIdentity(F)
           D2 == DedupByContentHash(D1)
           shown == AboveMin(D2)
<1>1. Resolve(table, sub) = D2
  BY DEF Resolve, DedupAndPrecede
<1>2. IsList(F) /\ ToSet(F) = mine
  <2> DEFINE S == {i \in DOMAIN table : HasAccess(table[i], sub)}
  <2>1. S \in SUBSET DOMAIN table /\ F = Keep(table, S)
    BY DEF FilterByPermission
  <2>2. {table[p] : p \in S} = mine
    BY DEF ToSet
  <2> HIDE DEF S, F, mine
  <2>3. IsList(Keep(table, S))
    BY <2>1, KeepIs
  <2>4. ToSet(Keep(table, S)) = {table[p] : p \in S}
    BY <2>1, KeepRows
  <2> QED
    BY <2>1, <2>2, <2>3, <2>4
<1>3. \A r \in mine : r \in BackboneRows /\ r.score \in Int
                      /\ r.class \in {"canonical", "controller"}
  BY RowsAssumption
<1> HIDE DEF F, mine
<1>4. /\ IsList(D1) /\ ToSet(D1) \subseteq mine
      /\ \A i, k \in DOMAIN D1 : D1[i].file = D1[k].file => i = k
      /\ \A r \in mine : \E s \in ToSet(D1) : s.file = r.file /\ ~Higher(r, s)
  BY <1>2, <1>3, IdentityOnce
<1> HIDE DEF D1
<1>5. /\ IsList(D2) /\ ToSet(D2) \subseteq ToSet(D1)
      /\ \A i, k \in DOMAIN D2 : D2[i].hash = D2[k].hash => i = k
      /\ \A r \in ToSet(D1) : \E s \in ToSet(D2) : s.hash = r.hash /\ ~Precedes(r, s)
  <2>1. \A r \in ToSet(D1) : r \in BackboneRows
    BY <1>3, <1>4
  <2> QED
    BY <1>4, <2>1, ContentHashOnce
<1> HIDE DEF D2
<1> DEFINE S == {i \in DOMAIN D2 : D2[i].score >= MinScore}
<1>6. /\ \A m \in DOMAIN shown : Nth(S, m) \in S /\ shown[m] = D2[Nth(S, m)]
      /\ \A m, k \in DOMAIN shown : Nth(S, m) = Nth(S, k) => m = k
      /\ ToSet(shown) = {D2[p] : p \in S}
  <2>1. S \in SUBSET DOMAIN D2 /\ shown = Keep(D2, S)
    BY DEF AboveMin
  <2> HIDE DEF S, shown
  <2> QED
    BY <1>5, <2>1, KeepIs, KeepRows
<1> HIDE DEF shown
<1>7. ToSet(shown) = {r \in ToSet(D2) : r.score >= MinScore}
  BY <1>6 DEF ToSet
<1>8. ASSUME NEW r \in ToSet(D2), NEW s \in ToSet(D2), r.hash = s.hash
      PROVE  r = s
  BY <1>5, <1>8 DEF ToSet
<1>9. ASSUME NEW r \in ToSet(D1), NEW s \in ToSet(D1), r.file = s.file
      PROVE  r = s
  BY <1>4, <1>9 DEF ToSet
<1> DEFINE Outdone(r) == \E q \in mine \ {r} : q.file = r.file /\ q.score >= r.score
<1>10. ASSUME NEW r \in ToSet(shown)
       PROVE  /\ r \in mine /\ r.score >= MinScore
              /\ r.class = "controller" =>
                    \A q \in mine : q.hash = r.hash /\ q.class = "canonical" => Outdone(q)
  <2>1. r \in ToSet(D2) /\ r \in ToSet(D1) /\ r \in mine /\ r.score >= MinScore
    BY <1>4, <1>5, <1>7
  <2>2. ASSUME r.class = "controller", NEW q \in mine, q.hash = r.hash, q.class = "canonical"
        PROVE  Outdone(q)
    <3>1. PICK s \in ToSet(D1) : s.file = q.file /\ ~Higher(q, s)
      BY <1>4
    <3>2. s \in mine /\ s.score >= q.score
      BY <1>3, <1>4, <3>1 DEF Higher
    <3>3. CASE s = q
      <4>1. PICK t \in ToSet(D2) : t.hash = q.hash /\ ~Precedes(q, t)
        BY <1>5, <3>3
      <4>2. t = r
        BY <1>8, <2>1, <2>2, <4>1
      <4>3. Precedes(q, r)
        BY <2>2 DEF Precedes
      <4> QED
        BY <4>1, <4>2, <4>3
    <3>4. CASE s # q
      BY <3>1, <3>2, <3>4
    <3> QED
      BY <3>3, <3>4
  <2> QED
    BY <2>1, <2>2
<1>11. ASSUME NEW i \in DOMAIN shown, NEW k \in DOMAIN shown, i # k
       PROVE  shown[i].file # shown[k].file /\ shown[i].hash # shown[k].hash
  <2> DEFINE a == Nth(S, i)
             b == Nth(S, k)
  <2>1. /\ a \in DOMAIN D2 /\ b \in DOMAIN D2 /\ a # b
        /\ shown[i] = D2[a] /\ shown[k] = D2[b]
    BY <1>6, <1>11
  <2> HIDE DEF a, b
  <2>2. D2[a].hash # D2[b].hash
    BY <1>5, <2>1
  <2>3. D2[a] \in ToSet(D1) /\ D2[b] \in ToSet(D1)
    BY <1>5, <2>1 DEF ToSet
  <2>4. D2[a].file # D2[b].file
    BY <1>9, <2>2, <2>3
  <2> QED
    BY <2>1, <2>2, <2>4
<1>12. ASSUME NEW r \in mine, ~(r.score < MinScore)
       PROVE  \/ \E s \in ToSet(shown) : s.hash = r.hash
              \/ \E q \in mine : q.file = r.file /\ q.hash # r.hash /\ q.score >= r.score
              \/ \E q \in mine : q.hash = r.hash /\ q.class = "canonical" /\ q.score < MinScore
  <2>1. PICK s \in ToSet(D1) : s.file = r.file /\ ~Higher(r, s)
    BY <1>4
  <2>2. s \in mine /\ s.score >= r.score
    BY <1>3, <1>4, <2>1 DEF Higher
  <2>3. CASE s.hash # r.hash
    BY <2>1, <2>2, <2>3
  <2>4. CASE s.hash = r.hash
    <3>1. PICK t \in ToSet(D2) : t.hash = s.hash /\ ~Precedes(s, t)
      BY <1>5
    <3>2. t \in mine
      BY <1>4, <1>5
    <3>3. CASE t.score >= MinScore
      BY <1>7, <2>4, <3>1, <3>3
    <3>4. CASE ~(t.score >= MinScore)
      <4>1. t.score < MinScore /\ t.score < s.score
        BY <1>3, <1>12, <2>2, <3>2, <3>4, ReadAssumption
      <4>2. t.class = "canonical"
        BY <1>3, <2>2, <3>1, <3>2, <4>1 DEF Precedes, Higher
      <4> QED
        BY <2>4, <3>1, <3>2, <4>1, <4>2
    <3> QED
      BY <3>3, <3>4
  <2> QED
    BY <2>3, <2>4
<1> QED
  <2>1. BackboneAnswer(table, sub, shown)
    BY <1>10, <1>11, <1>12 DEF BackboneAnswer, mine
  <2> QED
    BY <1>1, <2>1 DEF shown

-----------------------------------------------------------------------------
(* Retrieval: the answer                                                   *)

\* The fields of an answer.
LEMMA AnswerFields ==
    ASSUME NEW p, NEW ask, NEW vault, NEW backbone
    PROVE  LET a == Retrieve(p, ask, vault, backbone) IN
           /\ a.vault = (IF vault.up
                         THEN AboveMin(QueryChunks(vault.rows, ask.k, ask.entity, ask.superseded))
                         ELSE <<>>)
           /\ a.backbone = (IF vault.up /\ ask.hint # "vault" /\ backbone.up
                            THEN AboveMin(Resolve(backbone.rows, p.sub)) ELSE <<>>)
           /\ a.refusal = (a.vault = <<>> /\ a.backbone = <<>>)
           /\ a.degraded = ~vault.up
           /\ a.partial = (vault.up /\ ask.hint # "vault" /\ ~backbone.up)
BY DEF Retrieve

\* The index holds rows of its own kind.
IndexInv ==
    /\ subject = "vault" => index \in Seq(VaultRows)
    /\ subject = "backbone" => index \in Seq(BackboneRows)

\* Only the step that indexes a row changes the index.
LEMMA IndexInductive == IndexInv /\ [ReadStep]_readVars => IndexInv'
<1> SUFFICES ASSUME IndexInv, [ReadStep]_readVars
             PROVE  IndexInv'
    OBVIOUS
<1>1. CASE UNCHANGED <<subject, index>>
    BY <1>1 DEF IndexInv
<1>2. CASE JobsStep
    <2>1. UNCHANGED <<subject, index>>
        BY <1>2 DEF JobsStep, CreateJob, RepeatJob, CreateLegacyJob, DelegateChild, DelegateFromSync
    <2> QED
        BY <2>1 DEF IndexInv
<1>3. ASSUME subject = "vault", NEW r \in VaultRows, IndexRow(r)
      PROVE  IndexInv'
    BY <1>3 DEF IndexInv, IndexRow
<1>4. ASSUME subject = "backbone", NEW r \in BackboneRows, IndexRow(r)
      PROVE  IndexInv'
    BY <1>4 DEF IndexInv, IndexRow
<1> QED
    BY <1>1, <1>2, <1>3, <1>4 DEF ReadStep, readVars

\* For every registry, every index and every history of tokens: what a retrieval
\* shows, hides and says of itself is what its contract says.
THEOREM RetrievalAnswers == ReadsSpec => []RetrievalSound
<1>1. ASSUME ReadsInv, IndexInv
      PROVE  RetrievalSound
    <2>1. ASSUME subject = "vault", NEW ask \in Asks, NEW backbone \in {Empty, Down}
          PROVE  VaultAsked(ask, backbone)
        <3> DEFINE p == Envelope(CHOOSE c \in DOMAIN Clients : TRUE)
                   a == Retrieve(p, ask, Full, backbone)
        <3>1. Full.up = TRUE /\ Full.rows = index
            BY DEF Full
        <3>2. /\ a.vault = AboveMin(QueryChunks(index, ask.k, ask.entity, ask.superseded))
              /\ a.refusal = (a.vault = <<>> /\ a.backbone = <<>>)
              /\ a.degraded = FALSE
              /\ a.partial = (ask.hint # "vault" /\ ~backbone.up)
            <4> HIDE DEF p
            <4>1. a.vault = AboveMin(QueryChunks(index, ask.k, ask.entity, ask.superseded))
                BY <3>1 DEF Retrieve
            <4>2. /\ a.refusal = (a.vault = <<>> /\ a.backbone = <<>>)
                  /\ a.degraded = FALSE
                  /\ a.partial = (ask.hint # "vault" /\ ~backbone.up)
                BY <3>1 DEF Retrieve
            <4> QED
                BY <4>1, <4>2
        <3>3. ask.hint \in {"vault", "any"} /\ ask.k \in Nat
            BY <2>1 DEF Asks
        <3>4. ~backbone.up <=> backbone = Down
            BY <2>1 DEF Empty, Down
        <3>5. /\ Len(index) \in Nat /\ DOMAIN index = 1 .. Len(index)
              /\ \A i \in 1 .. Len(index) : index[i] \in VaultRows
            BY <1>1, <2>1 DEF IndexInv
        <3> HIDE DEF a
        <3>6. VaultAnswer(index, ask, a.vault)
            BY <3>2, <3>3, <3>5, VaultAnswers
        <3> QED
            BY <3>2, <3>3, <3>4, <3>6 DEF a, VaultAsked, Told
    <2>2. ASSUME subject = "backbone", NEW c \in DOMAIN Clients, NEW ask \in PlainAsks
          PROVE  BackboneAsked(c, ask)
        <3> DEFINE p == ByEnvelope(c, TRUE).principal
                   a == Retrieve(p, ask, Empty, Full)
        <3> SUFFICES ASSUME ByEnvelope(c, TRUE).status = 200
                     PROVE  BackboneAsked(c, ask)
            BY DEF BackboneAsked
        <3>1. p.sub = Clients[c].sub
            BY DEF ByEnvelope, Granted, Denied, Envelope
        <3>2. /\ Full.up = TRUE /\ Full.rows = index /\ Empty.up = TRUE /\ Down.up = FALSE
            BY DEF Full, Empty, Down
        <3>3. /\ a.backbone = (IF ask.hint # "vault" THEN AboveMin(Resolve(index, p.sub)) ELSE <<>>)
              /\ a.refusal = (a.vault = <<>> /\ a.backbone = <<>>)
            <4> HIDE DEF p
            <4> QED
                BY <3>2, AnswerFields
        <3>4. Retrieve(p, ask, Down, Full).backbone = <<>>
            <4> HIDE DEF p
            <4> QED
                BY <3>2, AnswerFields
        <3>5. IsList(index) /\ \A r \in ToSet(index) : r \in BackboneRows
            BY <1>1, <2>2 DEF IndexInv, IsList, ToSet
        <3> HIDE DEF a, p
        <3>6. ask.hint # "vault" => BackboneAnswer(index, Clients[c].sub, a.backbone)
            BY <3>1, <3>3, <3>5, BackboneAnswers
        <3> QED
            BY <3>3, <3>4, <3>6 DEF a, p, BackboneAsked, Told
    <2>3. BySecret.status = 401
        BY DEF BySecret, Denied
    <2>4. ASSUME NEW c \in DOMAIN Clients
          PROVE  ByEnvelope(c, FALSE).status = 401
        BY DEF ByEnvelope, Denied
    <2>5. ASSUME NEW t \in issued, NEW now \in Instants, ByToken(t, now).status = 200
          PROVE  InTime(t, now) /\ ByToken(t, now).principal.sub = t.sub
        <3>1. PICK d \in DOMAIN Clients, at \in Instants : t = IssueToken(Envelope(d), at)
            BY <1>1 DEF ReadsInv, TokenOf
        <3>2. t.iat = at /\ t.exp = at + Ttl
            BY <3>1 DEF IssueToken
        <3>3. at \in Int /\ now \in Int /\ Ttl \in Int /\ Leeway \in Int
            BY ReadAssumption
        <3>4. TokenValid(t, now) /\ ByToken(t, now) = Granted(TokenPrincipal(t))
            BY <2>5 DEF ByToken, Denied
        <3>5. InTime(t, now)
            BY <3>2, <3>3, <3>4 DEF TokenValid, InTime
        <3> QED
            BY <3>4, <3>5 DEF Granted, TokenPrincipal
    <2>6. BySecret.status = 401 /\ \A c \in DOMAIN Clients : ByEnvelope(c, FALSE).status = 401
        BY <2>3, <2>4
    <2>7. subject = "jobs" => \A t \in issued, now \in Instants :
             ByToken(t, now).status = 200 => InTime(t, now) /\ ByToken(t, now).principal.sub = t.sub
        BY <2>5
    <2> QED
        BY <2>1, <2>2, <2>6, <2>7 DEF RetrievalSound
<1>2. InitReads => ReadsInv /\ IndexInv
    <2>1. InitReads => IndexInv
        BY DEF InitReads, IndexInv
    <2> QED
        BY <2>1, ReadsInitially
<1>3. ReadsInv /\ IndexInv /\ [ReadStep]_readVars => ReadsInv' /\ IndexInv'
    BY ReadsInductive, IndexInductive
<1> QED
    BY <1>1, <1>2, <1>3, PTL DEF ReadsSpec

=============================================================================
