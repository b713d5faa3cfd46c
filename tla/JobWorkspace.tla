---------------------------- MODULE JobWorkspace ----------------------------
(***************************************************************************)
(* The directory of a job and what runs in it.                             *)
(*                                                                         *)
(* runtime/workspace_manager.py keeps a registry of workspaces in memory,  *)
(* runtime/sandbox_manager.py runs shell commands behind bwrap, and        *)
(* tools/workspace_shell_tool.py and tools/sandbox_tool.py offer commands  *)
(* and Python code to an agent.  An agent awaits one tool call at a time,  *)
(* and the command or the code runs in a thread of its own, so that the    *)
(* event loop serves other jobs and the sandbox routes of main.py          *)
(* meanwhile.  Threads share one unlocked variable: the cached outcome of  *)
(* the bwrap probe.                                                        *)
(***************************************************************************)
EXTENDS Naturals, FiniteSets

CONSTANTS
    Jobs,       \* job identifiers
    Keys,       \* idempotency keys of Xero posts: agent, operation, VerifyAPI run
    MaxCalls,   \* bound on tool calls of all agents
    MaxRoutes,  \* bound on sandbox requests
    MaxFaults   \* bound on crashes and failures of the host

ASSUME WorkspaceBounds == {MaxCalls, MaxRoutes, MaxFaults} \subseteq Nat

VARIABLES
    agent,      \* agent[j]: has the agent of job j started, is it over
    registry,   \* registry[j]: status of the registered workspace, or "none"
    disk,       \* disk[j]: the directory of j and its idempotency file
    pc, call,   \* pc[j], call[j]: where the tool call of job j stands, and what it is
    answer,     \* answer[j]: what the last tool call told the agent of job j, while it is idle
    bwrap,      \* _BWRAP_OK: the cached outcome of the probe
    proc,       \* proc[j]: processes that calls of job j started and that are alive
    temp,       \* temp[j]: temporary code files of job j that exist
    strands,    \* strands[j]: code files no finally clause will ever remove
    amnesia,    \* amnesia[j]: times job j lost its record of posts, or failed to write it
    tally       \* tool calls, sandbox requests and faults so far

sandboxVars == <<bwrap, proc, temp, strands, amnesia>>

Statuses == {"ACTIVE", "FINALIZING", "UPLOADED", "CLEANED", "FAILED"}

\* The file xero_scoped_idempotency.json of a job: its keys, or unreadable text.
Files == [readable : BOOLEAN, keys : SUBSET Keys]
NoFile == [readable |-> TRUE, keys |-> {}]

\* What guard_command and the confinement of cwd tell apart.
Commands == {"plain", "denied", "outside"}

\* "boxed": a command behind bwrap, with all its descendants; "bare": the Python
\* process of run_code; "orphan": processes that Python code started and left, or
\* such code itself after the gateway died.
Processes == {"boxed", "bare", "orphan"}

\* Python code: it runs, cannot be written to a file, or is refused for its length or
\* language.
Codes == {"plain", "unwritable", "refused"}

Ok == [ok |-> TRUE, error |-> "none"]
Err(e) == [ok |-> FALSE, error |-> e]
NoAnswer == Err("none")
NoCall == "none"

Idle(j) == agent[j] = "running" /\ pc[j] = "idle"

\* A tool call of job j begins.
Begin(j) ==
    /\ Idle(j) /\ tally.calls < MaxCalls
    /\ tally' = [tally EXCEPT !.calls = @ + 1]

\* It reaches stage s, where something is awaited.
Enter(j, c, s) ==
    /\ Begin(j)
    /\ pc' = [pc EXCEPT ![j] = s]
    /\ call' = [call EXCEPT ![j] = c]
    /\ answer' = [answer EXCEPT ![j] = NoAnswer]

\* It is answered without awaiting anything.
Immediate(j, r) ==
    /\ Begin(j)
    /\ answer' = [answer EXCEPT ![j] = r]
    /\ UNCHANGED <<pc, call>>

Goto(j, s) == pc' = [pc EXCEPT ![j] = s] /\ UNCHANGED <<call, answer>>

\* The tool of job j returns r to the agent loop.
Return(j, r) ==
    /\ pc' = [pc EXCEPT ![j] = "idle"]
    /\ call' = [call EXCEPT ![j] = NoCall]
    /\ answer' = [answer EXCEPT ![j] = r]

Fault ==
    /\ tally.faults < MaxFaults
    /\ tally' = [tally EXCEPT !.faults = @ + 1]

MakeDir(j) == disk' = [disk EXCEPT ![j].dir = TRUE]

-----------------------------------------------------------------------------
(* The registry                                                            *)

\* create_workspace makes the directory only for a job it does not know.
CreateWorkspace(j) ==
    IF registry[j] = "none" THEN MakeDir(j) ELSE UNCHANGED disk

\* AgentRuntime.run registers the workspace and marks it ACTIVE.
StartAgent(j) ==
    /\ agent[j] = "new"
    /\ agent' = [agent EXCEPT ![j] = "running"]
    /\ CreateWorkspace(j)
    /\ registry' = [registry EXCEPT ![j] = "ACTIVE"]
    /\ UNCHANGED <<sandboxVars, pc, call, answer, tally>>

\* The run is over.  Only a run that reached its last turn marks the workspace.
EndAgent(j) ==
    /\ Idle(j)
    /\ agent' = [agent EXCEPT ![j] = "over"]
    /\ \/ registry' = [registry EXCEPT ![j] = IF @ = "none" THEN @ ELSE "FINALIZING"]
       \/ UNCHANGED registry
    /\ answer' = [answer EXCEPT ![j] = NoAnswer]
    /\ UNCHANGED <<sandboxVars, disk, pc, call, tally>>

Route ==
    /\ tally.routes < MaxRoutes
    /\ tally' = [tally EXCEPT !.routes = @ + 1]
    /\ UNCHANGED <<agent, pc, call, answer, proc, temp, strands>>

\* isolation_mode as a route evaluates it: the whole probe, without a thread.
ProbeHere ==
    IF bwrap = "unprobed" THEN bwrap' \in {"works", "broken"} ELSE UNCHANGED bwrap

\* POST /agents/jobs/{id}/sandbox: create_sandbox makes the subdirectories, and
\* with them the directory, even where create_workspace did not.
CreateSandbox(j) ==
    /\ Route
    /\ registry' = [registry EXCEPT ![j] = "ACTIVE"]
    /\ MakeDir(j)
    /\ ProbeHere
    /\ UNCHANGED amnesia

\* rmtree with ignore_errors: the tree is gone, or something in it resisted, the
\* idempotency file or another.
RemoveTree(j) ==
    \/ disk' = [disk EXCEPT ![j] = [dir |-> FALSE, file |-> NoFile]]
    \/ /\ disk[j].dir
       /\ \E f \in {disk[j].file, NoFile} : disk' = [disk EXCEPT ![j].file = f]

\* POST /agents/jobs/{id}/sandbox/destroy.  An unknown job changes nothing (404);
\* the default policy keeps the files, and a purge does nothing where clean-up is
\* switched off.
DestroySandbox(j) ==
    /\ Route
    /\ registry[j] # "none"
    /\ \/ /\ registry' = [registry EXCEPT ![j] = "UPLOADED"]
          /\ UNCHANGED disk
          /\ UNCHANGED amnesia
       \/ /\ registry' = [registry EXCEPT ![j] = "CLEANED"]
          /\ RemoveTree(j)
          /\ amnesia' = [amnesia EXCEPT ![j] = IF disk'[j].file = disk[j].file THEN @ ELSE @ + 1]
       \/ /\ registry' = [registry EXCEPT ![j] = "FAILED"]
          /\ UNCHANGED <<disk, amnesia>>
       \/ UNCHANGED <<registry, disk, amnesia>>
    /\ UNCHANGED bwrap

-----------------------------------------------------------------------------
(* workspace_shell and run_in_sandbox                                      *)

\* guard_command, then the directories are made, in whatever state the registry
\* is, then cwd is confined.
ShellCall(j, cmd) ==
    /\ UNCHANGED <<agent, registry, sandboxVars>>
    /\ \/ /\ cmd = "denied"
          /\ Enter(j, cmd, "probe")
          /\ UNCHANGED disk
       \/ /\ cmd = "plain"
          /\ Enter(j, cmd, "probe")
          /\ MakeDir(j)
       \/ /\ cmd = "outside"
          /\ MakeDir(j)
          /\ Immediate(j, Err("path_escape_blocked"))

\* _bwrap_works: without a cached outcome the thread starts a probe of its own.
ReadCache(j) ==
    /\ pc[j] = "probe"
    /\ Goto(j, IF bwrap = "unprobed" THEN "probing" ELSE "probed")
    /\ UNCHANGED <<agent, registry, disk, sandboxVars, tally>>

\* The probe ends; the last one to end overwrites the outcome of the others.
EndProbe(j) ==
    /\ pc[j] = "probing"
    /\ bwrap' \in {"works", "broken"}
    /\ Goto(j, "probed")
    /\ UNCHANGED <<agent, registry, disk, proc, temp, strands, amnesia, tally>>

\* The answer of _bwrap_works is the global variable as it is now.
Decide(j) ==
    /\ pc[j] = "probed"
    /\ IF call[j] = "denied" THEN Return(j, Err("command_blocked"))
       ELSE IF bwrap = "works" THEN Goto(j, "spawn")
       ELSE Return(j, Err("secure_sandbox_unavailable"))
    /\ UNCHANGED <<agent, registry, disk, sandboxVars, tally>>

\* Popen.  bwrap itself fails at once when the directory was purged meanwhile.
Spawn(j) ==
    /\ pc[j] = "spawn"
    /\ UNCHANGED <<agent, registry, disk, bwrap, temp, strands, amnesia>>
    /\ \/ /\ disk[j].dir
          /\ proc' = [proc EXCEPT ![j] = @ \cup {"boxed"}]
          /\ Goto(j, "waiting") /\ UNCHANGED tally
       \/ /\ ~disk[j].dir
          /\ Return(j, Err("exit_code")) /\ UNCHANGED <<proc, tally>>
       \/ Fault /\ Return(j, Err("spawn_failed")) /\ UNCHANGED proc

\* The process that the call waited for is gone: it ended, or the kernel killed it.
Reap(j) == proc' = [proc EXCEPT ![j] = @ \ {"boxed", "bare"}]

\* The same, but what the process had started goes on.
ReapParent(j) == proc' = [proc EXCEPT ![j] = (@ \ {"bare"}) \cup {"orphan"}]

\* The command ends by itself, with any exit code; a purge under it fails it.
CommandEnds(j) ==
    /\ pc[j] = "waiting"
    /\ Reap(j)
    /\ \/ disk[j].dir /\ Return(j, Ok)
       \/ Return(j, Err("exit_code"))
    /\ UNCHANGED <<agent, registry, disk, bwrap, temp, strands, amnesia, tally>>

\* mutant: the answer after the deadline without the kill before it.
CommandAbandoned(j) ==
    /\ pc[j] = "waiting"
    /\ UNCHANGED <<agent, registry, disk, sandboxVars>>
    /\ \/ Return(j, Err("timeout")) /\ UNCHANGED tally
       \/ Fault /\ Return(j, Err("exception"))

\* The deadline of communicate passes, or reading the pipes raises: _kill_tree
\* ends the process group, and with it the pid namespace.
CommandKilled(j) ==
    /\ pc[j] = "waiting"
    /\ Reap(j)
    /\ UNCHANGED <<agent, registry, disk, bwrap, temp, strands, amnesia>>
    /\ \/ Return(j, Err("timeout")) /\ UNCHANGED tally
       \/ Fault /\ Return(j, Err("exception"))

-----------------------------------------------------------------------------
(* run_code                                                                *)

\* The code goes to a temporary file that is created before the try block: when
\* writing it fails nobody removes the file.
CodeCall(j, code) ==
    /\ UNCHANGED <<agent, registry, disk, bwrap, amnesia>>
    /\ temp' = [temp EXCEPT ![j] = IF code = "refused" THEN @ ELSE @ + 1]
    /\ \/ /\ code = "refused"
          /\ Immediate(j, Err("refused"))
          /\ UNCHANGED <<proc, strands>>
       \/ /\ code = "plain"
          /\ Enter(j, code, "coding")
          /\ proc' = [proc EXCEPT ![j] = @ \cup {"bare"}]
          /\ UNCHANGED strands
       \/ /\ code = "unwritable"
          /\ Immediate(j, Err("exception"))
          /\ strands' = [strands EXCEPT ![j] = @ + 1]
          /\ UNCHANGED proc

\* subprocess.run returns, kills the child at the deadline and raises, or raises for
\* another reason; the finally clause removes the file.  Nobody ends what the code
\* started in its turn: there is no process group and no namespace.
CodeEnds(j) ==
    /\ pc[j] = "coding"
    /\ Reap(j) \/ ReapParent(j)
    /\ temp' = [temp EXCEPT ![j] = @ - 1]
    /\ \E r \in {Ok, Err("exit_code"), Err("timeout"), Err("exception")} : Return(j, r)
    /\ UNCHANGED <<agent, registry, disk, bwrap, strands, amnesia, tally>>

\* What code left behind ends by itself.
OrphansEnd(j) ==
    /\ "orphan" \in proc[j]
    /\ proc' = [proc EXCEPT ![j] = @ \ {"orphan"}]
    /\ UNCHANGED <<agent, registry, disk, pc, call, answer, bwrap, temp, strands, amnesia, tally>>

-----------------------------------------------------------------------------
\* The gateway process dies and starts again: memory is lost, --die-with-parent
\* ends the boxed commands, running code goes on as nobody's child, and the disk
\* stays as it is, code files included.
CrashWorkspace ==
    /\ Fault
    /\ agent' = [j \in Jobs |-> IF agent[j] = "running" THEN "over" ELSE agent[j]]
    /\ registry' = [j \in Jobs |-> "none"]
    /\ pc' = [j \in Jobs |-> "idle"]
    /\ call' = [j \in Jobs |-> NoCall]
    /\ answer' = [j \in Jobs |-> NoAnswer]
    /\ proc' = [j \in Jobs |-> IF proc[j] \ {"boxed"} = {} THEN {} ELSE {"orphan"}]
    /\ strands' = [j \in Jobs |-> IF pc[j] = "coding" THEN strands[j] + 1 ELSE strands[j]]
    /\ bwrap' = "unprobed"
    /\ UNCHANGED <<disk, temp, amnesia>>

InitWorkspace ==
    /\ agent = [j \in Jobs |-> "new"]
    /\ registry = [j \in Jobs |-> "none"]
    /\ disk = [j \in Jobs |-> [dir |-> FALSE, file |-> NoFile]]
    /\ pc = [j \in Jobs |-> "idle"]
    /\ call = [j \in Jobs |-> NoCall]
    /\ answer = [j \in Jobs |-> NoAnswer]
    /\ bwrap = "unprobed"
    /\ proc = [j \in Jobs |-> {}]
    /\ temp = [j \in Jobs |-> 0]
    /\ strands = [j \in Jobs |-> 0]
    /\ amnesia = [j \in Jobs |-> 0]
    /\ tally = [calls |-> 0, routes |-> 0, faults |-> 0]

WorkspaceStep(j) ==
    \/ StartAgent(j) \/ EndAgent(j)
    \/ CreateSandbox(j) \/ DestroySandbox(j)
    \/ \E cmd \in Commands : ShellCall(j, cmd)
    \/ ReadCache(j) \/ EndProbe(j) \/ Decide(j) \/ Spawn(j)
    \/ CommandEnds(j) \/ CommandKilled(j)
    \/ \E code \in Codes : CodeCall(j, code)
    \/ CodeEnds(j) \/ OrphansEnd(j)

-----------------------------------------------------------------------------
(* Properties                                                              *)

\* No shell command outlives its call, with all it started, whichever way the call
\* ends and even when the gateway dies (_kill_tree, --die-with-parent); the Python
\* process of run_code outlives its call only when the gateway dies; and every code
\* file belongs to running code or to a call that lost it before its try block or
\* in a crash.  What Python code itself started may go on for ever: that is an
\* "orphan", of which nothing is said.
NothingLeftBehind ==
    \A j \in Jobs :
        /\ "boxed" \in proc[j] => pc[j] = "waiting"
        /\ "bare" \in proc[j] => pc[j] = "coding"
        /\ temp[j] = strands[j] + (IF pc[j] = "coding" THEN 1 ELSE 0)

=============================================================================
