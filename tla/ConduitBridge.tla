---------------------------- MODULE ConduitBridge ---------------------------
(***************************************************************************)
(* The browser of an agent job (conduit_browser.py, tools/conduit_tool.py) *)
(* and the vault of buyer sessions (conduit_sessions.py), as               *)
(* AgentRuntime._execute_agent_inner uses them around the agent loop.      *)
(*                                                                         *)
(* What the pages hold and what a browser action answers is left out: an   *)
(* action that finds a page changes nothing here.                          *)
(***************************************************************************)
EXTENDS Naturals, FiniteSets

CONSTANTS
    Runs,                    \* agent jobs whose bundle may advertise conduit
    MaxCalls, MaxFaults      \* bounds: conduit calls of a run, failures

ASSUME BridgeAssumption == MaxCalls \in Nat /\ MaxFaults \in Nat

VARIABLES
    run,        \* per run: where it is, and its ConduitBridge
    vault,      \* per run: its session file, "late" if it was stored after the run ended
    chromes,    \* Chromium processes alive
    strikes,    \* history: starts and stops of a bridge that failed half way
    kept,       \* history: runs whose delete_session failed
    faults

bridgeVars == <<run, vault, chromes, strikes, kept, faults>>

NoBridge == [at |-> "idle", bridge |-> FALSE, held |-> FALSE, page |-> FALSE, calls |-> 0]

BridgeInit ==
    /\ run = [r \in Runs |-> NoBridge]
    /\ vault = [r \in Runs |-> "none"]
    /\ chromes = 0 /\ strikes = 0 /\ kept = {} /\ faults = 0

Fault == faults < MaxFaults /\ faults' = faults + 1

\* Failures that the environment never needs to produce.
Works == faults' = faults

-----------------------------------------------------------------------------
(* The vault                                                               *)

\* Ways to end: through the code that clears the vault; before it; with the process.
Ended == {"over", "barred", "dead"}

\* POST /jobs/{id}/session, at any time: nothing asks how far the job is.
Stored(r) == IF run[r].at \in Ended THEN "late" ELSE "early"

StoreSession(r) ==
    /\ vault[r] = "none"
    /\ vault' = [vault EXCEPT ![r] = Stored(r)]
    /\ UNCHANGED <<run, chromes, strikes, kept, faults>>

\* load_session finds a file; whether it can be decrypted is for the caller to see.
LoadSession(r) == vault[r] # "none"

\* delete_session: overwrite and unlink. An error is a result nobody reads.
DeleteSession(r) ==
    \/ /\ Works /\ vault' = [vault EXCEPT ![r] = "none"] /\ UNCHANGED kept
    \/ /\ vault[r] # "none" /\ Fault /\ kept' = kept \cup {r} /\ UNCHANGED vault

-----------------------------------------------------------------------------
(* _execute_agent_inner                                                    *)

\* The slug is unknown, or the entity pack of a specialist cannot be loaded: a return
\* before anything looks at the vault, and outside the try whose finally clears it.
BarRun(r) ==
    /\ run[r].at = "idle"
    /\ run' = [run EXCEPT ![r].at = "barred"]
    /\ UNCHANGED <<vault, chromes, strikes, kept, faults>>

\* The bundle does not advertise conduit, or its session cannot be decrypted,
\* or there is none: the loop runs, with or without a bridge.
BeginRun(r) ==
    /\ run[r].at = "idle"
    /\ \E advertised \in BOOLEAN :
        /\ \/ ~advertised /\ Works
           \/ ~LoadSession(r) /\ Works
           \/ LoadSession(r) /\ Fault
        /\ run' = [run EXCEPT ![r].at = "loop", ![r].bridge = advertised]
    /\ UNCHANGED <<vault, chromes, strikes, kept>>

\* mutant: the early return relies on the finally it comes before.
RefuseWithSession(r) ==
    /\ run[r].at = "idle" /\ LoadSession(r)
    /\ run' = [run EXCEPT ![r].at = "over"]
    /\ UNCHANGED <<vault, chromes, strikes, kept, faults>>

\* The vault has a session: delete it and refuse the job, outside the try
\* whose finally would delete it.
RefuseRun(r) ==
    /\ run[r].at = "idle" /\ LoadSession(r)
    /\ DeleteSession(r)
    /\ run' = [run EXCEPT ![r].at = "over"]
    /\ UNCHANGED <<chromes, strikes>>

\* conduit_call, ensure_started, start: launch, then new_page.
ConduitCall(r) ==
    /\ run[r].at = "loop" /\ run[r].bridge /\ run[r].calls < MaxCalls
    /\ run' = [run EXCEPT ![r].calls = @ + 1, ![r].at = IF run[r].page THEN "loop" ELSE "launch"]
    /\ UNCHANGED <<vault, chromes, strikes, kept, faults>>

\* The new Chromium takes the place of one an earlier start left behind.
Launch(r) ==
    /\ run[r].at = "launch"
    /\ chromes' = chromes + 1
    /\ run' = [run EXCEPT ![r].at = "page", ![r].held = TRUE]
    /\ UNCHANGED <<vault, strikes, kept, faults>>

\* conduit_call turns the exception into a tool result.
LaunchFails(r) ==
    /\ run[r].at = "launch" /\ Fault
    /\ run' = [run EXCEPT ![r].at = "loop"]
    /\ UNCHANGED <<vault, chromes, strikes, kept>>

OpenPage(r) ==
    /\ run[r].at = "page"
    /\ run' = [run EXCEPT ![r].at = "loop", ![r].page = TRUE]
    /\ UNCHANGED <<vault, chromes, strikes, kept, faults>>

\* new_page raises: _browser is set and _page is not, so the next call starts again.
\* Raised by route(), one line on, the page is set.
OpenPageFails(r) ==
    /\ run[r].at = "page" /\ Fault
    /\ \E set \in BOOLEAN : run' = [run EXCEPT ![r].at = "loop", ![r].page = set]
    /\ strikes' = strikes + 1
    /\ UNCHANGED <<vault, chromes, kept>>

EndLoop(r) ==
    /\ run[r].at = "loop"
    /\ run' = [run EXCEPT ![r].at = "stop"]
    /\ UNCHANGED <<vault, chromes, strikes, kept, faults>>

\* mutant: the bridge has no stop(), and the error is only logged.
StopMissing(r) ==
    /\ run[r].at = "stop" /\ Works
    /\ run' = [run EXCEPT ![r].at = "clean", ![r].held = FALSE, ![r].page = FALSE]
    /\ UNCHANGED <<vault, chromes, strikes, kept>>

\* bridge.stop(): close the browser it holds and the driver. Both errors are
\* swallowed and the references dropped all the same.
Stop(r) ==
    /\ run[r].at = "stop"
    /\ run' = [run EXCEPT ![r].at = "clean", ![r].held = FALSE, ![r].page = FALSE]
    /\ \/ /\ Works
          /\ chromes' = IF run[r].held THEN chromes - 1 ELSE chromes
          /\ UNCHANGED strikes
       \/ /\ run[r].held /\ Fault
          /\ strikes' = strikes + 1 /\ UNCHANGED chromes
    /\ UNCHANGED <<vault, kept>>

\* The end of the finally clause.
Clean(r) ==
    /\ run[r].at = "clean"
    /\ DeleteSession(r)
    /\ run' = [run EXCEPT ![r].at = "over"]
    /\ UNCHANGED <<chromes, strikes>>

\* The process dies, its browsers with it, and the session files stay.  A job that
\* waits in the queue is run later; the job of a run that was under way is at most
\* marked EXPIRED, and a claim takes QUEUED jobs only.
RunsRestart ==
    /\ run' = [r \in Runs |-> IF run[r].at \in {"idle"} \cup Ended THEN run[r]
                               ELSE [NoBridge EXCEPT !.at = "dead"]]
    /\ chromes' = 0 /\ strikes' = 0
    /\ UNCHANGED <<vault, kept>>

RunStep(r) ==
    \/ BarRun(r) \/ BeginRun(r) \/ RefuseRun(r) \/ ConduitCall(r) \/ Launch(r) \/ OpenPage(r)
    \/ EndLoop(r) \/ Stop(r) \/ Clean(r)

RunFault(r) == LaunchFails(r) \/ OpenPageFails(r)

-----------------------------------------------------------------------------
(* Properties                                                              *)

\* _execute_agent_inner: once a run that got as far as the vault has returned, no
\* credential stored before its end is left on disk unless the deletion itself
\* failed.  Of a run that was barred or died with the process nothing is said:
\* nobody deletes its session.
SessionsCleared ==
    \A r \in Runs : run[r].at = "over" /\ vault[r] = "early" => r \in kept

Holders == {r \in Runs : run[r].held}
=============================================================================
