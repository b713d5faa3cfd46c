------------------------- MODULE GenesisJobsProofs -------------------------
(***************************************************************************)
(* Safety of the job pipeline for every number of jobs, coroutines,        *)
(* requests, crashes and store errors.                                     *)
(***************************************************************************)
EXTENDS GenesisJobs, FiniteSetTheorems, TLAPS

\* The new_status in the hands of an actor that is updating a row is one its
\* caller passes: an outcome of process_job or a human move.
NewInv ==
    /\ \A c \in Contexts : pc[c] \in {"select", "write"} => new[c] \in Outcomes
    /\ \A h \in Humans : pc[h] \in {"release", "select", "write", "note"} =>
                            new[h] \in HumanMoves /\ cur[h] \in Rows
    /\ \A h \in Humans : pc[h] \in {"idle", "release", "select", "write", "note"}
    /\ \A c \in Contexts : pc[c] \notin {"release", "note"}
    /\ \A c \in Contexts : final[c] \in Outcomes \cup {"NONE"}
    /\ \A c \in Contexts : pc[c] \in {"escrow", "callback"} => final[c] \in Outcomes

Busy == {"running", "select", "write", "escrow", "stop", "callback"}

\* A coroutine processes a job exactly while it is in process_job, and runs a
\* child only while the agent runs.
CurInv ==
    \A c \in Contexts :
        /\ cur[c] \in Jobs \cup {NoJob}
        /\ cur[c] \in Jobs <=> pc[c] \in Busy
        /\ kid[c] # NoJob => pc[c] \in {"running", "select", "write"}

\* The inductive type invariant.
Typed == TypeOK /\ NewInv /\ CurInv

\* Who holds a job: a job that can still be claimed is held by nobody and has
\* never run, a claimed job waits unrun, a job in process has run once, and no
\* two coroutines hold the same one.  This is what makes SingleExecution
\* inductive.
HoldInv ==
    /\ \A j \in Jobs : runs[j] <= 1
    /\ \A j \in Jobs : Open(j) => runs[j] = 0
    /\ \A j \in Jobs, c \in Contexts : Open(j) => ~Holds(c, j)
    /\ \A j \in Jobs, c \in Contexts : j \in rest[c] => runs[j] = 0
    /\ \A j \in Jobs, c \in Contexts : cur[c] = j => runs[j] = 1
    /\ \A j \in Jobs, c, d \in Contexts : Holds(c, j) /\ Holds(d, j) => c = d
    /\ \A c \in Contexts : pc[c] \in {"idle", "claim"} => rest[c] = {}

Early == {"running", "select", "write", "escrow"}

\* The escrow of a job is untouched until its coroutine has passed the escrow
\* step, which it passes once.
MoneyInv ==
    \A j \in Jobs :
        /\ Len(money[j]) <= 1
        /\ runs[j] = 0 => money[j] = <<>>
        /\ \A c \in Contexts : cur[c] = j /\ pc[c] \in Early => money[j] = <<>>

\* The row of a job is closed once its coroutine has been through
\* update_job_status, even if that refused.
RowInv ==
    \A c \in Contexts :
        /\ pc[c] \notin {"escrow", "stop", "callback"} => final[c] = "NONE"
        /\ pc[c] \in {"escrow", "stop", "callback"} /\ final[c] # "NONE" => Closed(cur[c])

\* The marketplace has received nothing before the callback step and at most
\* one copy per attempt in it, all with the coroutine's final_status.
PostInv ==
    /\ \A c \in Contexts : pc[c] # "callback" => tries[c] = 0
    /\ \A c \in Contexts : pc[c] = "callback" => tries[c] < MaxAttempts
    /\ \A j \in Jobs : runs[j] = 0 => posts[j] = <<>>
    /\ \A j \in Jobs, c \in Contexts :
        cur[c] = j /\ pc[c] # "callback" => posts[j] = <<>>
    /\ \A j \in Jobs, c \in Contexts :
        cur[c] = j /\ pc[c] = "callback" =>
            /\ Len(posts[j]) <= tries[c]
            /\ \A i \in 1..Len(posts[j]) : posts[j][i] = final[c]
    /\ CallbackAfterRow

LEMMA TypedInit == Init => Typed
<1> SUFFICES ASSUME Init PROVE Typed
  OBVIOUS
<1>1. TypeOK
  <2>1. RowTypes
    BY DEF Init, RowTypes, DealTerms
  <2>2. ContextTypes
    BY DEF Init, ContextTypes, Labels
  <2>3. OutsideTypes
    BY BoundsAssumption DEF Init, OutsideTypes
  <2> QED
    BY <2>1, <2>2, <2>3 DEF TypeOK
<1>2. NewInv
  BY DEF Init, NewInv, Contexts, Actors
<1>3. CurInv
  BY IdsAssumption DEF Init, CurInv, Busy, Contexts, Actors, Rows
<1> QED
  BY <1>1, <1>2, <1>3 DEF Typed

\* Every step of the pipeline keeps the types and the local invariants.
LEMMA TypedStep == Typed /\ [Next]_vars => Typed'
<1> SUFFICES ASSUME Typed, [Next]_vars PROVE Typed'
  OBVIOUS
<1> USE IdsAssumption, BoundsAssumption
    DEF Typed, TypeOK, Contexts, Actors, Ticks, Rows, Statuses, Outcomes, HumanMoves,
        TerminalJobStatuses, Events, DealTerms, Labels, Busy, rowVars, ctxVars, outVars

<1>1. ASSUME NEW j \in Jobs, NEW d \in Deals, CreateJob(j, d) PROVE Typed'
  <2>1. RowTypes'
    BY <1>1, FS_Subset, FS_CardinalityType DEF RowTypes, NewInv, CurInv, ContextTypes,
         CreateJob
  <2>2. ContextTypes'
    BY <1>1 DEF RowTypes, ContextTypes, NewInv, CurInv, CreateJob
  <2>3. OutsideTypes'
    BY <1>1 DEF ContextTypes, OutsideTypes, NewInv, CurInv, CreateJob
  <2>4. NewInv'
    BY <1>1 DEF NewInv, ContextTypes, CurInv, CreateJob
  <2>5. CurInv'
    BY <1>1 DEF CurInv, ContextTypes, NewInv, CreateJob
  <2> QED
    BY <2>1, <2>2, <2>3, <2>4, <2>5
<1>2. ASSUME NEW c \in Ticks, TickReap(c) PROVE Typed'
  <2>1. RowTypes'
    BY <1>2 DEF RowTypes, NewInv, CurInv, ContextTypes, TickReap,
         ExpireStaleRunningJobs, StaleRunning, Goto
  <2>2. ContextTypes'
    BY <1>2 DEF RowTypes, ContextTypes, NewInv, CurInv, TickReap,
         ExpireStaleRunningJobs, StaleRunning, Goto
  <2>3. OutsideTypes'
    BY <1>2 DEF ContextTypes, OutsideTypes, NewInv, CurInv, TickReap,
         ExpireStaleRunningJobs, StaleRunning, Goto
  <2>4. NewInv'
    BY <1>2 DEF NewInv, ContextTypes, CurInv, TickReap, ExpireStaleRunningJobs,
         StaleRunning, Goto
  <2>5. CurInv'
    BY <1>2 DEF CurInv, ContextTypes, NewInv, TickReap, ExpireStaleRunningJobs,
         StaleRunning, Goto
  <2> QED
    BY <2>1, <2>2, <2>3, <2>4, <2>5
<1>3. ASSUME NEW c \in Pollers, TickClaim(c) PROVE Typed'
  <2>1. RowTypes'
    BY <1>3 DEF RowTypes, NewInv, CurInv, ContextTypes, TickClaim, ClaimRows,
         OldestQueued, Queued, Goto
  <2>2. ContextTypes'
    BY <1>3 DEF RowTypes, ContextTypes, NewInv, CurInv, TickClaim, ClaimRows,
         OldestQueued, Queued, Goto
  <2>3. OutsideTypes'
    BY <1>3 DEF ContextTypes, OutsideTypes, NewInv, CurInv, TickClaim, ClaimRows,
         OldestQueued, Queued, Goto
  <2>4. NewInv'
    BY <1>3 DEF NewInv, ContextTypes, CurInv, TickClaim, ClaimRows, OldestQueued,
         Queued, Goto
  <2>5. CurInv'
    BY <1>3 DEF CurInv, ContextTypes, NewInv, TickClaim, ClaimRows, OldestQueued,
         Queued, Goto
  <2> QED
    BY <2>1, <2>2, <2>3, <2>4, <2>5
<1>4. ASSUME NEW c \in Triggers, NEW j \in Jobs, ClaimJobById(c, j) PROVE Typed'
  <2>1. RowTypes'
    BY <1>4 DEF RowTypes, NewInv, CurInv, ContextTypes, ClaimJobById, ClaimableById,
         ClaimRows, Queued, Goto
  <2>2. ContextTypes'
    BY <1>4 DEF RowTypes, ContextTypes, NewInv, CurInv, ClaimJobById, ClaimableById,
         ClaimRows, Queued, Goto
  <2>3. OutsideTypes'
    BY <1>4 DEF ContextTypes, OutsideTypes, NewInv, CurInv, ClaimJobById, ClaimableById,
         ClaimRows, Queued, Goto
  <2>4. NewInv'
    BY <1>4 DEF NewInv, ContextTypes, CurInv, ClaimJobById, ClaimableById, ClaimRows,
         Queued, Goto
  <2>5. CurInv'
    BY <1>4 DEF CurInv, ContextTypes, NewInv, ClaimJobById, ClaimableById, ClaimRows,
         Queued, Goto
  <2> QED
    BY <2>1, <2>2, <2>3, <2>4, <2>5
<1>5. ASSUME LoopReap PROVE Typed'
  <2>1. RowTypes'
    BY <1>5 DEF RowTypes, NewInv, CurInv, ContextTypes, LoopReap,
         ExpireStaleRunningJobs, StaleRunning
  <2>2. ContextTypes'
    BY <1>5 DEF RowTypes, ContextTypes, NewInv, CurInv, LoopReap,
         ExpireStaleRunningJobs, StaleRunning
  <2>3. OutsideTypes'
    BY <1>5 DEF ContextTypes, OutsideTypes, NewInv, CurInv, LoopReap,
         ExpireStaleRunningJobs, StaleRunning
  <2>4. NewInv'
    BY <1>5 DEF NewInv, ContextTypes, CurInv, LoopReap, ExpireStaleRunningJobs, StaleRunning
  <2>5. CurInv'
    BY <1>5 DEF CurInv, ContextTypes, NewInv, LoopReap, ExpireStaleRunningJobs, StaleRunning
  <2> QED
    BY <2>1, <2>2, <2>3, <2>4, <2>5
<1>6. ASSUME LoopClaim PROVE Typed'
  <2>1. RowTypes'
    BY <1>6 DEF RowTypes, NewInv, CurInv, ContextTypes, LoopClaim, ClaimRows,
         OldestQueued, Queued
  <2>2. ContextTypes'
    BY <1>6 DEF RowTypes, ContextTypes, NewInv, CurInv, LoopClaim, ClaimRows,
         OldestQueued, Queued
  <2>3. OutsideTypes'
    BY <1>6 DEF ContextTypes, OutsideTypes, NewInv, CurInv, LoopClaim, ClaimRows,
         OldestQueued, Queued
  <2>4. NewInv'
    BY <1>6 DEF NewInv, ContextTypes, CurInv, LoopClaim, ClaimRows, OldestQueued, Queued
  <2>5. CurInv'
    BY <1>6 DEF CurInv, ContextTypes, NewInv, LoopClaim, ClaimRows, OldestQueued, Queued
  <2> QED
    BY <2>1, <2>2, <2>3, <2>4, <2>5
<1>7. ASSUME HandleSignal PROVE Typed'
  <2>1. RowTypes'
    BY <1>7 DEF RowTypes, NewInv, CurInv, ContextTypes, HandleSignal
  <2>2. ContextTypes'
    BY <1>7 DEF RowTypes, ContextTypes, NewInv, CurInv, HandleSignal
  <2>3. OutsideTypes'
    BY <1>7 DEF ContextTypes, OutsideTypes, NewInv, CurInv, HandleSignal
  <2>4. NewInv'
    BY <1>7 DEF NewInv, ContextTypes, CurInv, HandleSignal
  <2>5. CurInv'
    BY <1>7 DEF CurInv, ContextTypes, NewInv, HandleSignal
  <2> QED
    BY <2>1, <2>2, <2>3, <2>4, <2>5
<1>8. ASSUME Restart PROVE Typed'
  <2>1. RowTypes'
    BY <1>8 DEF RowTypes, NewInv, CurInv, ContextTypes, Restart
  <2>2. ContextTypes'
    BY <1>8 DEF RowTypes, ContextTypes, NewInv, CurInv, Restart
  <2>3. OutsideTypes'
    BY <1>8 DEF ContextTypes, OutsideTypes, NewInv, CurInv, Restart
  <2>4. NewInv'
    BY <1>8 DEF NewInv, ContextTypes, CurInv, Restart
  <2>5. CurInv'
    BY <1>8 DEF CurInv, ContextTypes, NewInv, Restart
  <2> QED
    BY <2>1, <2>2, <2>3, <2>4, <2>5
<1>9. ASSUME NEW c \in Contexts, StartJob(c) PROVE Typed'
  <2>1. RowTypes'
    BY <1>9 DEF RowTypes, NewInv, CurInv, ContextTypes, StartJob, Goto
  <2>2. ContextTypes'
    BY <1>9 DEF RowTypes, ContextTypes, NewInv, CurInv, StartJob, Goto
  <2>3. OutsideTypes'
    BY <1>9 DEF ContextTypes, OutsideTypes, NewInv, CurInv, StartJob, Goto
  <2>4. NewInv'
    BY <1>9 DEF NewInv, ContextTypes, CurInv, StartJob, Goto
  <2>5. CurInv'
    BY <1>9 DEF CurInv, ContextTypes, NewInv, StartJob, Goto
  <2> QED
    BY <2>1, <2>2, <2>3, <2>4, <2>5
<1>10. ASSUME NEW c \in Contexts, ChildReturns(c) PROVE Typed'
  <2>1. RowTypes'
    BY <1>10 DEF RowTypes, NewInv, CurInv, ContextTypes, ChildReturns, Goto
  <2>2. ContextTypes'
    BY <1>10 DEF RowTypes, ContextTypes, NewInv, CurInv, ChildReturns, Goto
  <2>3. OutsideTypes'
    BY <1>10 DEF ContextTypes, OutsideTypes, NewInv, CurInv, ChildReturns, Goto
  <2>4. NewInv'
    BY <1>10 DEF NewInv, ContextTypes, CurInv, ChildReturns, Goto
  <2>5. CurInv'
    BY <1>10 DEF CurInv, ContextTypes, NewInv, ChildReturns, Goto
  <2> QED
    BY <2>1, <2>2, <2>3, <2>4, <2>5
<1>11. ASSUME NEW c \in Contexts, AgentReturns(c) PROVE Typed'
  <2>1. RowTypes'
    BY <1>11 DEF RowTypes, NewInv, CurInv, ContextTypes, AgentReturns, Goto
  <2>2. ContextTypes'
    BY <1>11 DEF RowTypes, ContextTypes, NewInv, CurInv, AgentReturns, Goto
  <2>3. OutsideTypes'
    BY <1>11 DEF ContextTypes, OutsideTypes, NewInv, CurInv, AgentReturns, Goto
  <2>4. NewInv'
    BY <1>11 DEF NewInv, ContextTypes, CurInv, AgentReturns, Goto
  <2>5. CurInv'
    BY <1>11 DEF CurInv, ContextTypes, NewInv, AgentReturns, Goto
  <2> QED
    BY <2>1, <2>2, <2>3, <2>4, <2>5
<1>12. ASSUME NEW c \in Contexts, AgentRaises(c) PROVE Typed'
  <2>1. RowTypes'
    BY <1>12 DEF RowTypes, NewInv, CurInv, ContextTypes, AgentRaises, Goto
  <2>2. ContextTypes'
    BY <1>12 DEF RowTypes, ContextTypes, NewInv, CurInv, AgentRaises, Goto
  <2>3. OutsideTypes'
    BY <1>12 DEF ContextTypes, OutsideTypes, NewInv, CurInv, AgentRaises, Goto
  <2>4. NewInv'
    BY <1>12 DEF NewInv, ContextTypes, CurInv, AgentRaises, Goto
  <2>5. CurInv'
    BY <1>12 DEF CurInv, ContextTypes, NewInv, AgentRaises, Goto
  <2> QED
    BY <2>1, <2>2, <2>3, <2>4, <2>5
<1>13. ASSUME NEW c \in Contexts, EscrowCall(c) PROVE Typed'
  <2>1. RowTypes'
    BY <1>13 DEF RowTypes, NewInv, CurInv, ContextTypes, EscrowCall, Goto
  <2>2. ContextTypes'
    BY <1>13 DEF RowTypes, ContextTypes, NewInv, CurInv, EscrowCall, Goto
  <2>3. OutsideTypes'
    BY <1>13 DEF ContextTypes, OutsideTypes, NewInv, CurInv, EscrowCall, Goto
  <2>4. NewInv'
    BY <1>13 DEF NewInv, ContextTypes, CurInv, EscrowCall, Goto
  <2>5. CurInv'
    BY <1>13 DEF CurInv, ContextTypes, NewInv, EscrowCall, Goto
  <2> QED
    BY <2>1, <2>2, <2>3, <2>4, <2>5
<1>14. ASSUME NEW c \in Contexts, EscrowUnmoved(c) PROVE Typed'
  <2>1. RowTypes'
    BY <1>14 DEF RowTypes, NewInv, CurInv, ContextTypes, EscrowUnmoved, Goto
  <2>2. ContextTypes'
    BY <1>14 DEF RowTypes, ContextTypes, NewInv, CurInv, EscrowUnmoved, Goto
  <2>3. OutsideTypes'
    BY <1>14 DEF ContextTypes, OutsideTypes, NewInv, CurInv, EscrowUnmoved, Goto
  <2>4. NewInv'
    BY <1>14 DEF NewInv, ContextTypes, CurInv, EscrowUnmoved, Goto
  <2>5. CurInv'
    BY <1>14 DEF CurInv, ContextTypes, NewInv, EscrowUnmoved, Goto
  <2> QED
    BY <2>1, <2>2, <2>3, <2>4, <2>5
<1>15. ASSUME NEW c \in Contexts, StopRaises(c) PROVE Typed'
  <2>1. RowTypes'
    BY <1>15 DEF RowTypes, NewInv, CurInv, ContextTypes, StopRaises, JobRaises,
         ForgetLocals, Goto
  <2>2. ContextTypes'
    BY <1>15 DEF RowTypes, ContextTypes, NewInv, CurInv, StopRaises, JobRaises,
         ForgetLocals, Goto
  <2>3. OutsideTypes'
    BY <1>15 DEF ContextTypes, OutsideTypes, NewInv, CurInv, StopRaises, JobRaises,
         ForgetLocals, Goto
  <2>4. NewInv'
    BY <1>15 DEF NewInv, ContextTypes, CurInv, StopRaises, JobRaises, ForgetLocals, Goto
  <2>5. CurInv'
    BY <1>15 DEF CurInv, ContextTypes, NewInv, StopRaises, JobRaises, ForgetLocals, Goto
  <2> QED
    BY <2>1, <2>2, <2>3, <2>4, <2>5
<1>16. ASSUME NEW c \in Contexts, StopReturns(c) PROVE Typed'
  <2>1. RowTypes'
    BY <1>16 DEF RowTypes, NewInv, CurInv, ContextTypes, StopReturns, JobDone,
         ForgetLocals, Goto
  <2>2. ContextTypes'
    BY <1>16 DEF RowTypes, ContextTypes, NewInv, CurInv, StopReturns, JobDone,
         ForgetLocals, Goto
  <2>3. OutsideTypes'
    BY <1>16 DEF ContextTypes, OutsideTypes, NewInv, CurInv, StopReturns, JobDone,
         ForgetLocals, Goto
  <2>4. NewInv'
    BY <1>16 DEF NewInv, ContextTypes, CurInv, StopReturns, JobDone, ForgetLocals, Goto
  <2>5. CurInv'
    BY <1>16 DEF CurInv, ContextTypes, NewInv, StopReturns, JobDone, ForgetLocals, Goto
  <2> QED
    BY <2>1, <2>2, <2>3, <2>4, <2>5
<1>17. ASSUME NEW c \in Contexts, StopThenCallback(c) PROVE Typed'
  <2>1. RowTypes'
    BY <1>17 DEF RowTypes, NewInv, CurInv, ContextTypes, StopThenCallback,
         WantsCallback, Goto
  <2>2. ContextTypes'
    BY <1>17 DEF RowTypes, ContextTypes, NewInv, CurInv, StopThenCallback,
         WantsCallback, Goto
  <2>3. OutsideTypes'
    BY <1>17 DEF ContextTypes, OutsideTypes, NewInv, CurInv, StopThenCallback,
         WantsCallback, Goto
  <2>4. NewInv'
    BY <1>17 DEF NewInv, ContextTypes, CurInv, StopThenCallback, WantsCallback, Goto
  <2>5. CurInv'
    BY <1>17 DEF CurInv, ContextTypes, NewInv, StopThenCallback, WantsCallback, Goto
  <2> QED
    BY <2>1, <2>2, <2>3, <2>4, <2>5
<1>18. ASSUME NEW c \in Contexts, CallbackArrives(c) PROVE Typed'
  <2>1. CASE JobDone(c)
    <3>1. RowTypes'
      BY <1>18, <2>1 DEF RowTypes, NewInv, CurInv, ContextTypes, CallbackArrives,
           JobDone, ForgetLocals, Goto
    <3>2. ContextTypes'
      BY <1>18, <2>1 DEF RowTypes, ContextTypes, NewInv, CurInv, CallbackArrives,
           JobDone, ForgetLocals, Goto
    <3>3. OutsideTypes'
      BY <1>18, <2>1 DEF ContextTypes, OutsideTypes, NewInv, CurInv, CallbackArrives,
           JobDone, ForgetLocals, Goto
    <3>4. NewInv'
      BY <1>18, <2>1 DEF NewInv, ContextTypes, CurInv, CallbackArrives, JobDone,
           ForgetLocals, Goto
    <3>5. CurInv'
      BY <1>18, <2>1 DEF CurInv, ContextTypes, NewInv, CallbackArrives, JobDone,
           ForgetLocals, Goto
    <3> QED
      BY <3>1, <3>2, <3>3, <3>4, <3>5
  <2>2. CASE CallbackWaits(c)
    <3>1. RowTypes'
      BY <1>18, <2>2 DEF RowTypes, NewInv, CurInv, ContextTypes, CallbackArrives,
           CallbackWaits
    <3>2. ContextTypes'
      BY <1>18, <2>2 DEF RowTypes, ContextTypes, NewInv, CurInv, CallbackArrives,
           CallbackWaits
    <3>3. OutsideTypes'
      BY <1>18, <2>2 DEF ContextTypes, OutsideTypes, NewInv, CurInv, CallbackArrives,
           CallbackWaits
    <3>4. NewInv'
      BY <1>18, <2>2 DEF NewInv, ContextTypes, CurInv, CallbackArrives, CallbackWaits
    <3>5. CurInv'
      BY <1>18, <2>2 DEF CurInv, ContextTypes, NewInv, CallbackArrives, CallbackWaits
    <3> QED
      BY <3>1, <3>2, <3>3, <3>4, <3>5
  <2> QED
    BY <1>18, <2>1, <2>2 DEF CallbackArrives, CallbackUnanswered
<1>19. ASSUME NEW c \in Contexts, CallbackLost(c) PROVE Typed'
  <2>1. CASE JobDone(c)
    <3>1. RowTypes'
      BY <1>19, <2>1 DEF RowTypes, NewInv, CurInv, ContextTypes, CallbackLost,
           JobDone, ForgetLocals, Goto
    <3>2. ContextTypes'
      BY <1>19, <2>1 DEF RowTypes, ContextTypes, NewInv, CurInv, CallbackLost,
           JobDone, ForgetLocals, Goto
    <3>3. OutsideTypes'
      BY <1>19, <2>1 DEF ContextTypes, OutsideTypes, NewInv, CurInv, CallbackLost,
           JobDone, ForgetLocals, Goto
    <3>4. NewInv'
      BY <1>19, <2>1 DEF NewInv, ContextTypes, CurInv, CallbackLost, JobDone,
           ForgetLocals, Goto
    <3>5. CurInv'
      BY <1>19, <2>1 DEF CurInv, ContextTypes, NewInv, CallbackLost, JobDone,
           ForgetLocals, Goto
    <3> QED
      BY <3>1, <3>2, <3>3, <3>4, <3>5
  <2>2. CASE CallbackWaits(c)
    <3>1. RowTypes'
      BY <1>19, <2>2 DEF RowTypes, NewInv, CurInv, ContextTypes, CallbackLost, CallbackWaits
    <3>2. ContextTypes'
      BY <1>19, <2>2 DEF RowTypes, ContextTypes, NewInv, CurInv, CallbackLost, CallbackWaits
    <3>3. OutsideTypes'
      BY <1>19, <2>2 DEF ContextTypes, OutsideTypes, NewInv, CurInv, CallbackLost,
           CallbackWaits
    <3>4. NewInv'
      BY <1>19, <2>2 DEF NewInv, ContextTypes, CurInv, CallbackLost, CallbackWaits
    <3>5. CurInv'
      BY <1>19, <2>2 DEF CurInv, ContextTypes, NewInv, CallbackLost, CallbackWaits
    <3> QED
      BY <3>1, <3>2, <3>3, <3>4, <3>5
  <2> QED
    BY <1>19, <2>1, <2>2 DEF CallbackLost, CallbackUnanswered
<1>20. ASSUME NEW c \in Contexts, NEW k \in Children, DelegateChild(c, k) PROVE Typed'
  <2>1. RowTypes'
    BY <1>20 DEF RowTypes, NewInv, CurInv, ContextTypes, DelegateChild
  <2>2. ContextTypes'
    BY <1>20 DEF RowTypes, ContextTypes, NewInv, CurInv, DelegateChild
  <2>3. OutsideTypes'
    BY <1>20 DEF ContextTypes, OutsideTypes, NewInv, CurInv, DelegateChild
  <2>4. NewInv'
    BY <1>20 DEF NewInv, ContextTypes, CurInv, DelegateChild
  <2>5. CurInv'
    BY <1>20 DEF CurInv, ContextTypes, NewInv, DelegateChild
  <2> QED
    BY <2>1, <2>2, <2>3, <2>4, <2>5
<1>21. ASSUME NEW c \in Contexts, NEW k \in Children, DelegateUnrecorded(c, k) PROVE Typed'
  <2>1. RowTypes'
    BY <1>21 DEF RowTypes, NewInv, CurInv, ContextTypes, DelegateUnrecorded, Spend
  <2>2. ContextTypes'
    BY <1>21 DEF RowTypes, ContextTypes, NewInv, CurInv, DelegateUnrecorded, Spend
  <2>3. OutsideTypes'
    BY <1>21 DEF ContextTypes, OutsideTypes, NewInv, CurInv, DelegateUnrecorded, Spend
  <2>4. NewInv'
    BY <1>21 DEF NewInv, ContextTypes, CurInv, DelegateUnrecorded, Spend
  <2>5. CurInv'
    BY <1>21 DEF CurInv, ContextTypes, NewInv, DelegateUnrecorded, Spend
  <2> QED
    BY <2>1, <2>2, <2>3, <2>4, <2>5
<1>22. ASSUME NEW c \in Contexts, Heartbeat(c) PROVE Typed'
  <2>1. RowTypes'
    BY <1>22 DEF RowTypes, NewInv, CurInv, ContextTypes, Heartbeat, Awaiting
  <2>2. ContextTypes'
    BY <1>22 DEF RowTypes, ContextTypes, NewInv, CurInv, Heartbeat, Awaiting
  <2>3. OutsideTypes'
    BY <1>22 DEF ContextTypes, OutsideTypes, NewInv, CurInv, Heartbeat, Awaiting
  <2>4. NewInv'
    BY <1>22 DEF NewInv, ContextTypes, CurInv, Heartbeat, Awaiting
  <2>5. CurInv'
    BY <1>22 DEF CurInv, ContextTypes, NewInv, Heartbeat, Awaiting
  <2> QED
    BY <2>1, <2>2, <2>3, <2>4, <2>5
<1>23. ASSUME NEW c \in Contexts, ChildHeartbeat(c) PROVE Typed'
  <2>1. RowTypes'
    BY <1>23 DEF RowTypes, NewInv, CurInv, ContextTypes, ChildHeartbeat
  <2>2. ContextTypes'
    BY <1>23 DEF RowTypes, ContextTypes, NewInv, CurInv, ChildHeartbeat
  <2>3. OutsideTypes'
    BY <1>23 DEF ContextTypes, OutsideTypes, NewInv, CurInv, ChildHeartbeat
  <2>4. NewInv'
    BY <1>23 DEF NewInv, ContextTypes, CurInv, ChildHeartbeat
  <2>5. CurInv'
    BY <1>23 DEF CurInv, ContextTypes, NewInv, ChildHeartbeat
  <2> QED
    BY <2>1, <2>2, <2>3, <2>4, <2>5
<1>24. ASSUME NEW c \in Contexts, HeartbeatRaises(c) PROVE Typed'
  <2>1. RowTypes'
    BY <1>24 DEF RowTypes, NewInv, CurInv, ContextTypes, HeartbeatRaises, Spend
  <2>2. ContextTypes'
    BY <1>24 DEF RowTypes, ContextTypes, NewInv, CurInv, HeartbeatRaises, Spend
  <2>3. OutsideTypes'
    BY <1>24 DEF ContextTypes, OutsideTypes, NewInv, CurInv, HeartbeatRaises, Spend
  <2>4. NewInv'
    BY <1>24 DEF NewInv, ContextTypes, CurInv, HeartbeatRaises, Spend
  <2>5. CurInv'
    BY <1>24 DEF CurInv, ContextTypes, NewInv, HeartbeatRaises, Spend
  <2> QED
    BY <2>1, <2>2, <2>3, <2>4, <2>5
<1>25. ASSUME NEW a \in Actors, RefuseStatus(a) PROVE Typed'
  <2>1. CASE ReturnToRoute(a)
    <3>1. RowTypes'
      BY <1>25, <2>1 DEF RowTypes, NewInv, CurInv, ContextTypes, RefuseStatus,
           ReturnToRoute, Goto
    <3>2. ContextTypes'
      BY <1>25, <2>1 DEF RowTypes, ContextTypes, NewInv, CurInv, RefuseStatus,
           ReturnToRoute, Goto
    <3>3. OutsideTypes'
      BY <1>25, <2>1 DEF ContextTypes, OutsideTypes, NewInv, CurInv, RefuseStatus,
           ReturnToRoute, Goto
    <3>4. NewInv'
      BY <1>25, <2>1 DEF NewInv, ContextTypes, CurInv, RefuseStatus, ReturnToRoute, Goto
    <3>5. CurInv'
      BY <1>25, <2>1 DEF CurInv, ContextTypes, NewInv, RefuseStatus, ReturnToRoute, Goto
    <3> QED
      BY <3>1, <3>2, <3>3, <3>4, <3>5
  <2>2. CASE ReturnToParent(a)
    <3>1. RowTypes'
      BY <1>25, <2>2 DEF RowTypes, NewInv, CurInv, ContextTypes, RefuseStatus,
           ReturnToParent, Goto
    <3>2. ContextTypes'
      BY <1>25, <2>2 DEF RowTypes, ContextTypes, NewInv, CurInv, RefuseStatus,
           ReturnToParent, Goto
    <3>3. OutsideTypes'
      BY <1>25, <2>2 DEF ContextTypes, OutsideTypes, NewInv, CurInv, RefuseStatus,
           ReturnToParent, Goto
    <3>4. NewInv'
      BY <1>25, <2>2 DEF NewInv, ContextTypes, CurInv, RefuseStatus, ReturnToParent, Goto
    <3>5. CurInv'
      BY <1>25, <2>2 DEF CurInv, ContextTypes, NewInv, RefuseStatus, ReturnToParent, Goto
    <3> QED
      BY <3>1, <3>2, <3>3, <3>4, <3>5
  <2>3. CASE ReturnToJob(a)
    <3>1. RowTypes'
      BY <1>25, <2>3 DEF RowTypes, NewInv, CurInv, ContextTypes, RefuseStatus,
           ReturnToJob, Goto
    <3>2. ContextTypes'
      BY <1>25, <2>3 DEF RowTypes, ContextTypes, NewInv, CurInv, RefuseStatus,
           ReturnToJob, Goto
    <3>3. OutsideTypes'
      BY <1>25, <2>3 DEF ContextTypes, OutsideTypes, NewInv, CurInv, RefuseStatus,
           ReturnToJob, Goto
    <3>4. NewInv'
      BY <1>25, <2>3 DEF NewInv, ContextTypes, CurInv, RefuseStatus, ReturnToJob, Goto
    <3>5. CurInv'
      BY <1>25, <2>3 DEF CurInv, ContextTypes, NewInv, RefuseStatus, ReturnToJob, Goto
    <3> QED
      BY <3>1, <3>2, <3>3, <3>4, <3>5
  <2> QED
    BY <1>25, <2>1, <2>2, <2>3 DEF RefuseStatus, Return
<1>26. ASSUME NEW a \in Actors, SelectStatus(a) PROVE Typed'
  <2>1. RowTypes'
    BY <1>26 DEF RowTypes, NewInv, CurInv, ContextTypes, SelectStatus, Target, Goto
  <2>2. ContextTypes'
    BY <1>26 DEF RowTypes, ContextTypes, NewInv, CurInv, SelectStatus, Target, Goto
  <2>3. OutsideTypes'
    BY <1>26 DEF ContextTypes, OutsideTypes, NewInv, CurInv, SelectStatus, Target, Goto
  <2>4. NewInv'
    BY <1>26 DEF NewInv, ContextTypes, CurInv, SelectStatus, Target, Goto
  <2>5. CurInv'
    BY <1>26 DEF CurInv, ContextTypes, NewInv, SelectStatus, Target, Goto
  <2> QED
    BY <2>1, <2>2, <2>3, <2>4, <2>5
<1>27. ASSUME NEW a \in Actors, WriteStatus(a) PROVE Typed'
  <2>1. CASE ReturnToRoute(a)
    <3>1. RowTypes'
      BY <1>27, <2>1 DEF RowTypes, NewInv, CurInv, ContextTypes, WriteStatus, Target,
           ReturnToRoute, Goto
    <3>2. ContextTypes'
      BY <1>27, <2>1 DEF RowTypes, ContextTypes, NewInv, CurInv, WriteStatus, Target,
           ReturnToRoute, Goto
    <3>3. OutsideTypes'
      BY <1>27, <2>1 DEF ContextTypes, OutsideTypes, NewInv, CurInv, WriteStatus,
           Target, ReturnToRoute, Goto
    <3>4. NewInv'
      BY <1>27, <2>1 DEF NewInv, ContextTypes, CurInv, WriteStatus, Target,
           ReturnToRoute, Goto
    <3>5. CurInv'
      BY <1>27, <2>1 DEF CurInv, ContextTypes, NewInv, WriteStatus, Target,
           ReturnToRoute, Goto
    <3> QED
      BY <3>1, <3>2, <3>3, <3>4, <3>5
  <2>2. CASE ReturnToParent(a)
    <3>1. RowTypes'
      BY <1>27, <2>2 DEF RowTypes, NewInv, CurInv, ContextTypes, WriteStatus, Target,
           ReturnToParent, Goto
    <3>2. ContextTypes'
      BY <1>27, <2>2 DEF RowTypes, ContextTypes, NewInv, CurInv, WriteStatus, Target,
           ReturnToParent, Goto
    <3>3. OutsideTypes'
      BY <1>27, <2>2 DEF ContextTypes, OutsideTypes, NewInv, CurInv, WriteStatus,
           Target, ReturnToParent, Goto
    <3>4. NewInv'
      BY <1>27, <2>2 DEF NewInv, ContextTypes, CurInv, WriteStatus, Target,
           ReturnToParent, Goto
    <3>5. CurInv'
      BY <1>27, <2>2 DEF CurInv, ContextTypes, NewInv, WriteStatus, Target,
           ReturnToParent, Goto
    <3> QED
      BY <3>1, <3>2, <3>3, <3>4, <3>5
  <2>3. CASE ReturnToJob(a)
    <3>1. RowTypes'
      BY <1>27, <2>3 DEF RowTypes, NewInv, CurInv, ContextTypes, WriteStatus, Target,
           ReturnToJob, Goto
    <3>2. ContextTypes'
      BY <1>27, <2>3 DEF RowTypes, ContextTypes, NewInv, CurInv, WriteStatus, Target,
           ReturnToJob, Goto
    <3>3. OutsideTypes'
      BY <1>27, <2>3 DEF ContextTypes, OutsideTypes, NewInv, CurInv, WriteStatus,
           Target, ReturnToJob, Goto
    <3>4. NewInv'
      BY <1>27, <2>3 DEF NewInv, ContextTypes, CurInv, WriteStatus, Target,
           ReturnToJob, Goto
    <3>5. CurInv'
      BY <1>27, <2>3 DEF CurInv, ContextTypes, NewInv, WriteStatus, Target,
           ReturnToJob, Goto
    <3> QED
      BY <3>1, <3>2, <3>3, <3>4, <3>5
  <2> QED
    BY <1>27, <2>1, <2>2, <2>3 DEF WriteStatus, Return
<1>28. ASSUME NEW a \in Actors, UpdateRaises(a) PROVE Typed'
  <2>1. CASE ReturnToRoute(a)
    <3>1. RowTypes'
      BY <1>28, <2>1 DEF RowTypes, NewInv, CurInv, ContextTypes, UpdateRaises, Spend,
           ReturnToRoute, Goto
    <3>2. ContextTypes'
      BY <1>28, <2>1 DEF RowTypes, ContextTypes, NewInv, CurInv, UpdateRaises, Spend,
           ReturnToRoute, Goto
    <3>3. OutsideTypes'
      BY <1>28, <2>1 DEF ContextTypes, OutsideTypes, NewInv, CurInv, UpdateRaises,
           Spend, ReturnToRoute, Goto
    <3>4. NewInv'
      BY <1>28, <2>1 DEF NewInv, ContextTypes, CurInv, UpdateRaises, Spend,
           ReturnToRoute, Goto
    <3>5. CurInv'
      BY <1>28, <2>1 DEF CurInv, ContextTypes, NewInv, UpdateRaises, Spend,
           ReturnToRoute, Goto
    <3> QED
      BY <3>1, <3>2, <3>3, <3>4, <3>5
  <2>2. CASE ReturnToParent(a)
    <3>1. RowTypes'
      BY <1>28, <2>2 DEF RowTypes, NewInv, CurInv, ContextTypes, UpdateRaises, Spend,
           ReturnToParent, Goto
    <3>2. ContextTypes'
      BY <1>28, <2>2 DEF RowTypes, ContextTypes, NewInv, CurInv, UpdateRaises, Spend,
           ReturnToParent, Goto
    <3>3. OutsideTypes'
      BY <1>28, <2>2 DEF ContextTypes, OutsideTypes, NewInv, CurInv, UpdateRaises,
           Spend, ReturnToParent, Goto
    <3>4. NewInv'
      BY <1>28, <2>2 DEF NewInv, ContextTypes, CurInv, UpdateRaises, Spend,
           ReturnToParent, Goto
    <3>5. CurInv'
      BY <1>28, <2>2 DEF CurInv, ContextTypes, NewInv, UpdateRaises, Spend,
           ReturnToParent, Goto
    <3> QED
      BY <3>1, <3>2, <3>3, <3>4, <3>5
  <2>3. CASE TryRaises(a)
    <3>1. RowTypes'
      BY <1>28, <2>3 DEF RowTypes, NewInv, CurInv, ContextTypes, UpdateRaises, Spend,
           TryRaises, Goto
    <3>2. ContextTypes'
      BY <1>28, <2>3 DEF RowTypes, ContextTypes, NewInv, CurInv, UpdateRaises, Spend,
           TryRaises, Goto
    <3>3. OutsideTypes'
      BY <1>28, <2>3 DEF ContextTypes, OutsideTypes, NewInv, CurInv, UpdateRaises,
           Spend, TryRaises, Goto
    <3>4. NewInv'
      BY <1>28, <2>3 DEF NewInv, ContextTypes, CurInv, UpdateRaises, Spend, TryRaises, Goto
    <3>5. CurInv'
      BY <1>28, <2>3 DEF CurInv, ContextTypes, NewInv, UpdateRaises, Spend, TryRaises, Goto
    <3> QED
      BY <3>1, <3>2, <3>3, <3>4, <3>5
  <2>4. CASE ExceptRaises(a)
    <3>1. RowTypes'
      BY <1>28, <2>4 DEF RowTypes, NewInv, CurInv, ContextTypes, UpdateRaises, Spend,
           ExceptRaises, Goto
    <3>2. ContextTypes'
      BY <1>28, <2>4 DEF RowTypes, ContextTypes, NewInv, CurInv, UpdateRaises, Spend,
           ExceptRaises, Goto
    <3>3. OutsideTypes'
      BY <1>28, <2>4 DEF ContextTypes, OutsideTypes, NewInv, CurInv, UpdateRaises,
           Spend, ExceptRaises, Goto
    <3>4. NewInv'
      BY <1>28, <2>4 DEF NewInv, ContextTypes, CurInv, UpdateRaises, Spend,
           ExceptRaises, Goto
    <3>5. CurInv'
      BY <1>28, <2>4 DEF CurInv, ContextTypes, NewInv, UpdateRaises, Spend,
           ExceptRaises, Goto
    <3> QED
      BY <3>1, <3>2, <3>3, <3>4, <3>5
  <2> QED
    BY <1>28, <2>1, <2>2, <2>3, <2>4 DEF UpdateRaises
<1>u. ASSUME NEW a \in Actors, UpdateUnheard(a) PROVE Typed'
  <2>1. CASE ReturnToRoute(a)
    <3>1. RowTypes'
      BY <1>u, <2>1 DEF RowTypes, NewInv, CurInv, ContextTypes, UpdateUnheard, Target, Spend,
           ReturnToRoute, Goto
    <3>2. ContextTypes'
      BY <1>u, <2>1 DEF RowTypes, ContextTypes, NewInv, CurInv, UpdateUnheard, Target, Spend,
           ReturnToRoute, Goto
    <3>3. OutsideTypes'
      BY <1>u, <2>1 DEF ContextTypes, OutsideTypes, NewInv, CurInv, UpdateUnheard, Target,
           Spend, ReturnToRoute, Goto
    <3>4. NewInv'
      BY <1>u, <2>1 DEF NewInv, ContextTypes, CurInv, UpdateUnheard, Target, Spend,
           ReturnToRoute, Goto
    <3>5. CurInv'
      BY <1>u, <2>1 DEF CurInv, ContextTypes, NewInv, UpdateUnheard, Target, Spend,
           ReturnToRoute, Goto
    <3> QED
      BY <3>1, <3>2, <3>3, <3>4, <3>5
  <2>2. CASE ReturnToParent(a)
    <3>1. RowTypes'
      BY <1>u, <2>2 DEF RowTypes, NewInv, CurInv, ContextTypes, UpdateUnheard, Target, Spend,
           ReturnToParent, Goto
    <3>2. ContextTypes'
      BY <1>u, <2>2 DEF RowTypes, ContextTypes, NewInv, CurInv, UpdateUnheard, Target, Spend,
           ReturnToParent, Goto
    <3>3. OutsideTypes'
      BY <1>u, <2>2 DEF ContextTypes, OutsideTypes, NewInv, CurInv, UpdateUnheard, Target,
           Spend, ReturnToParent, Goto
    <3>4. NewInv'
      BY <1>u, <2>2 DEF NewInv, ContextTypes, CurInv, UpdateUnheard, Target, Spend,
           ReturnToParent, Goto
    <3>5. CurInv'
      BY <1>u, <2>2 DEF CurInv, ContextTypes, NewInv, UpdateUnheard, Target, Spend,
           ReturnToParent, Goto
    <3> QED
      BY <3>1, <3>2, <3>3, <3>4, <3>5
  <2>3. CASE TryRaises(a)
    <3>1. RowTypes'
      BY <1>u, <2>3 DEF RowTypes, NewInv, CurInv, ContextTypes, UpdateUnheard, Target, Spend,
           TryRaises, Goto
    <3>2. ContextTypes'
      BY <1>u, <2>3 DEF RowTypes, ContextTypes, NewInv, CurInv, UpdateUnheard, Target, Spend,
           TryRaises, Goto
    <3>3. OutsideTypes'
      BY <1>u, <2>3 DEF ContextTypes, OutsideTypes, NewInv, CurInv, UpdateUnheard, Target,
           Spend, TryRaises, Goto
    <3>4. NewInv'
      BY <1>u, <2>3 DEF NewInv, ContextTypes, CurInv, UpdateUnheard, Target, Spend, TryRaises, Goto
    <3>5. CurInv'
      BY <1>u, <2>3 DEF CurInv, ContextTypes, NewInv, UpdateUnheard, Target, Spend, TryRaises, Goto
    <3> QED
      BY <3>1, <3>2, <3>3, <3>4, <3>5
  <2>4. CASE ExceptRaises(a)
    <3>1. RowTypes'
      BY <1>u, <2>4 DEF RowTypes, NewInv, CurInv, ContextTypes, UpdateUnheard, Target, Spend,
           ExceptRaises, Goto
    <3>2. ContextTypes'
      BY <1>u, <2>4 DEF RowTypes, ContextTypes, NewInv, CurInv, UpdateUnheard, Target, Spend,
           ExceptRaises, Goto
    <3>3. OutsideTypes'
      BY <1>u, <2>4 DEF ContextTypes, OutsideTypes, NewInv, CurInv, UpdateUnheard, Target,
           Spend, ExceptRaises, Goto
    <3>4. NewInv'
      BY <1>u, <2>4 DEF NewInv, ContextTypes, CurInv, UpdateUnheard, Target, Spend,
           ExceptRaises, Goto
    <3>5. CurInv'
      BY <1>u, <2>4 DEF CurInv, ContextTypes, NewInv, UpdateUnheard, Target, Spend,
           ExceptRaises, Goto
    <3> QED
      BY <3>1, <3>2, <3>3, <3>4, <3>5
  <2> QED
    BY <1>u, <2>1, <2>2, <2>3, <2>4 DEF UpdateUnheard
<1>29. ASSUME NEW h \in Humans, NEW j \in Rows, NEW m \in HumanMoves, HumanRequest(h, j, m) PROVE Typed'
  <2>1. RowTypes'
    BY <1>29 DEF RowTypes, NewInv, CurInv, ContextTypes, HumanRequest, Spend, Goto
  <2>2. ContextTypes'
    BY <1>29 DEF RowTypes, ContextTypes, NewInv, CurInv, HumanRequest, Spend, Goto
  <2>3. OutsideTypes'
    BY <1>29 DEF ContextTypes, OutsideTypes, NewInv, CurInv, HumanRequest, Spend, Goto
  <2>4. NewInv'
    BY <1>29 DEF NewInv, ContextTypes, CurInv, HumanRequest, Spend, Goto
  <2>5. CurInv'
    BY <1>29 DEF CurInv, ContextTypes, NewInv, HumanRequest, Spend, Goto
  <2> QED
    BY <2>1, <2>2, <2>3, <2>4, <2>5
<1>30. ASSUME NEW h \in Humans, AdminRelease(h) PROVE Typed'
  <2>1. RowTypes'
    BY <1>30 DEF RowTypes, NewInv, CurInv, ContextTypes, AdminRelease, Goto
  <2>2. ContextTypes'
    BY <1>30 DEF RowTypes, ContextTypes, NewInv, CurInv, AdminRelease, Goto
  <2>3. OutsideTypes'
    BY <1>30 DEF ContextTypes, OutsideTypes, NewInv, CurInv, AdminRelease, Goto
  <2>4. NewInv'
    BY <1>30 DEF NewInv, ContextTypes, CurInv, AdminRelease, Goto
  <2>5. CurInv'
    BY <1>30 DEF CurInv, ContextTypes, NewInv, AdminRelease, Goto
  <2> QED
    BY <2>1, <2>2, <2>3, <2>4, <2>5
<1>31. ASSUME NEW h \in Humans, AdminReleaseSkipped(h) PROVE Typed'
  <2>1. RowTypes'
    BY <1>31 DEF RowTypes, NewInv, CurInv, ContextTypes, AdminReleaseSkipped, Goto
  <2>2. ContextTypes'
    BY <1>31 DEF RowTypes, ContextTypes, NewInv, CurInv, AdminReleaseSkipped, Goto
  <2>3. OutsideTypes'
    BY <1>31 DEF ContextTypes, OutsideTypes, NewInv, CurInv, AdminReleaseSkipped, Goto
  <2>4. NewInv'
    BY <1>31 DEF NewInv, ContextTypes, CurInv, AdminReleaseSkipped, Goto
  <2>5. CurInv'
    BY <1>31 DEF CurInv, ContextTypes, NewInv, AdminReleaseSkipped, Goto
  <2> QED
    BY <2>1, <2>2, <2>3, <2>4, <2>5
<1>32. ASSUME NEW h \in Humans, HumanNote(h) PROVE Typed'
  <2>1. RowTypes'
    BY <1>32 DEF RowTypes, NewInv, CurInv, ContextTypes, HumanNote, Answer, Note, Goto
  <2>2. ContextTypes'
    BY <1>32 DEF RowTypes, ContextTypes, NewInv, CurInv, HumanNote, Answer, Note, Goto
  <2>3. OutsideTypes'
    BY <1>32 DEF ContextTypes, OutsideTypes, NewInv, CurInv, HumanNote, Answer, Note, Goto
  <2>4. NewInv'
    BY <1>32 DEF NewInv, ContextTypes, CurInv, HumanNote, Answer, Note, Goto
  <2>5. CurInv'
    BY <1>32 DEF CurInv, ContextTypes, NewInv, HumanNote, Answer, Note, Goto
  <2> QED
    BY <2>1, <2>2, <2>3, <2>4, <2>5
<1>33. ASSUME NEW h \in Humans, HumanNoteFails(h) PROVE Typed'
  <2>1. RowTypes'
    BY <1>33 DEF RowTypes, NewInv, CurInv, ContextTypes, HumanNoteFails, Answer, Spend, Goto
  <2>2. ContextTypes'
    BY <1>33 DEF RowTypes, ContextTypes, NewInv, CurInv, HumanNoteFails, Answer, Spend, Goto
  <2>3. OutsideTypes'
    BY <1>33 DEF ContextTypes, OutsideTypes, NewInv, CurInv, HumanNoteFails, Answer,
         Spend, Goto
  <2>4. NewInv'
    BY <1>33 DEF NewInv, ContextTypes, CurInv, HumanNoteFails, Answer, Spend, Goto
  <2>5. CurInv'
    BY <1>33 DEF CurInv, ContextTypes, NewInv, HumanNoteFails, Answer, Spend, Goto
  <2> QED
    BY <2>1, <2>2, <2>3, <2>4, <2>5
<1>34. ASSUME NEW j \in Rows, GoesStale(j) PROVE Typed'
  <2>1. RowTypes'
    BY <1>34 DEF RowTypes, NewInv, CurInv, ContextTypes, GoesStale
  <2>2. ContextTypes'
    BY <1>34 DEF RowTypes, ContextTypes, NewInv, CurInv, GoesStale
  <2>3. OutsideTypes'
    BY <1>34 DEF ContextTypes, OutsideTypes, NewInv, CurInv, GoesStale
  <2>4. NewInv'
    BY <1>34 DEF NewInv, ContextTypes, CurInv, GoesStale
  <2>5. CurInv'
    BY <1>34 DEF CurInv, ContextTypes, NewInv, GoesStale
  <2> QED
    BY <2>1, <2>2, <2>3, <2>4, <2>5
<1>35. ASSUME NEW P \in Processes, Crash(P) PROVE Typed'
  <2>1. RowTypes'
    BY <1>35 DEF RowTypes, NewInv, CurInv, ContextTypes, Crash, Spend
  <2>2. ContextTypes'
    BY <1>35 DEF RowTypes, ContextTypes, NewInv, CurInv, Crash, Spend
  <2>3. OutsideTypes'
    BY <1>35 DEF ContextTypes, OutsideTypes, NewInv, CurInv, Crash, Spend
  <2>4. NewInv'
    BY <1>35 DEF NewInv, ContextTypes, CurInv, Crash, Spend
  <2>5. CurInv'
    BY <1>35 DEF CurInv, ContextTypes, NewInv, Crash, Spend
  <2> QED
    BY <2>1, <2>2, <2>3, <2>4, <2>5
<1>36. CASE UNCHANGED vars
  BY <1>36 DEF vars, RowTypes, ContextTypes, OutsideTypes, NewInv, CurInv
<1> QED
  BY <1>1, <1>2, <1>3, <1>4, <1>5, <1>6, <1>7, <1>8, <1>9, <1>10, <1>11, <1>12, <1>13,
       <1>14, <1>15, <1>16, <1>17, <1>18, <1>19, <1>20, <1>21, <1>22, <1>23, <1>24, <1>25,
       <1>26, <1>27, <1>28, <1>u, <1>29, <1>30, <1>31, <1>32, <1>33, <1>34, <1>35, <1>36
     DEF Next, CreateStep, JobStep, DelegationStep, UpdateStep, HumanStep

\* The types hold in every reachable state: TypeOK of the runs, for every
\* number of jobs and actors.
THEOREM TypeCorrect == Spec => []TypeOK
<1>1. Spec => []Typed
  BY TypedInit, TypedStep, PTL DEF Spec
<1>2. Typed => TypeOK
  BY DEF Typed
<1> QED
  BY <1>1, <1>2, PTL

\* No step reopens a row.
LEMMA ClosedStep == Typed /\ [Next]_vars => ClosedStays
<1> SUFFICES ASSUME Typed, [Next]_vars PROVE ClosedStays
  OBVIOUS
<1> USE IdsAssumption, BoundsAssumption
    DEF Typed, TypeOK, Contexts, Actors, Ticks, Rows, Statuses, Outcomes, HumanMoves,
        TerminalJobStatuses, rowVars, ctxVars, outVars
<1>1. ASSUME NEW j \in Jobs, NEW d \in Deals, CreateJob(j, d) PROVE ClosedStays
  BY <1>1 DEF ClosedStays, Closed, Open, RowTypes, ContextTypes, NewInv, CurInv, CreateJob
<1>2. ASSUME NEW c \in Ticks, TickReap(c) PROVE ClosedStays
  BY <1>2 DEF ClosedStays, Closed, Open, RowTypes, ContextTypes, NewInv, CurInv, TickReap,
       ExpireStaleRunningJobs, StaleRunning, Goto
<1>3. ASSUME NEW c \in Pollers, TickClaim(c) PROVE ClosedStays
  BY <1>3 DEF ClosedStays, Closed, Open, RowTypes, ContextTypes, NewInv, CurInv,
       TickClaim, ClaimRows, OldestQueued, Queued, Goto
<1>4. ASSUME NEW c \in Triggers, NEW j \in Jobs, ClaimJobById(c, j) PROVE ClosedStays
  BY <1>4 DEF ClosedStays, Closed, Open, RowTypes, ContextTypes, NewInv, CurInv,
       ClaimJobById, ClaimableById, ClaimRows, Queued, Goto
<1>5. ASSUME LoopReap PROVE ClosedStays
  BY <1>5 DEF ClosedStays, Closed, Open, RowTypes, ContextTypes, NewInv, CurInv, LoopReap,
       ExpireStaleRunningJobs, StaleRunning
<1>6. ASSUME LoopClaim PROVE ClosedStays
  BY <1>6 DEF ClosedStays, Closed, Open, RowTypes, ContextTypes, NewInv, CurInv,
       LoopClaim, ClaimRows, OldestQueued, Queued
<1>7. ASSUME NEW c \in Contexts, NEW k \in Children, DelegateChild(c, k) PROVE ClosedStays
  BY <1>7 DEF ClosedStays, Closed, Open, RowTypes, ContextTypes, NewInv, CurInv,
       DelegateChild
<1>8. ASSUME NEW a \in Actors, WriteStatus(a) PROVE ClosedStays
  BY <1>8 DEF ClosedStays, Closed, Open, RowTypes, ContextTypes, NewInv, CurInv,
       WriteStatus, Target
<1>u. ASSUME NEW a \in Actors, UpdateUnheard(a) PROVE ClosedStays
  BY <1>u DEF ClosedStays, Closed, Open, RowTypes, ContextTypes, NewInv, CurInv,
       UpdateUnheard, Target
<1>9. CASE UNCHANGED status
  BY <1>9 DEF ClosedStays, Closed, Open, RowTypes, ContextTypes, NewInv, CurInv
<1> QED
  BY <1>1, <1>2, <1>3, <1>4, <1>5, <1>6, <1>7, <1>8, <1>u, <1>9
     DEF Next, CreateStep, JobStep, DelegationStep, UpdateStep, HumanStep,
          AdminRelease, AdminReleaseSkipped, AgentRaises, AgentReturns, Answer,
          CallbackArrives, CallbackLost, ChildHeartbeat, ChildReturns, Crash,
          DelegateUnrecorded, EscrowCall, EscrowUnmoved, ForgetLocals, GoesStale,
          HandleSignal, Heartbeat, HeartbeatRaises, HumanNote, HumanNoteFails,
          HumanRequest, JobDone, JobRaises, Note, RefuseStatus, Restart, SelectStatus,
          StartJob, StopRaises, StopReturns, StopThenCallback, UpdateRaises, ctxVars,
          outVars, rowVars, vars

\* NeverReopened for every instance: a closed job is never claimed or run again.
THEOREM JobsNeverReopened == Spec => NeverReopened
<1>1. Spec => []Typed
  BY TypedInit, TypedStep, PTL DEF Spec
<1>2. Typed /\ [Next]_vars => [ClosedStays]_vars
  BY ClosedStep
<1> QED
  BY <1>1, <1>2, PTL DEF Spec, NeverReopened

\* Every step keeps the holding invariant.  Most steps only give jobs up.
GivesUp ==
    /\ runs' = runs
    /\ \A j \in Jobs : Open(j)' => Open(j)
    /\ \A c \in Contexts :
        /\ rest'[c] \subseteq rest[c]
        /\ cur'[c] \in {cur[c], NoJob}
        /\ pc'[c] \in {"idle", "claim"} => rest'[c] = {}

LEMMA GivesUpHold == Typed /\ HoldInv /\ GivesUp => HoldInv'
  BY IdsAssumption DEF Typed, GivesUp, HoldInv, Holds, Rows

\* A claim hands QUEUED rows, which nobody holds, to coroutines that held none.
LEMMA ClaimHold ==
    ASSUME Typed, HoldInv, runs' = runs, cur' = cur,
           NEW S \in SUBSET Queued, ClaimRows(S),
           \A c \in Contexts : rest'[c] = rest[c] \/ (rest'[c] \subseteq S /\ rest[c] = {}),
           \A c, d \in Contexts, j \in S : j \in rest'[c] /\ j \in rest'[d] => c = d,
           \A c \in Contexts : pc'[c] \in {"idle", "claim"} => rest'[c] = {}
    PROVE  HoldInv'
<1> USE IdsAssumption DEF Rows
<1>1. \A j \in Jobs : Open(j)' => Open(j) /\ j \notin S
  BY DEF Open, ClaimRows, Queued
<1>2. \A j \in S : j \in Jobs /\ runs[j] = 0 /\ \A c \in Contexts : ~Holds(c, j)
  BY DEF HoldInv, Open, Queued
<1>3. \A j \in Jobs, c \in Contexts : j \in rest'[c] => j \in S \/ j \in rest[c]
  OBVIOUS
<1> QED
  BY <1>1, <1>2, <1>3 DEF HoldInv, Holds

LEMMA HoldClaimSteps ==
    ASSUME Typed, HoldInv,
           \/ \E c \in Pollers : TickClaim(c)
           \/ \E c \in Triggers, j \in Jobs : ClaimJobById(c, j)
           \/ LoopClaim
    PROVE  HoldInv'
<1> USE DEF Typed, TypeOK, Contexts, Actors, Ticks, outVars
<1>1. ASSUME NEW c \in Pollers, TickClaim(c) PROVE HoldInv'
  <2>1. PICK S \in SUBSET Queued :
            ClaimRows(S) /\ rest' = [rest EXCEPT ![c] = S]
            /\ pc' = [pc EXCEPT ![c] = IF S = {} THEN "idle" ELSE "next"]
    BY <1>1 DEF TickClaim, OldestQueued, Goto
  <2>2. rest[c] = {} /\ runs' = runs /\ cur' = cur
    BY <1>1 DEF TickClaim, HoldInv
  <2>3. \A d \in Contexts : /\ rest'[d] = IF d = c THEN S ELSE rest[d]
                            /\ pc'[d] \in {"idle", "claim"} /\ d = c => S = {}
                            /\ d # c => pc'[d] = pc[d]
    BY <2>1 DEF ContextTypes
  <2>4. \A j \in S, d \in Contexts : j \notin rest[d]
    BY DEF HoldInv, Holds, Open, Queued
  <2>5. \A d \in Contexts : pc'[d] \in {"idle", "claim"} => rest'[d] = {}
    BY <2>3 DEF HoldInv
  <2>6. \A d, e \in Contexts, j \in S : j \in rest'[d] /\ j \in rest'[e] => d = e
    BY <2>3, <2>4
  <2> HIDE DEF Contexts, Typed
  <2> QED
    BY <2>1, <2>2, <2>3, <2>5, <2>6, ClaimHold
<1>2. ASSUME NEW c \in Triggers, NEW i \in Jobs, ClaimJobById(c, i) PROVE HoldInv'
  <2>1. PICK S \in SUBSET Queued :
            ClaimRows(S) /\ rest' = [rest EXCEPT ![c] = S]
            /\ pc' = [pc EXCEPT ![c] = IF S = {} THEN "idle" ELSE "next"]
    BY <1>2 DEF ClaimJobById, ClaimableById, Goto
  <2>2. rest[c] = {} /\ runs' = runs /\ cur' = cur
    BY <1>2 DEF ClaimJobById, HoldInv
  <2>3. \A d \in Contexts : /\ rest'[d] = IF d = c THEN S ELSE rest[d]
                            /\ pc'[d] \in {"idle", "claim"} /\ d = c => S = {}
                            /\ d # c => pc'[d] = pc[d]
    BY <2>1 DEF ContextTypes
  <2>4. \A j \in S, d \in Contexts : j \notin rest[d]
    BY DEF HoldInv, Holds, Open, Queued
  <2>5. \A d \in Contexts : pc'[d] \in {"idle", "claim"} => rest'[d] = {}
    BY <2>3 DEF HoldInv
  <2>6. \A d, e \in Contexts, j \in S : j \in rest'[d] /\ j \in rest'[e] => d = e
    BY <2>3, <2>4
  <2> HIDE DEF Contexts, Typed
  <2> QED
    BY <2>1, <2>2, <2>3, <2>5, <2>6, ClaimHold
<1>3. ASSUME LoopClaim PROVE HoldInv'
  <2> DEFINE free == {c \in Slots : pc[c] = "idle"}
  <2>1. PICK S \in SUBSET Queued :
            /\ ClaimRows(S)
            /\ \E task \in [S -> free] :
                /\ \A j, k \in S : j # k => task[j] # task[k]
                /\ rest' = [c \in Contexts |-> IF \E j \in S : task[j] = c
                                               THEN {j \in S : task[j] = c} ELSE rest[c]]
                /\ pc' = [a \in Actors |-> IF \E j \in S : task[j] = a THEN "next" ELSE pc[a]]
    <3>1. PICK S \in OldestQueued(Cardinality(free)) :
            /\ ClaimRows(S)
            /\ \E task \in [S -> free] :
                /\ \A j, k \in S : j # k => task[j] # task[k]
                /\ rest' = [c \in Contexts |-> IF \E j \in S : task[j] = c
                                               THEN {j \in S : task[j] = c} ELSE rest[c]]
                /\ pc' = [a \in Actors |-> IF \E j \in S : task[j] = a THEN "next" ELSE pc[a]]
      BY <1>3, Zenon DEF LoopClaim
    <3>2. S \in SUBSET Queued
      BY DEF OldestQueued
    <3> QED
      BY <3>1, <3>2, Zenon
  <2>2. PICK task \in [S -> free] :
            /\ rest' = [c \in Contexts |-> IF \E j \in S : task[j] = c
                                           THEN {j \in S : task[j] = c} ELSE rest[c]]
            /\ pc' = [a \in Actors |-> IF \E j \in S : task[j] = a THEN "next" ELSE pc[a]]
    BY <2>1, Zenon
  <2>3. runs' = runs /\ cur' = cur
    BY <1>3 DEF LoopClaim
  <2>4. \A j \in S : task[j] \in Contexts /\ rest[task[j]] = {}
    BY <2>2 DEF HoldInv
  <2>5. \A c \in Contexts : rest'[c] = rest[c] \/ (rest'[c] \subseteq S /\ rest[c] = {})
    BY <2>2, <2>4
  <2>6. \A j \in S, c \in Contexts : ~(j \in rest[c])
    BY DEF HoldInv, Holds, Open, Queued
  <2>7. \A c, d \in Contexts, j \in S : j \in rest'[c] /\ j \in rest'[d] => c = d
    BY <2>2, <2>6
  <2>8. \A c \in Contexts : pc'[c] \in {"idle", "claim"} => rest'[c] = {}
    BY <2>2 DEF HoldInv
  <2> QED
    BY <2>1, <2>3, <2>5, <2>7, <2>8, ClaimHold
<1> QED
  BY <1>1, <1>2, <1>3

LEMMA HoldStart == ASSUME Typed, HoldInv, NEW c \in Contexts, StartJob(c) PROVE HoldInv'
<1> USE IdsAssumption DEF Typed, TypeOK, Rows, Contexts, Actors
<1>1. PICK j \in rest[c] : /\ cur'  = [cur EXCEPT ![c] = j]
                           /\ rest' = [rest EXCEPT ![c] = @ \ {j}]
                           /\ runs' = [runs EXCEPT ![j] = @ + 1]
  BY DEF StartJob
<1>2. status' = status /\ pc' = [pc EXCEPT ![c] = "running"]
  BY DEF StartJob, Goto, rowVars
<1>3. j \in Jobs /\ runs[j] = 0 /\ ~Open(j)
  BY <1>1 DEF HoldInv, Holds, ContextTypes
<1>4. \A k \in Jobs : runs'[k] = IF k = j THEN 1 ELSE runs[k]
  BY <1>1, <1>3 DEF OutsideTypes
<1>5. \A d \in Contexts : /\ rest'[d] = IF d = c THEN rest[c] \ {j} ELSE rest[d]
                          /\ cur'[d] = IF d = c THEN j ELSE cur[d]
                          /\ pc'[d] = IF d = c THEN "running" ELSE pc[d]
  BY <1>1, <1>2 DEF ContextTypes
<1>6. \A d \in Contexts : d # c => j \notin rest[d] /\ cur[d] # j
  BY <1>1, <1>3 DEF HoldInv, Holds
<1>7. \A k \in Jobs : Open(k)' <=> Open(k)
  BY <1>2 DEF Open
<1>8. cur[c] \notin Jobs
  BY DEF StartJob, CurInv, Busy
<1>9. \A k \in Jobs, d \in Contexts : Holds(d, k)' => Holds(d, k)
  BY <1>1, <1>5 DEF Holds
<1> QED
  BY <1>3, <1>4, <1>5, <1>6, <1>7, <1>9 DEF HoldInv, Holds

\* All the other steps give jobs up, or keep what they hold.
LEMMA HoldStep == Typed /\ HoldInv /\ [Next]_vars => HoldInv'
<1> SUFFICES ASSUME Typed, HoldInv, [Next]_vars PROVE HoldInv'
  OBVIOUS
<1> USE IdsAssumption DEF Typed, TypeOK, Contexts, Actors, Ticks, Rows, rowVars, ctxVars, outVars
<1>1. ASSUME NEW j \in Jobs, NEW d \in Deals, CreateJob(j, d) PROVE GivesUp
  BY <1>1 DEF GivesUp, HoldInv, Open, RowTypes, ContextTypes, CurInv, CreateJob
<1>2. ASSUME NEW c \in Ticks, TickReap(c) PROVE GivesUp
  BY <1>2 DEF GivesUp, HoldInv, Open, RowTypes, ContextTypes, CurInv, TickReap,
       ExpireStaleRunningJobs, StaleRunning, Goto
<1>3. ASSUME LoopReap PROVE GivesUp
  BY <1>3 DEF GivesUp, HoldInv, Open, RowTypes, ContextTypes, CurInv, LoopReap,
       ExpireStaleRunningJobs, StaleRunning
<1>4. ASSUME HandleSignal PROVE GivesUp
  BY <1>4 DEF GivesUp, HoldInv, Open, RowTypes, ContextTypes, CurInv, HandleSignal
<1>5. ASSUME Restart PROVE GivesUp
  BY <1>5 DEF GivesUp, HoldInv, Open, RowTypes, ContextTypes, CurInv, Restart
<1>6. ASSUME NEW c \in Contexts, ChildReturns(c) PROVE GivesUp
  BY <1>6 DEF GivesUp, HoldInv, Open, RowTypes, ContextTypes, CurInv, ChildReturns, Goto
<1>7. ASSUME NEW c \in Contexts, AgentReturns(c) PROVE GivesUp
  BY <1>7 DEF GivesUp, HoldInv, Open, RowTypes, ContextTypes, CurInv, AgentReturns, Goto
<1>8. ASSUME NEW c \in Contexts, AgentRaises(c) PROVE GivesUp
  BY <1>8 DEF GivesUp, HoldInv, Open, RowTypes, ContextTypes, CurInv, AgentRaises, Goto
<1>9. ASSUME NEW c \in Contexts, EscrowCall(c) PROVE GivesUp
  BY <1>9 DEF GivesUp, HoldInv, Open, RowTypes, ContextTypes, CurInv, EscrowCall, Goto
<1>10. ASSUME NEW c \in Contexts, EscrowUnmoved(c) PROVE GivesUp
  BY <1>10 DEF GivesUp, HoldInv, Open, RowTypes, ContextTypes, CurInv, EscrowUnmoved, Goto
<1>11. ASSUME NEW c \in Contexts, StopRaises(c) PROVE GivesUp
  BY <1>11 DEF GivesUp, HoldInv, Open, RowTypes, ContextTypes, CurInv, StopRaises,
       JobRaises, ForgetLocals, Goto
<1>12. ASSUME NEW c \in Contexts, StopReturns(c) PROVE GivesUp
  BY <1>12 DEF GivesUp, HoldInv, Open, RowTypes, ContextTypes, CurInv, StopReturns,
       JobDone, ForgetLocals, Goto
<1>13. ASSUME NEW c \in Contexts, StopThenCallback(c) PROVE GivesUp
  BY <1>13 DEF GivesUp, HoldInv, Open, RowTypes, ContextTypes, CurInv, StopThenCallback,
       WantsCallback, Goto
<1>14. ASSUME NEW c \in Contexts, CallbackArrives(c) PROVE GivesUp
  <2>1. CASE JobDone(c)
    BY <1>14, <2>1 DEF GivesUp, HoldInv, Open, RowTypes, ContextTypes, CurInv,
         CallbackArrives, JobDone, ForgetLocals, Goto
  <2>2. CASE CallbackWaits(c)
    BY <1>14, <2>2 DEF GivesUp, HoldInv, Open, RowTypes, ContextTypes, CurInv,
         CallbackArrives, CallbackWaits
  <2> QED BY <1>14, <2>1, <2>2 DEF CallbackArrives, CallbackUnanswered
<1>15. ASSUME NEW c \in Contexts, CallbackLost(c) PROVE GivesUp
  <2>1. CASE JobDone(c)
    BY <1>15, <2>1 DEF GivesUp, HoldInv, Open, RowTypes, ContextTypes, CurInv,
         CallbackLost, JobDone, ForgetLocals, Goto
  <2>2. CASE CallbackWaits(c)
    BY <1>15, <2>2 DEF GivesUp, HoldInv, Open, RowTypes, ContextTypes, CurInv,
         CallbackLost, CallbackWaits
  <2> QED BY <1>15, <2>1, <2>2 DEF CallbackLost, CallbackUnanswered
<1>16. ASSUME NEW c \in Contexts, NEW k \in Children, DelegateChild(c, k) PROVE GivesUp
  BY <1>16 DEF GivesUp, HoldInv, Open, RowTypes, ContextTypes, CurInv, DelegateChild
<1>17. ASSUME NEW c \in Contexts, NEW k \in Children, DelegateUnrecorded(c, k) PROVE GivesUp
  BY <1>17 DEF GivesUp, HoldInv, Open, RowTypes, ContextTypes, CurInv, DelegateUnrecorded,
       Spend
<1>18. ASSUME NEW c \in Contexts, Heartbeat(c) PROVE GivesUp
  BY <1>18 DEF GivesUp, HoldInv, Open, RowTypes, ContextTypes, CurInv, Heartbeat, Awaiting
<1>19. ASSUME NEW c \in Contexts, ChildHeartbeat(c) PROVE GivesUp
  BY <1>19 DEF GivesUp, HoldInv, Open, RowTypes, ContextTypes, CurInv, ChildHeartbeat
<1>20. ASSUME NEW c \in Contexts, HeartbeatRaises(c) PROVE GivesUp
  BY <1>20 DEF GivesUp, HoldInv, Open, RowTypes, ContextTypes, CurInv, HeartbeatRaises,
       Spend
<1>21. ASSUME NEW a \in Actors, RefuseStatus(a) PROVE GivesUp
  <2>1. CASE ReturnToRoute(a)
    BY <1>21, <2>1 DEF GivesUp, HoldInv, Open, RowTypes, ContextTypes, CurInv,
         RefuseStatus, ReturnToRoute, Goto
  <2>2. CASE ReturnToParent(a)
    BY <1>21, <2>2 DEF GivesUp, HoldInv, Open, RowTypes, ContextTypes, CurInv,
         RefuseStatus, ReturnToParent, Goto
  <2>3. CASE ReturnToJob(a)
    BY <1>21, <2>3 DEF GivesUp, HoldInv, Open, RowTypes, ContextTypes, CurInv,
         RefuseStatus, ReturnToJob, Goto
  <2> QED BY <1>21, <2>1, <2>2, <2>3 DEF RefuseStatus, Return
<1>22. ASSUME NEW a \in Actors, SelectStatus(a) PROVE GivesUp
  BY <1>22 DEF GivesUp, HoldInv, Open, RowTypes, ContextTypes, CurInv, SelectStatus,
       Target, Goto
<1>23. ASSUME NEW a \in Actors, WriteStatus(a) PROVE GivesUp
  <2>1. \A j \in Jobs : Open(j)' => Open(j)
    <3>1. new[a] \notin {"NONE", "QUEUED"}
      BY <1>23 DEF WriteStatus, NewInv, Outcomes, HumanMoves
    <3>2. status' = [status EXCEPT ![Target(a)] = new[a]]
      BY <1>23 DEF WriteStatus
    <3> QED
      BY <3>1, <3>2 DEF Open, RowTypes
  <2>2. rest' = rest /\ cur' = cur /\ runs' = runs
    BY <1>23 DEF WriteStatus
  <2>3. \A c \in Contexts : pc'[c] \in {"idle", "claim"} => pc'[c] = pc[c]
    BY <1>23 DEF WriteStatus, Return, ReturnToRoute, ReturnToParent, ReturnToJob, Goto,
              ContextTypes
  <2> QED
    BY <2>1, <2>2, <2>3 DEF GivesUp, HoldInv, ContextTypes
<1>24. ASSUME NEW a \in Actors, UpdateRaises(a) PROVE GivesUp
  <2>1. CASE ReturnToRoute(a)
    BY <1>24, <2>1 DEF GivesUp, HoldInv, Open, RowTypes, ContextTypes, CurInv,
         UpdateRaises, Spend, ReturnToRoute, Goto
  <2>2. CASE ReturnToParent(a)
    BY <1>24, <2>2 DEF GivesUp, HoldInv, Open, RowTypes, ContextTypes, CurInv,
         UpdateRaises, Spend, ReturnToParent, Goto
  <2>3. CASE TryRaises(a)
    BY <1>24, <2>3 DEF GivesUp, HoldInv, Open, RowTypes, ContextTypes, CurInv,
         UpdateRaises, Spend, TryRaises, Goto
  <2>4. CASE ExceptRaises(a)
    BY <1>24, <2>4 DEF GivesUp, HoldInv, Open, RowTypes, ContextTypes, CurInv,
         UpdateRaises, Spend, ExceptRaises, Goto
  <2> QED BY <1>24, <2>1, <2>2, <2>3, <2>4 DEF UpdateRaises
<1>u. ASSUME NEW a \in Actors, UpdateUnheard(a) PROVE GivesUp
  <2>1. \A j \in Jobs : Open(j)' => Open(j)
    <3>1. new[a] \notin {"NONE", "QUEUED"}
      BY <1>u DEF UpdateUnheard, NewInv, Outcomes, HumanMoves
    <3>2. status' = [status EXCEPT ![Target(a)] = new[a]]
      BY <1>u DEF UpdateUnheard
    <3> QED
      BY <3>1, <3>2 DEF Open, RowTypes
  <2>2. rest' = rest /\ cur' = cur /\ runs' = runs
    BY <1>u DEF UpdateUnheard
  <2>3. \A c \in Contexts : pc'[c] \in {"idle", "claim"} => pc'[c] = pc[c]
    BY <1>u DEF UpdateUnheard, ReturnToRoute, ReturnToParent, TryRaises, ExceptRaises,
              Goto, ContextTypes
  <2> QED
    BY <2>1, <2>2, <2>3 DEF GivesUp, HoldInv, ContextTypes
<1>25. ASSUME NEW h \in Humans, NEW j \in Rows, NEW m \in HumanMoves, HumanRequest(h, j, m) PROVE GivesUp
  BY <1>25 DEF GivesUp, HoldInv, Open, RowTypes, ContextTypes, CurInv, HumanRequest,
       Spend, Goto
<1>26. ASSUME NEW h \in Humans, AdminRelease(h) PROVE GivesUp
  BY <1>26 DEF GivesUp, HoldInv, Open, RowTypes, ContextTypes, CurInv, AdminRelease, Goto
<1>27. ASSUME NEW h \in Humans, AdminReleaseSkipped(h) PROVE GivesUp
  BY <1>27 DEF GivesUp, HoldInv, Open, RowTypes, ContextTypes, CurInv,
       AdminReleaseSkipped, Goto
<1>28. ASSUME NEW h \in Humans, HumanNote(h) PROVE GivesUp
  BY <1>28 DEF GivesUp, HoldInv, Open, RowTypes, ContextTypes, CurInv, HumanNote, Answer,
       Note, Goto
<1>29. ASSUME NEW h \in Humans, HumanNoteFails(h) PROVE GivesUp
  BY <1>29 DEF GivesUp, HoldInv, Open, RowTypes, ContextTypes, CurInv, HumanNoteFails,
       Answer, Spend, Goto
<1>30. ASSUME NEW j \in Rows, GoesStale(j) PROVE GivesUp
  BY <1>30 DEF GivesUp, HoldInv, Open, RowTypes, ContextTypes, CurInv, GoesStale
<1>31. ASSUME NEW P \in Processes, Crash(P) PROVE GivesUp
  BY <1>31 DEF GivesUp, HoldInv, Open, RowTypes, ContextTypes, CurInv, Crash, Spend
<1>32. ASSUME UNCHANGED vars PROVE GivesUp
  BY <1>32 DEF GivesUp, HoldInv, Open, RowTypes, ContextTypes, CurInv, vars
<1> HIDE DEF Contexts, Actors, Ticks, Rows, rowVars, ctxVars, outVars
<1> QED
  BY <1>1, <1>2, <1>3, <1>4, <1>5, <1>6, <1>7, <1>8, <1>9, <1>10, <1>11, <1>12, <1>13,
       <1>14, <1>15, <1>16, <1>17, <1>18, <1>19, <1>20, <1>21, <1>22, <1>23, <1>24, <1>u, <1>25,
       <1>26, <1>27, <1>28, <1>29, <1>30, <1>31, <1>32, GivesUpHold, HoldClaimSteps,
       HoldStart
     DEF Next, CreateStep, JobStep, DelegationStep, UpdateStep, HumanStep

LEMMA HoldInit == Init => HoldInv
  BY IdsAssumption DEF Init, HoldInv, Holds, Open, Contexts, Actors, Rows

\* SingleExecution for every instance: process_job is entered at most once per
\* job and no two coroutines ever hold the same job.
THEOREM JobsRunOnce == Spec => []SingleExecution
<1>1. Spec => [](Typed /\ HoldInv)
  BY TypedInit, TypedStep, HoldInit, HoldStep, PTL DEF Spec
<1>2. HoldInv => SingleExecution
  BY DEF HoldInv, SingleExecution
<1> QED
  BY <1>1, <1>2, PTL

\* Every step but the escrow call leaves the escrow alone, and puts a coroutine
\* before it only with a job that has not run.
EscrowAlone ==
    /\ money' = money
    /\ \A j \in Jobs : runs'[j] = 0 => runs[j] = 0
    /\ \A j \in Jobs, c \in Contexts :
        cur'[c] = j /\ pc'[c] \in Early => (cur[c] = j /\ pc[c] \in Early) \/ runs[j] = 0

LEMMA EscrowAloneMoney == MoneyInv /\ EscrowAlone => MoneyInv'
  BY DEF EscrowAlone, MoneyInv

LEMMA EscrowCallMoney ==
    ASSUME Typed, HoldInv, MoneyInv, NEW c \in Contexts, EscrowCall(c) PROVE MoneyInv'
<1> USE IdsAssumption DEF Typed, TypeOK, Rows, Contexts, Actors
<1> DEFINE j == cur[c]
<1>1. j \in Jobs /\ pc[c] = "escrow"
  BY DEF EscrowCall, CurInv, Busy
<1>2. PICK x \in {"release", "complete"} : money' = [money EXCEPT ![j] = Append(@, x)]
  BY DEF EscrowCall
<1>3. money[j] = <<>>
  BY <1>1 DEF MoneyInv, Early
<1>4. Len(money'[j]) = 1 /\ \A k \in Jobs \ {j} : money'[k] = money[k]
  BY <1>1, <1>2, <1>3 DEF OutsideTypes
<1>5. cur' = cur /\ runs' = runs /\ pc' = [pc EXCEPT ![c] = "stop"]
  BY DEF EscrowCall, Goto
<1>6. runs[j] = 1 /\ \A d \in Contexts : cur[d] = j => d = c
  BY <1>1 DEF HoldInv, Holds
<1>7. \A d \in Contexts : pc'[d] \in Early => pc[d] \in Early /\ d # c
  BY <1>5 DEF Early, ContextTypes
<1>8. \A k \in Jobs : Len(money'[k]) <= 1
  <2> SUFFICES ASSUME NEW k \in Jobs PROVE Len(money'[k]) <= 1
    OBVIOUS
  <2>1. CASE k = j
    <3>1. Len(money'[k]) = 1
      BY <1>4, <2>1, Zenon
    <3> QED
      BY ONLY <3>1
  <2>2. CASE k # j
    BY <1>4, <2>2 DEF MoneyInv
  <2> QED
    BY <2>1, <2>2
<1>9. \A k \in Jobs : runs'[k] = 0 => money'[k] = <<>>
  BY <1>4, <1>5, <1>6 DEF MoneyInv
<1>10. \A k \in Jobs, d \in Contexts : cur'[d] = k /\ pc'[d] \in Early => money'[k] = <<>>
  BY <1>4, <1>5, <1>6, <1>7 DEF MoneyInv
<1> QED
  BY <1>8, <1>9, <1>10 DEF MoneyInv

\* Every step keeps MoneyInv.
LEMMA MoneyStep == Typed /\ HoldInv /\ MoneyInv /\ [Next]_vars => MoneyInv'
<1> SUFFICES ASSUME Typed, HoldInv, MoneyInv, [Next]_vars PROVE MoneyInv'
  OBVIOUS
<1> USE IdsAssumption DEF Typed, TypeOK, Contexts, Actors, Ticks, Rows, rowVars, ctxVars, outVars
<1>1. ASSUME NEW j \in Jobs, NEW d \in Deals, CreateJob(j, d) PROVE EscrowAlone
  BY <1>1 DEF EscrowAlone, HoldInv, CurInv, NewInv, ContextTypes, OutsideTypes, Early,
       Busy, CreateJob
<1>2. ASSUME NEW c \in Ticks, TickReap(c) PROVE EscrowAlone
  BY <1>2 DEF EscrowAlone, HoldInv, CurInv, NewInv, ContextTypes, OutsideTypes, Early,
       Busy, TickReap, ExpireStaleRunningJobs, StaleRunning, Goto
<1>3. ASSUME NEW c \in Pollers, TickClaim(c) PROVE EscrowAlone
  BY <1>3 DEF EscrowAlone, HoldInv, CurInv, NewInv, ContextTypes, OutsideTypes, Early,
       Busy, TickClaim, ClaimRows, OldestQueued, Queued, Goto
<1>4. ASSUME NEW c \in Triggers, NEW j \in Jobs, ClaimJobById(c, j) PROVE EscrowAlone
  BY <1>4 DEF EscrowAlone, HoldInv, CurInv, NewInv, ContextTypes, OutsideTypes, Early,
       Busy, ClaimJobById, ClaimableById, ClaimRows, Queued, Goto
<1>5. ASSUME LoopReap PROVE EscrowAlone
  BY <1>5 DEF EscrowAlone, HoldInv, CurInv, NewInv, ContextTypes, OutsideTypes, Early,
       Busy, LoopReap, ExpireStaleRunningJobs, StaleRunning
<1>6. ASSUME LoopClaim PROVE EscrowAlone
  BY <1>6 DEF EscrowAlone, HoldInv, CurInv, NewInv, ContextTypes, OutsideTypes, Early,
       Busy, LoopClaim, ClaimRows, OldestQueued, Queued
<1>7. ASSUME HandleSignal PROVE EscrowAlone
  BY <1>7 DEF EscrowAlone, HoldInv, CurInv, NewInv, ContextTypes, OutsideTypes, Early,
       Busy, HandleSignal
<1>8. ASSUME Restart PROVE EscrowAlone
  BY <1>8 DEF EscrowAlone, HoldInv, CurInv, NewInv, ContextTypes, OutsideTypes, Early,
       Busy, Restart
<1>9. ASSUME NEW c \in Contexts, StartJob(c) PROVE EscrowAlone
  BY <1>9 DEF EscrowAlone, HoldInv, CurInv, NewInv, ContextTypes, OutsideTypes, Early,
       Busy, StartJob, Goto
<1>10. ASSUME NEW c \in Contexts, ChildReturns(c) PROVE EscrowAlone
  BY <1>10 DEF EscrowAlone, HoldInv, CurInv, NewInv, ContextTypes, OutsideTypes, Early,
       Busy, ChildReturns, Goto
<1>11. ASSUME NEW c \in Contexts, AgentReturns(c) PROVE EscrowAlone
  BY <1>11 DEF EscrowAlone, HoldInv, CurInv, NewInv, ContextTypes, OutsideTypes, Early,
       Busy, AgentReturns, Goto
<1>12. ASSUME NEW c \in Contexts, AgentRaises(c) PROVE EscrowAlone
  BY <1>12 DEF EscrowAlone, HoldInv, CurInv, NewInv, ContextTypes, OutsideTypes, Early,
       Busy, AgentRaises, Goto
<1>13. ASSUME NEW c \in Contexts, EscrowUnmoved(c) PROVE EscrowAlone
  BY <1>13 DEF EscrowAlone, HoldInv, CurInv, NewInv, ContextTypes, OutsideTypes, Early,
       Busy, EscrowUnmoved, Goto
<1>14. ASSUME NEW c \in Contexts, StopRaises(c) PROVE EscrowAlone
  BY <1>14 DEF EscrowAlone, HoldInv, CurInv, NewInv, ContextTypes, OutsideTypes, Early,
       Busy, StopRaises, JobRaises, ForgetLocals, Goto
<1>15. ASSUME NEW c \in Contexts, StopReturns(c) PROVE EscrowAlone
  BY <1>15 DEF EscrowAlone, HoldInv, CurInv, NewInv, ContextTypes, OutsideTypes, Early,
       Busy, StopReturns, JobDone, ForgetLocals, Goto
<1>16. ASSUME NEW c \in Contexts, StopThenCallback(c) PROVE EscrowAlone
  BY <1>16 DEF EscrowAlone, HoldInv, CurInv, NewInv, ContextTypes, OutsideTypes, Early,
       Busy, StopThenCallback, WantsCallback, Goto
<1>17. ASSUME NEW c \in Contexts, CallbackArrives(c) PROVE EscrowAlone
  <2>1. CASE JobDone(c)
    BY <1>17, <2>1 DEF EscrowAlone, HoldInv, CurInv, NewInv, ContextTypes, OutsideTypes,
         Early, Busy, CallbackArrives, JobDone, ForgetLocals, Goto
  <2>2. CASE CallbackWaits(c)
    BY <1>17, <2>2 DEF EscrowAlone, HoldInv, CurInv, NewInv, ContextTypes, OutsideTypes,
         Early, Busy, CallbackArrives, CallbackWaits
  <2> QED BY <1>17, <2>1, <2>2 DEF CallbackArrives, CallbackUnanswered
<1>18. ASSUME NEW c \in Contexts, CallbackLost(c) PROVE EscrowAlone
  <2>1. CASE JobDone(c)
    BY <1>18, <2>1 DEF EscrowAlone, HoldInv, CurInv, NewInv, ContextTypes, OutsideTypes,
         Early, Busy, CallbackLost, JobDone, ForgetLocals, Goto
  <2>2. CASE CallbackWaits(c)
    BY <1>18, <2>2 DEF EscrowAlone, HoldInv, CurInv, NewInv, ContextTypes, OutsideTypes,
         Early, Busy, CallbackLost, CallbackWaits
  <2> QED BY <1>18, <2>1, <2>2 DEF CallbackLost, CallbackUnanswered
<1>19. ASSUME NEW c \in Contexts, NEW k \in Children, DelegateChild(c, k) PROVE EscrowAlone
  BY <1>19 DEF EscrowAlone, HoldInv, CurInv, NewInv, ContextTypes, OutsideTypes, Early,
       Busy, DelegateChild
<1>20. ASSUME NEW c \in Contexts, NEW k \in Children, DelegateUnrecorded(c, k) PROVE EscrowAlone
  BY <1>20 DEF EscrowAlone, HoldInv, CurInv, NewInv, ContextTypes, OutsideTypes, Early,
       Busy, DelegateUnrecorded, Spend
<1>21. ASSUME NEW c \in Contexts, Heartbeat(c) PROVE EscrowAlone
  BY <1>21 DEF EscrowAlone, HoldInv, CurInv, NewInv, ContextTypes, OutsideTypes, Early,
       Busy, Heartbeat, Awaiting
<1>22. ASSUME NEW c \in Contexts, ChildHeartbeat(c) PROVE EscrowAlone
  BY <1>22 DEF EscrowAlone, HoldInv, CurInv, NewInv, ContextTypes, OutsideTypes, Early,
       Busy, ChildHeartbeat
<1>23. ASSUME NEW c \in Contexts, HeartbeatRaises(c) PROVE EscrowAlone
  BY <1>23 DEF EscrowAlone, HoldInv, CurInv, NewInv, ContextTypes, OutsideTypes, Early,
       Busy, HeartbeatRaises, Spend
<1>24. ASSUME NEW a \in Actors, RefuseStatus(a) PROVE EscrowAlone
  <2>1. CASE ReturnToRoute(a)
    BY <1>24, <2>1 DEF EscrowAlone, HoldInv, CurInv, NewInv, ContextTypes, OutsideTypes,
         Early, Busy, RefuseStatus, ReturnToRoute, Goto
  <2>2. CASE ReturnToParent(a)
    BY <1>24, <2>2 DEF EscrowAlone, HoldInv, CurInv, NewInv, ContextTypes, OutsideTypes,
         Early, Busy, RefuseStatus, ReturnToParent, Goto
  <2>3. CASE ReturnToJob(a)
    BY <1>24, <2>3 DEF EscrowAlone, HoldInv, CurInv, NewInv, ContextTypes, OutsideTypes,
         Early, Busy, RefuseStatus, ReturnToJob, Goto
  <2> QED BY <1>24, <2>1, <2>2, <2>3 DEF RefuseStatus, Return
<1>25. ASSUME NEW a \in Actors, SelectStatus(a) PROVE EscrowAlone
  BY <1>25 DEF EscrowAlone, HoldInv, CurInv, NewInv, ContextTypes, OutsideTypes, Early,
       Busy, SelectStatus, Target, Goto
<1>26. ASSUME NEW a \in Actors, WriteStatus(a) PROVE EscrowAlone
  <2>1. CASE ReturnToRoute(a)
    BY <1>26, <2>1 DEF EscrowAlone, HoldInv, CurInv, NewInv, ContextTypes, OutsideTypes,
         Early, Busy, WriteStatus, Target, ReturnToRoute, Goto
  <2>2. CASE ReturnToParent(a)
    BY <1>26, <2>2 DEF EscrowAlone, HoldInv, CurInv, NewInv, ContextTypes, OutsideTypes,
         Early, Busy, WriteStatus, Target, ReturnToParent, Goto
  <2>3. CASE ReturnToJob(a)
    BY <1>26, <2>3 DEF EscrowAlone, HoldInv, CurInv, NewInv, ContextTypes, OutsideTypes,
         Early, Busy, WriteStatus, Target, ReturnToJob, Goto
  <2> QED BY <1>26, <2>1, <2>2, <2>3 DEF WriteStatus, Return
<1>27. ASSUME NEW a \in Actors, UpdateRaises(a) PROVE EscrowAlone
  <2>1. CASE ReturnToRoute(a)
    BY <1>27, <2>1 DEF EscrowAlone, HoldInv, CurInv, NewInv, ContextTypes, OutsideTypes,
         Early, Busy, UpdateRaises, Spend, ReturnToRoute, Goto
  <2>2. CASE ReturnToParent(a)
    BY <1>27, <2>2 DEF EscrowAlone, HoldInv, CurInv, NewInv, ContextTypes, OutsideTypes,
         Early, Busy, UpdateRaises, Spend, ReturnToParent, Goto
  <2>3. CASE TryRaises(a)
    BY <1>27, <2>3 DEF EscrowAlone, HoldInv, CurInv, NewInv, ContextTypes, OutsideTypes,
         Early, Busy, UpdateRaises, Spend, TryRaises, Goto
  <2>4. CASE ExceptRaises(a)
    BY <1>27, <2>4 DEF EscrowAlone, HoldInv, CurInv, NewInv, ContextTypes, OutsideTypes,
         Early, Busy, UpdateRaises, Spend, ExceptRaises, Goto
  <2> QED BY <1>27, <2>1, <2>2, <2>3, <2>4 DEF UpdateRaises
<1>u. ASSUME NEW a \in Actors, UpdateUnheard(a) PROVE EscrowAlone
  <2>1. CASE ReturnToRoute(a)
    BY <1>u, <2>1 DEF EscrowAlone, HoldInv, CurInv, NewInv, ContextTypes, OutsideTypes,
         Early, Busy, UpdateUnheard, Target, Spend, ReturnToRoute, Goto
  <2>2. CASE ReturnToParent(a)
    BY <1>u, <2>2 DEF EscrowAlone, HoldInv, CurInv, NewInv, ContextTypes, OutsideTypes,
         Early, Busy, UpdateUnheard, Target, Spend, ReturnToParent, Goto
  <2>3. CASE TryRaises(a)
    BY <1>u, <2>3 DEF EscrowAlone, HoldInv, CurInv, NewInv, ContextTypes, OutsideTypes,
         Early, Busy, UpdateUnheard, Target, Spend, TryRaises, Goto
  <2>4. CASE ExceptRaises(a)
    BY <1>u, <2>4 DEF EscrowAlone, HoldInv, CurInv, NewInv, ContextTypes, OutsideTypes,
         Early, Busy, UpdateUnheard, Target, Spend, ExceptRaises, Goto
  <2> QED BY <1>u, <2>1, <2>2, <2>3, <2>4 DEF UpdateUnheard
<1>28. ASSUME NEW h \in Humans, NEW j \in Rows, NEW m \in HumanMoves, HumanRequest(h, j, m) PROVE EscrowAlone
  BY <1>28 DEF EscrowAlone, HoldInv, CurInv, NewInv, ContextTypes, OutsideTypes, Early,
       Busy, HumanRequest, Spend, Goto
<1>29. ASSUME NEW h \in Humans, AdminRelease(h) PROVE EscrowAlone
  BY <1>29 DEF EscrowAlone, HoldInv, CurInv, NewInv, ContextTypes, OutsideTypes, Early,
       Busy, AdminRelease, Goto
<1>30. ASSUME NEW h \in Humans, AdminReleaseSkipped(h) PROVE EscrowAlone
  BY <1>30 DEF EscrowAlone, HoldInv, CurInv, NewInv, ContextTypes, OutsideTypes, Early,
       Busy, AdminReleaseSkipped, Goto
<1>31. ASSUME NEW h \in Humans, HumanNote(h) PROVE EscrowAlone
  BY <1>31 DEF EscrowAlone, HoldInv, CurInv, NewInv, ContextTypes, OutsideTypes, Early,
       Busy, HumanNote, Answer, Note, Goto
<1>32. ASSUME NEW h \in Humans, HumanNoteFails(h) PROVE EscrowAlone
  BY <1>32 DEF EscrowAlone, HoldInv, CurInv, NewInv, ContextTypes, OutsideTypes, Early,
       Busy, HumanNoteFails, Answer, Spend, Goto
<1>33. ASSUME NEW j \in Rows, GoesStale(j) PROVE EscrowAlone
  BY <1>33 DEF EscrowAlone, HoldInv, CurInv, NewInv, ContextTypes, OutsideTypes, Early,
       Busy, GoesStale
<1>34. ASSUME NEW P \in Processes, Crash(P) PROVE EscrowAlone
  BY <1>34 DEF EscrowAlone, HoldInv, CurInv, NewInv, ContextTypes, OutsideTypes, Early,
       Busy, Crash, Spend
<1>35. ASSUME UNCHANGED vars PROVE EscrowAlone
  BY <1>35 DEF EscrowAlone, HoldInv, CurInv, NewInv, ContextTypes, OutsideTypes, Early,
       Busy, vars
<1> HIDE DEF Typed, TypeOK, Contexts, Actors, Ticks, Rows, rowVars, ctxVars, outVars
<1> QED
  BY <1>1, <1>2, <1>3, <1>4, <1>5, <1>6, <1>7, <1>8, <1>9, <1>10, <1>11, <1>12, <1>13,
       <1>14, <1>15, <1>16, <1>17, <1>18, <1>19, <1>20, <1>21, <1>22, <1>23, <1>24, <1>25,
       <1>26, <1>27, <1>u, <1>28, <1>29, <1>30, <1>31, <1>32, <1>33, <1>34, <1>35,
       EscrowAloneMoney, EscrowCallMoney
     DEF Next, CreateStep, JobStep, DelegationStep, UpdateStep, HumanStep

LEMMA MoneyInit == Init => MoneyInv
  BY IdsAssumption DEF Init, MoneyInv, Early, Contexts, Actors, Rows

\* OneEscrowMove for every instance: the worker never settles and refunds the
\* same job, nor does either twice.
THEOREM JobsMoveEscrowOnce == Spec => []OneEscrowMove
<1>1. Spec => [](Typed /\ HoldInv /\ MoneyInv)
  BY TypedInit, TypedStep, HoldInit, HoldStep, MoneyInit, MoneyStep, PTL DEF Spec
<1>2. MoneyInv => OneEscrowMove
  BY DEF MoneyInv, OneEscrowMove
<1> QED
  BY <1>1, <1>2, PTL

\* Every step keeps the row of a coroutine past update_job_status closed.
Later == {"escrow", "stop", "callback"}
OpenStatuses == {"NONE", "QUEUED", "RUNNING"}

RowKept ==
    \A c \in Contexts :
        \/ /\ final'[c] = "NONE"
        \/ /\ pc'[c] \in Later
           /\ \/ cur'[c] = cur[c] /\ pc[c] \in Later /\ final'[c] = final[c]
              \/ status'[cur'[c]] \notin OpenStatuses

LEMMA RowKeptRow == Typed /\ RowInv /\ ClosedStays /\ RowKept => RowInv'
<1> SUFFICES ASSUME Typed, RowInv, ClosedStays, RowKept, NEW c \in Contexts
             PROVE  /\ pc'[c] \notin Later => final'[c] = "NONE"
                    /\ pc'[c] \in Later /\ final'[c] # "NONE"
                        => status'[cur'[c]] \notin OpenStatuses
  BY DEF RowInv, Later, Closed, OpenStatuses
<1>1. CASE final'[c] = "NONE"
  BY <1>1
<1>2. CASE pc'[c] \in Later /\ cur'[c] = cur[c] /\ pc[c] \in Later /\ final'[c] = final[c]
  <2>1. cur[c] \in Rows
    BY <1>2 DEF Typed, CurInv, Busy, Later, Rows
  <2>2. final[c] # "NONE" => status[cur[c]] \notin OpenStatuses
    BY <1>2 DEF RowInv, Later, Closed, OpenStatuses
  <2>3. ASSUME NEW j \in Rows, status[j] \notin OpenStatuses PROVE status'[j] \notin OpenStatuses
    BY <2>3 DEF ClosedStays, Closed, OpenStatuses
  <2> QED
    BY <1>2, <2>1, <2>2, <2>3 DEF Later
<1>3. CASE pc'[c] \in Later /\ status'[cur'[c]] \notin OpenStatuses
  BY <1>3 DEF Later
<1> QED
  BY <1>1, <1>2, <1>3 DEF RowKept

\* Every step keeps RowInv.
LEMMA RowStep == Typed /\ HoldInv /\ RowInv /\ [Next]_vars => RowInv'
<1> SUFFICES ASSUME Typed, HoldInv, RowInv, [Next]_vars PROVE RowInv'
  OBVIOUS
<1> USE IdsAssumption DEF Typed, TypeOK, Contexts, Actors, Ticks, Rows, rowVars, ctxVars, outVars
<1>1. ASSUME NEW j \in Jobs, NEW d \in Deals, CreateJob(j, d) PROVE RowKept
  BY <1>1 DEF RowKept, RowInv, Later, CurInv, NewInv, ContextTypes, CreateJob
<1>2. ASSUME NEW c \in Ticks, TickReap(c) PROVE RowKept
  BY <1>2 DEF RowKept, RowInv, Later, CurInv, NewInv, ContextTypes, TickReap,
       ExpireStaleRunningJobs, StaleRunning, Goto
<1>3. ASSUME NEW c \in Pollers, TickClaim(c) PROVE RowKept
  BY <1>3 DEF RowKept, RowInv, Later, CurInv, NewInv, ContextTypes, TickClaim, ClaimRows,
       OldestQueued, Queued, Goto
<1>4. ASSUME NEW c \in Triggers, NEW j \in Jobs, ClaimJobById(c, j) PROVE RowKept
  BY <1>4 DEF RowKept, RowInv, Later, CurInv, NewInv, ContextTypes, ClaimJobById,
       ClaimableById, ClaimRows, Queued, Goto
<1>5. ASSUME LoopReap PROVE RowKept
  BY <1>5 DEF RowKept, RowInv, Later, CurInv, NewInv, ContextTypes, LoopReap,
       ExpireStaleRunningJobs, StaleRunning
<1>6. ASSUME LoopClaim PROVE RowKept
  BY <1>6 DEF RowKept, RowInv, Later, CurInv, NewInv, ContextTypes, LoopClaim, ClaimRows,
       OldestQueued, Queued
<1>7. ASSUME HandleSignal PROVE RowKept
  BY <1>7 DEF RowKept, RowInv, Later, CurInv, NewInv, ContextTypes, HandleSignal
<1>8. ASSUME Restart PROVE RowKept
  BY <1>8 DEF RowKept, RowInv, Later, CurInv, NewInv, ContextTypes, Restart
<1>9. ASSUME NEW c \in Contexts, StartJob(c) PROVE RowKept
  BY <1>9 DEF RowKept, RowInv, Later, CurInv, NewInv, ContextTypes, StartJob, Goto
<1>10. ASSUME NEW c \in Contexts, ChildReturns(c) PROVE RowKept
  BY <1>10 DEF RowKept, RowInv, Later, CurInv, NewInv, ContextTypes, ChildReturns, Goto
<1>11. ASSUME NEW c \in Contexts, AgentReturns(c) PROVE RowKept
  BY <1>11 DEF RowKept, RowInv, Later, CurInv, NewInv, ContextTypes, AgentReturns, Goto
<1>12. ASSUME NEW c \in Contexts, AgentRaises(c) PROVE RowKept
  BY <1>12 DEF RowKept, RowInv, Later, CurInv, NewInv, ContextTypes, AgentRaises, Goto
<1>13. ASSUME NEW c \in Contexts, EscrowCall(c) PROVE RowKept
  BY <1>13 DEF RowKept, RowInv, Later, CurInv, NewInv, ContextTypes, EscrowCall, Goto
<1>14. ASSUME NEW c \in Contexts, EscrowUnmoved(c) PROVE RowKept
  BY <1>14 DEF RowKept, RowInv, Later, CurInv, NewInv, ContextTypes, EscrowUnmoved, Goto
<1>15. ASSUME NEW c \in Contexts, StopRaises(c) PROVE RowKept
  BY <1>15 DEF RowKept, RowInv, Later, CurInv, NewInv, ContextTypes, StopRaises,
       JobRaises, ForgetLocals, Goto
<1>16. ASSUME NEW c \in Contexts, StopReturns(c) PROVE RowKept
  BY <1>16 DEF RowKept, RowInv, Later, CurInv, NewInv, ContextTypes, StopReturns, JobDone,
       ForgetLocals, Goto
<1>17. ASSUME NEW c \in Contexts, StopThenCallback(c) PROVE RowKept
  BY <1>17 DEF RowKept, RowInv, Later, CurInv, NewInv, ContextTypes, StopThenCallback,
       WantsCallback, Goto
<1>18. ASSUME NEW c \in Contexts, CallbackArrives(c) PROVE RowKept
  <2>1. CASE JobDone(c)
    BY <1>18, <2>1 DEF RowKept, RowInv, Later, CurInv, NewInv, ContextTypes,
         CallbackArrives, JobDone, ForgetLocals, Goto
  <2>2. CASE CallbackWaits(c)
    BY <1>18, <2>2 DEF RowKept, RowInv, Later, CurInv, NewInv, ContextTypes,
         CallbackArrives, CallbackWaits
  <2> QED BY <1>18, <2>1, <2>2 DEF CallbackArrives, CallbackUnanswered
<1>19. ASSUME NEW c \in Contexts, CallbackLost(c) PROVE RowKept
  <2>1. CASE JobDone(c)
    BY <1>19, <2>1 DEF RowKept, RowInv, Later, CurInv, NewInv, ContextTypes,
         CallbackLost, JobDone, ForgetLocals, Goto
  <2>2. CASE CallbackWaits(c)
    BY <1>19, <2>2 DEF RowKept, RowInv, Later, CurInv, NewInv, ContextTypes,
         CallbackLost, CallbackWaits
  <2> QED BY <1>19, <2>1, <2>2 DEF CallbackLost, CallbackUnanswered
<1>20. ASSUME NEW c \in Contexts, NEW k \in Children, DelegateChild(c, k) PROVE RowKept
  BY <1>20 DEF RowKept, RowInv, Later, CurInv, NewInv, ContextTypes, DelegateChild
<1>21. ASSUME NEW c \in Contexts, NEW k \in Children, DelegateUnrecorded(c, k) PROVE RowKept
  BY <1>21 DEF RowKept, RowInv, Later, CurInv, NewInv, ContextTypes, DelegateUnrecorded,
       Spend
<1>22. ASSUME NEW c \in Contexts, Heartbeat(c) PROVE RowKept
  BY <1>22 DEF RowKept, RowInv, Later, CurInv, NewInv, ContextTypes, Heartbeat, Awaiting
<1>23. ASSUME NEW c \in Contexts, ChildHeartbeat(c) PROVE RowKept
  BY <1>23 DEF RowKept, RowInv, Later, CurInv, NewInv, ContextTypes, ChildHeartbeat
<1>24. ASSUME NEW c \in Contexts, HeartbeatRaises(c) PROVE RowKept
  BY <1>24 DEF RowKept, RowInv, Later, CurInv, NewInv, ContextTypes, HeartbeatRaises, Spend
<1>25. ASSUME NEW a \in Actors, RefuseStatus(a) PROVE RowKept
  <2>1. CASE ReturnToRoute(a)
    BY <1>25, <2>1 DEF RowKept, RowInv, Later, ContextTypes, CurInv, NewInv, RefuseStatus,
       ReturnToRoute, Goto
  <2>2. CASE ReturnToParent(a)
    BY <1>25, <2>2 DEF RowKept, RowInv, Later, ContextTypes, CurInv, NewInv, RefuseStatus,
       ReturnToParent, Goto
  <2>3. CASE ReturnToJob(a)
    <3>1. cur[a] \in Jobs /\ Target(a) = cur[a] /\ cur' = cur /\ status' = status
      BY <1>25, <2>3 DEF RefuseStatus, ReturnToJob, Target, CurInv, Busy
    <3>2. ~Open(cur[a])
      BY <3>1, <2>3 DEF HoldInv, Holds, ReturnToJob
    <3>3. status'[cur'[a]] \notin OpenStatuses
      BY <1>25, <3>1, <3>2 DEF RefuseStatus, Refused, Open, OpenStatuses, TerminalJobStatuses
    <3> QED
      BY <1>25, <2>3, <3>1, <3>3 DEF RowKept, RowInv, Later, ContextTypes, CurInv,
         RefuseStatus, ReturnToJob, Goto
  <2> QED BY <1>25, <2>1, <2>2, <2>3 DEF RefuseStatus, Return
<1>26. ASSUME NEW a \in Actors, SelectStatus(a) PROVE RowKept
  BY <1>26 DEF RowKept, RowInv, Later, CurInv, NewInv, ContextTypes, SelectStatus, Target,
       Goto
<1>27. ASSUME NEW a \in Actors, WriteStatus(a) PROVE RowKept
  <2>1. CASE ReturnToRoute(a)
    BY <1>27, <2>1 DEF RowKept, RowInv, Later, ContextTypes, CurInv, NewInv, WriteStatus,
       ReturnToRoute, Goto
  <2>2. CASE ReturnToParent(a)
    BY <1>27, <2>2 DEF RowKept, RowInv, Later, ContextTypes, CurInv, NewInv, WriteStatus,
       ReturnToParent, Goto
  <2>3. CASE ReturnToJob(a)
    <3>1. cur[a] \in Jobs /\ Target(a) = cur[a] /\ cur' = cur
      BY <1>27, <2>3 DEF WriteStatus, ReturnToJob, Target, CurInv, Busy
    <3>2. status'[cur[a]] = new[a] /\ new[a] \in Outcomes
      BY <1>27, <2>3, <3>1 DEF WriteStatus, ReturnToJob, RowTypes, NewInv
    <3>3. status'[cur'[a]] \notin OpenStatuses
      BY <3>1, <3>2 DEF OpenStatuses, Outcomes
    <3> QED
      BY <1>27, <2>3, <3>1, <3>3 DEF RowKept, RowInv, Later, ContextTypes, CurInv,
         WriteStatus, ReturnToJob, Goto
  <2> QED BY <1>27, <2>1, <2>2, <2>3 DEF WriteStatus, Return
<1>28. ASSUME NEW a \in Actors, UpdateRaises(a) PROVE RowKept
  <2>1. CASE ReturnToRoute(a)
    BY <1>28, <2>1 DEF RowKept, RowInv, Later, CurInv, NewInv, ContextTypes,
         UpdateRaises, Spend, ReturnToRoute, Goto
  <2>2. CASE ReturnToParent(a)
    BY <1>28, <2>2 DEF RowKept, RowInv, Later, CurInv, NewInv, ContextTypes,
         UpdateRaises, Spend, ReturnToParent, Goto
  <2>3. CASE TryRaises(a)
    BY <1>28, <2>3 DEF RowKept, RowInv, Later, CurInv, NewInv, ContextTypes,
         UpdateRaises, Spend, TryRaises, Goto
  <2>4. CASE ExceptRaises(a)
    BY <1>28, <2>4 DEF RowKept, RowInv, Later, CurInv, NewInv, ContextTypes,
         UpdateRaises, Spend, ExceptRaises, Goto
  <2> QED BY <1>28, <2>1, <2>2, <2>3, <2>4 DEF UpdateRaises
<1>u. ASSUME NEW a \in Actors, UpdateUnheard(a) PROVE RowKept
  <2>1. CASE ReturnToRoute(a)
    BY <1>u, <2>1 DEF RowKept, RowInv, Later, CurInv, NewInv, ContextTypes,
         UpdateUnheard, Target, Spend, ReturnToRoute, Goto
  <2>2. CASE ReturnToParent(a)
    BY <1>u, <2>2 DEF RowKept, RowInv, Later, CurInv, NewInv, ContextTypes,
         UpdateUnheard, Target, Spend, ReturnToParent, Goto
  <2>3. CASE TryRaises(a)
    BY <1>u, <2>3 DEF RowKept, RowInv, Later, CurInv, NewInv, ContextTypes,
         UpdateUnheard, Target, Spend, TryRaises, Goto
  <2>4. CASE ExceptRaises(a)
    BY <1>u, <2>4 DEF RowKept, RowInv, Later, CurInv, NewInv, ContextTypes,
         UpdateUnheard, Target, Spend, ExceptRaises, Goto
  <2> QED BY <1>u, <2>1, <2>2, <2>3, <2>4 DEF UpdateUnheard
<1>29. ASSUME NEW h \in Humans, NEW j \in Rows, NEW m \in HumanMoves, HumanRequest(h, j, m) PROVE RowKept
  BY <1>29 DEF RowKept, RowInv, Later, CurInv, NewInv, ContextTypes, HumanRequest, Spend,
       Goto
<1>30. ASSUME NEW h \in Humans, AdminRelease(h) PROVE RowKept
  BY <1>30 DEF RowKept, RowInv, Later, CurInv, NewInv, ContextTypes, AdminRelease, Goto
<1>31. ASSUME NEW h \in Humans, AdminReleaseSkipped(h) PROVE RowKept
  BY <1>31 DEF RowKept, RowInv, Later, CurInv, NewInv, ContextTypes, AdminReleaseSkipped,
       Goto
<1>32. ASSUME NEW h \in Humans, HumanNote(h) PROVE RowKept
  BY <1>32 DEF RowKept, RowInv, Later, CurInv, NewInv, ContextTypes, HumanNote, Answer,
       Note, Goto
<1>33. ASSUME NEW h \in Humans, HumanNoteFails(h) PROVE RowKept
  BY <1>33 DEF RowKept, RowInv, Later, CurInv, NewInv, ContextTypes, HumanNoteFails,
       Answer, Spend, Goto
<1>34. ASSUME NEW j \in Rows, GoesStale(j) PROVE RowKept
  BY <1>34 DEF RowKept, RowInv, Later, CurInv, NewInv, ContextTypes, GoesStale
<1>35. ASSUME NEW P \in Processes, Crash(P) PROVE RowKept
  BY <1>35 DEF RowKept, RowInv, Later, CurInv, NewInv, ContextTypes, Crash, Spend
<1>36. ASSUME UNCHANGED vars PROVE RowKept
  BY <1>36 DEF RowKept, RowInv, Later, CurInv, NewInv, ContextTypes, vars
<1> HIDE DEF Typed, TypeOK, Contexts, Actors, Ticks, Rows, rowVars, ctxVars, outVars
<1> QED
  BY <1>1, <1>2, <1>3, <1>4, <1>5, <1>6, <1>7, <1>8, <1>9, <1>10, <1>11, <1>12, <1>13,
       <1>14, <1>15, <1>16, <1>17, <1>18, <1>19, <1>20, <1>21, <1>22, <1>23, <1>24, <1>25,
       <1>26, <1>27, <1>28, <1>u, <1>29, <1>30, <1>31, <1>32, <1>33, <1>34, <1>35, <1>36,
       ClosedStep, RowKeptRow
     DEF Next, CreateStep, JobStep, DelegationStep, UpdateStep, HumanStep

LEMMA RowInit == Init => RowInv
  BY DEF Init, RowInv, Contexts, Actors

\* Every step but an arriving callback leaves the marketplace's view alone.
PostsAlone ==
    /\ posts' = posts
    /\ \A j \in Jobs : runs'[j] = 0 => runs[j] = 0
    /\ \A c \in Contexts :
        \/ pc'[c] # "callback" /\ tries'[c] = 0
        \/ /\ pc[c] = "stop" /\ pc'[c] = "callback"
           /\ tries'[c] = tries[c] /\ cur'[c] = cur[c]
        \/ /\ pc[c] = "callback" /\ pc'[c] = "callback"
           /\ tries'[c] \in {tries[c], tries[c] + 1} /\ tries'[c] < MaxAttempts
           /\ cur'[c] = cur[c] /\ final'[c] = final[c]
    /\ \A j \in Jobs, c \in Contexts :
        cur'[c] = j /\ pc'[c] # "callback" => (cur[c] = j /\ pc[c] # "callback") \/ runs[j] = 0

LEMMA PostsAlonePost == Typed /\ PostInv /\ ClosedStays /\ PostsAlone => PostInv'
<1> SUFFICES ASSUME Typed, PostInv, ClosedStays, PostsAlone PROVE PostInv'
  OBVIOUS
<1> USE BoundsAssumption DEF Typed, TypeOK
<1>1. /\ \A c \in Contexts : pc'[c] # "callback" => tries'[c] = 0
      /\ \A c \in Contexts : pc'[c] = "callback" => tries'[c] < MaxAttempts
  BY DEF PostsAlone, PostInv
<1>2. \A j \in Jobs : runs'[j] = 0 => posts'[j] = <<>>
  BY DEF PostsAlone, PostInv
<1>3. \A j \in Jobs, c \in Contexts : cur'[c] = j /\ pc'[c] # "callback" => posts'[j] = <<>>
  BY DEF PostsAlone, PostInv
<1>4. ASSUME NEW j \in Jobs, NEW c \in Contexts, cur'[c] = j, pc'[c] = "callback"
      PROVE  Len(posts'[j]) <= tries'[c] /\ \A i \in 1..Len(posts'[j]) : posts'[j][i] = final'[c]
  <2>1. CASE pc[c] = "stop" /\ tries'[c] = tries[c] /\ cur'[c] = cur[c]
    BY <1>4, <2>1 DEF PostsAlone, PostInv
  <2>2. CASE /\ pc[c] = "callback" /\ tries'[c] \in {tries[c], tries[c] + 1}
             /\ cur'[c] = cur[c] /\ final'[c] = final[c]
    BY <1>4, <2>2 DEF PostsAlone, PostInv, ContextTypes, OutsideTypes
  <2> QED
    BY <1>4, <2>1, <2>2 DEF PostsAlone
<1>5. CallbackAfterRow'
  BY DEF PostsAlone, PostInv, CallbackAfterRow, ClosedStays, Rows
<1> QED
  BY <1>1, <1>2, <1>3, <1>4, <1>5 DEF PostInv

LEMMA CallbackArrivesPost ==
    ASSUME Typed, HoldInv, RowInv, PostInv, ClosedStays, NEW c \in Contexts, CallbackArrives(c)
    PROVE  PostInv'
<1> USE IdsAssumption, BoundsAssumption DEF Typed, TypeOK, Rows, Contexts, Actors
<1> DEFINE j == cur[c]
<1>1. j \in Jobs /\ pc[c] = "callback" /\ final[c] \in Outcomes
  BY DEF CallbackArrives, CurInv, Busy, NewInv
<1>2. posts' = [posts EXCEPT ![j] = Append(@, final[c])] /\ runs' = runs
  BY DEF CallbackArrives
<1>3. /\ posts'[j] = Append(posts[j], final[c])
      /\ \A k \in Jobs \ {j} : posts'[k] = posts[k]
  BY <1>1, <1>2 DEF OutsideTypes
<1>4. posts[j] \in Seq(Statuses) /\ final[c] \in Statuses /\ tries[c] \in Nat
  BY <1>1 DEF OutsideTypes, ContextTypes, Statuses, Outcomes
<1>5. /\ Len(posts[j]) <= tries[c] /\ tries[c] < MaxAttempts
      /\ \A i \in 1..Len(posts[j]) : posts[j][i] = final[c]
  BY <1>1 DEF PostInv
<1>6. /\ Len(posts'[j]) = Len(posts[j]) + 1 /\ Len(posts[j]) \in Nat
      /\ \A i \in 1..Len(posts'[j]) : posts'[j][i] = final[c]
  <2>1. ASSUME NEW s \in Seq(Statuses), NEW x \in Statuses,
               \A i \in 1..Len(s) : s[i] = x
        PROVE  /\ Len(Append(s, x)) = Len(s) + 1 /\ Len(s) \in Nat
               /\ \A i \in 1..Len(Append(s, x)) : Append(s, x)[i] = x
    BY <2>1
  <2> QED
    BY <1>3, <1>4, <1>5, <2>1
<1>7. runs[j] = 1 /\ \A d \in Contexts : cur[d] = j => d = c
  BY <1>1 DEF HoldInv, Holds
<1>8. status'[j] \notin OpenStatuses
  <2>1. status[j] \notin OpenStatuses
    BY <1>1 DEF RowInv, Outcomes, Closed, OpenStatuses
  <2>2. status' = status
    BY DEF CallbackArrives, rowVars
  <2> QED
    BY <2>1, <2>2
<1>9. CallbackAfterRow'
  <2> SUFFICES ASSUME NEW k \in Jobs, posts'[k] # <<>>
               PROVE  /\ Closed(k)'
                      /\ \A i \in 1..Len(posts'[k]) : posts'[k][i] = posts'[k][1]
                      /\ Len(posts'[k]) <= MaxAttempts
    BY DEF CallbackAfterRow
  <2>1. CASE k = j
    <3>1. Closed(k)'
      BY <1>8, <2>1 DEF Closed, OpenStatuses
    <3>2. /\ 1 \in 1..Len(posts'[j])
          /\ Len(posts'[j]) <= MaxAttempts
      BY <1>4, <1>5, <1>6
    <3>3. \A i \in 1..Len(posts'[j]) : posts'[j][i] = posts'[j][1]
      BY <1>6, <3>2
    <3> QED
      BY <2>1, <3>1, <3>2, <3>3
  <2>2. CASE k # j
    BY <1>3, <2>2 DEF PostInv, CallbackAfterRow, ClosedStays
  <2> QED
    BY <2>1, <2>2
<1>10. CASE JobDone(c)
  <2>1. \A d \in Contexts : /\ cur'[d] = IF d = c THEN NoJob ELSE cur[d]
                            /\ tries'[d] = IF d = c THEN 0 ELSE tries[d]
                            /\ final'[d] = IF d = c THEN "NONE" ELSE final[d]
                            /\ d # c => pc'[d] = pc[d]
                            /\ pc'[c] # "callback"
    BY <1>10 DEF JobDone, ForgetLocals, Goto, ContextTypes
  <2>2. /\ \A d \in Contexts : pc'[d] # "callback" => tries'[d] = 0
        /\ \A d \in Contexts : pc'[d] = "callback" => tries'[d] < MaxAttempts
    BY <1>1, <2>1 DEF PostInv
  <2>3. \A k \in Jobs : runs'[k] = 0 => posts'[k] = <<>>
    BY <1>2, <1>3, <1>7 DEF PostInv
  <2>4. ASSUME NEW k \in Jobs, NEW d \in Contexts, cur'[d] = k
        PROVE  d # c /\ k # j /\ cur[d] = k /\ pc'[d] = pc[d] /\ posts'[k] = posts[k]
    BY <1>1, <1>3, <1>7, <2>1, <2>4
  <2>5. \A k \in Jobs, d \in Contexts : cur'[d] = k /\ pc'[d] # "callback" => posts'[k] = <<>>
    BY <1>1, <2>4 DEF PostInv
  <2>6. ASSUME NEW k \in Jobs, NEW d \in Contexts, cur'[d] = k, pc'[d] = "callback"
        PROVE  /\ Len(posts'[k]) <= tries'[d]
               /\ \A i \in 1..Len(posts'[k]) : posts'[k][i] = final'[d]
    BY <1>1, <2>1, <2>4, <2>6 DEF PostInv
  <2> QED
    BY <1>9, <2>2, <2>3, <2>5, <2>6 DEF PostInv
<1>11. CASE CallbackWaits(c) /\ tries[c] + 1 < MaxAttempts
  <2>1. /\ cur' = cur /\ pc' = pc /\ final' = final
        /\ \A d \in Contexts : tries'[d] = IF d = c THEN tries[c] + 1 ELSE tries[d]
    BY <1>11 DEF CallbackWaits, ContextTypes
  <2>2. /\ \A d \in Contexts : pc'[d] # "callback" => tries'[d] = 0
        /\ \A d \in Contexts : pc'[d] = "callback" => tries'[d] < MaxAttempts
    BY <1>1, <1>11, <2>1 DEF PostInv
  <2>3. \A k \in Jobs : runs'[k] = 0 => posts'[k] = <<>>
    BY <1>2, <1>3, <1>7 DEF PostInv
  <2>4. \A k \in Jobs, d \in Contexts : cur'[d] = k /\ pc'[d] # "callback" => posts'[k] = <<>>
    BY <1>1, <1>3, <1>7, <2>1 DEF PostInv
  <2>5. ASSUME NEW k \in Jobs, NEW d \in Contexts, cur'[d] = k, pc'[d] = "callback"
        PROVE  /\ Len(posts'[k]) <= tries'[d]
               /\ \A i \in 1..Len(posts'[k]) : posts'[k][i] = final'[d]
    <3>1. CASE d = c
      <4>1. k = j /\ tries'[d] = tries[c] + 1 /\ final'[d] = final[c]
        BY <2>1, <2>5, <3>1
      <4>2. Len(posts'[j]) <= tries[c] + 1
        BY <1>4, <1>5, <1>6
      <4> HIDE DEF j
      <4> QED
        BY <1>6, <4>1, <4>2
    <3>2. CASE d # c
      BY <1>3, <1>7, <2>1, <2>5, <3>2 DEF PostInv
    <3> QED
      BY <3>1, <3>2
  <2> QED
    BY <1>9, <2>2, <2>3, <2>4, <2>5 DEF PostInv
<1> QED
  BY <1>10, <1>11 DEF CallbackArrives, CallbackUnanswered

\* Every step keeps PostInv.
LEMMA PostStep == Typed /\ HoldInv /\ RowInv /\ PostInv /\ [Next]_vars => PostInv'
<1> SUFFICES ASSUME Typed, HoldInv, RowInv, PostInv, [Next]_vars PROVE PostInv'
  OBVIOUS
<1> USE IdsAssumption DEF Typed, TypeOK, Contexts, Actors, Ticks, Rows, rowVars, ctxVars, outVars
<1>1. ASSUME NEW j \in Jobs, NEW d \in Deals, CreateJob(j, d) PROVE PostsAlone
  BY <1>1 DEF PostsAlone, PostInv, HoldInv, CurInv, ContextTypes, OutsideTypes, Busy,
       CreateJob
<1>2. ASSUME NEW c \in Ticks, TickReap(c) PROVE PostsAlone
  BY <1>2 DEF PostsAlone, PostInv, HoldInv, CurInv, ContextTypes, OutsideTypes, Busy,
       TickReap, ExpireStaleRunningJobs, StaleRunning, Goto
<1>3. ASSUME NEW c \in Pollers, TickClaim(c) PROVE PostsAlone
  BY <1>3 DEF PostsAlone, PostInv, HoldInv, CurInv, ContextTypes, OutsideTypes, Busy,
       TickClaim, ClaimRows, OldestQueued, Queued, Goto
<1>4. ASSUME NEW c \in Triggers, NEW j \in Jobs, ClaimJobById(c, j) PROVE PostsAlone
  BY <1>4 DEF PostsAlone, PostInv, HoldInv, CurInv, ContextTypes, OutsideTypes, Busy,
       ClaimJobById, ClaimableById, ClaimRows, Queued, Goto
<1>5. ASSUME LoopReap PROVE PostsAlone
  BY <1>5 DEF PostsAlone, PostInv, HoldInv, CurInv, ContextTypes, OutsideTypes, Busy,
       LoopReap, ExpireStaleRunningJobs, StaleRunning
<1>6. ASSUME LoopClaim PROVE PostsAlone
  BY <1>6 DEF PostsAlone, PostInv, HoldInv, CurInv, ContextTypes, OutsideTypes, Busy,
       LoopClaim, ClaimRows, OldestQueued, Queued
<1>7. ASSUME HandleSignal PROVE PostsAlone
  BY <1>7 DEF PostsAlone, PostInv, HoldInv, CurInv, ContextTypes, OutsideTypes, Busy,
       HandleSignal
<1>8. ASSUME Restart PROVE PostsAlone
  BY <1>8 DEF PostsAlone, PostInv, HoldInv, CurInv, ContextTypes, OutsideTypes, Busy,
       Restart
<1>9. ASSUME NEW c \in Contexts, StartJob(c) PROVE PostsAlone
  BY <1>9 DEF PostsAlone, PostInv, HoldInv, CurInv, ContextTypes, OutsideTypes, Busy,
       StartJob, Goto
<1>10. ASSUME NEW c \in Contexts, ChildReturns(c) PROVE PostsAlone
  BY <1>10 DEF PostsAlone, PostInv, HoldInv, CurInv, ContextTypes, OutsideTypes, Busy,
       ChildReturns, Goto
<1>11. ASSUME NEW c \in Contexts, AgentReturns(c) PROVE PostsAlone
  BY <1>11 DEF PostsAlone, PostInv, HoldInv, CurInv, ContextTypes, OutsideTypes, Busy,
       AgentReturns, Goto
<1>12. ASSUME NEW c \in Contexts, AgentRaises(c) PROVE PostsAlone
  BY <1>12 DEF PostsAlone, PostInv, HoldInv, CurInv, ContextTypes, OutsideTypes, Busy,
       AgentRaises, Goto
<1>13. ASSUME NEW c \in Contexts, EscrowCall(c) PROVE PostsAlone
  BY <1>13 DEF PostsAlone, PostInv, HoldInv, CurInv, ContextTypes, OutsideTypes, Busy,
       EscrowCall, Goto
<1>14. ASSUME NEW c \in Contexts, EscrowUnmoved(c) PROVE PostsAlone
  BY <1>14 DEF PostsAlone, PostInv, HoldInv, CurInv, ContextTypes, OutsideTypes, Busy,
       EscrowUnmoved, Goto
<1>15. ASSUME NEW c \in Contexts, StopRaises(c) PROVE PostsAlone
  BY <1>15 DEF PostsAlone, PostInv, HoldInv, CurInv, ContextTypes, OutsideTypes, Busy,
       StopRaises, JobRaises, ForgetLocals, Goto
<1>16. ASSUME NEW c \in Contexts, StopReturns(c) PROVE PostsAlone
  BY <1>16 DEF PostsAlone, PostInv, HoldInv, CurInv, ContextTypes, OutsideTypes, Busy,
       StopReturns, JobDone, ForgetLocals, Goto
<1>17. ASSUME NEW c \in Contexts, StopThenCallback(c) PROVE PostsAlone
  BY <1>17 DEF PostsAlone, PostInv, HoldInv, CurInv, ContextTypes, OutsideTypes, Busy,
       StopThenCallback, WantsCallback, Goto
<1>18. ASSUME NEW c \in Contexts, CallbackLost(c) PROVE PostsAlone
  <2>1. CASE tries[c] + 1 < MaxAttempts /\ CallbackWaits(c)
    BY <1>18, <2>1 DEF PostsAlone, PostInv, HoldInv, CurInv, ContextTypes, OutsideTypes, Busy,
       CallbackLost, CallbackWaits
  <2>2. CASE JobDone(c)
    BY <1>18, <2>2 DEF PostsAlone, PostInv, HoldInv, CurInv, ContextTypes, OutsideTypes, Busy,
       CallbackLost, JobDone, ForgetLocals, Goto
  <2> QED BY <1>18, <2>1, <2>2 DEF CallbackLost, CallbackUnanswered
<1>19. ASSUME NEW c \in Contexts, NEW k \in Children, DelegateChild(c, k) PROVE PostsAlone
  BY <1>19 DEF PostsAlone, PostInv, HoldInv, CurInv, ContextTypes, OutsideTypes, Busy,
       DelegateChild
<1>20. ASSUME NEW c \in Contexts, NEW k \in Children, DelegateUnrecorded(c, k) PROVE PostsAlone
  BY <1>20 DEF PostsAlone, PostInv, HoldInv, CurInv, ContextTypes, OutsideTypes, Busy,
       DelegateUnrecorded, Spend
<1>21. ASSUME NEW c \in Contexts, Heartbeat(c) PROVE PostsAlone
  BY <1>21 DEF PostsAlone, PostInv, HoldInv, CurInv, ContextTypes, OutsideTypes, Busy,
       Heartbeat, Awaiting
<1>22. ASSUME NEW c \in Contexts, ChildHeartbeat(c) PROVE PostsAlone
  BY <1>22 DEF PostsAlone, PostInv, HoldInv, CurInv, ContextTypes, OutsideTypes, Busy,
       ChildHeartbeat
<1>23. ASSUME NEW c \in Contexts, HeartbeatRaises(c) PROVE PostsAlone
  BY <1>23 DEF PostsAlone, PostInv, HoldInv, CurInv, ContextTypes, OutsideTypes, Busy,
       HeartbeatRaises, Spend
<1>24. ASSUME NEW a \in Actors, RefuseStatus(a) PROVE PostsAlone
  <2>1. CASE ReturnToRoute(a)
    BY <1>24, <2>1 DEF PostsAlone, PostInv, HoldInv, CurInv, ContextTypes, OutsideTypes,
         Busy, RefuseStatus, ReturnToRoute, Goto
  <2>2. CASE ReturnToParent(a)
    BY <1>24, <2>2 DEF PostsAlone, PostInv, HoldInv, CurInv, ContextTypes, OutsideTypes,
         Busy, RefuseStatus, ReturnToParent, Goto
  <2>3. CASE ReturnToJob(a)
    BY <1>24, <2>3 DEF PostsAlone, PostInv, HoldInv, CurInv, ContextTypes, OutsideTypes,
         Busy, RefuseStatus, ReturnToJob, Goto
  <2> QED BY <1>24, <2>1, <2>2, <2>3 DEF RefuseStatus, Return
<1>25. ASSUME NEW a \in Actors, SelectStatus(a) PROVE PostsAlone
  BY <1>25 DEF PostsAlone, PostInv, HoldInv, CurInv, ContextTypes, OutsideTypes, Busy,
       SelectStatus, Target, Goto
<1>26. ASSUME NEW a \in Actors, WriteStatus(a) PROVE PostsAlone
  <2>1. CASE ReturnToRoute(a)
    BY <1>26, <2>1 DEF PostsAlone, PostInv, HoldInv, CurInv, ContextTypes, OutsideTypes,
         Busy, WriteStatus, Target, ReturnToRoute, Goto
  <2>2. CASE ReturnToParent(a)
    BY <1>26, <2>2 DEF PostsAlone, PostInv, HoldInv, CurInv, ContextTypes, OutsideTypes,
         Busy, WriteStatus, Target, ReturnToParent, Goto
  <2>3. CASE ReturnToJob(a)
    BY <1>26, <2>3 DEF PostsAlone, PostInv, HoldInv, CurInv, ContextTypes, OutsideTypes,
         Busy, WriteStatus, Target, ReturnToJob, Goto
  <2> QED BY <1>26, <2>1, <2>2, <2>3 DEF WriteStatus, Return
<1>27. ASSUME NEW a \in Actors, UpdateRaises(a) PROVE PostsAlone
  <2>1. CASE ReturnToRoute(a)
    BY <1>27, <2>1 DEF PostsAlone, PostInv, HoldInv, CurInv, ContextTypes, OutsideTypes,
         Busy, UpdateRaises, Spend, ReturnToRoute, Goto
  <2>2. CASE ReturnToParent(a)
    BY <1>27, <2>2 DEF PostsAlone, PostInv, HoldInv, CurInv, ContextTypes, OutsideTypes,
         Busy, UpdateRaises, Spend, ReturnToParent, Goto
  <2>3. CASE TryRaises(a)
    BY <1>27, <2>3 DEF PostsAlone, PostInv, HoldInv, CurInv, ContextTypes, OutsideTypes,
         Busy, UpdateRaises, Spend, TryRaises, Goto
  <2>4. CASE ExceptRaises(a)
    BY <1>27, <2>4 DEF PostsAlone, PostInv, HoldInv, CurInv, ContextTypes, OutsideTypes,
         Busy, UpdateRaises, Spend, ExceptRaises, Goto
  <2> QED BY <1>27, <2>1, <2>2, <2>3, <2>4 DEF UpdateRaises
<1>u. ASSUME NEW a \in Actors, UpdateUnheard(a) PROVE PostsAlone
  <2>1. CASE ReturnToRoute(a)
    BY <1>u, <2>1 DEF PostsAlone, PostInv, HoldInv, CurInv, ContextTypes, OutsideTypes,
         Busy, UpdateUnheard, Target, Spend, ReturnToRoute, Goto
  <2>2. CASE ReturnToParent(a)
    BY <1>u, <2>2 DEF PostsAlone, PostInv, HoldInv, CurInv, ContextTypes, OutsideTypes,
         Busy, UpdateUnheard, Target, Spend, ReturnToParent, Goto
  <2>3. CASE TryRaises(a)
    BY <1>u, <2>3 DEF PostsAlone, PostInv, HoldInv, CurInv, ContextTypes, OutsideTypes,
         Busy, UpdateUnheard, Target, Spend, TryRaises, Goto
  <2>4. CASE ExceptRaises(a)
    BY <1>u, <2>4 DEF PostsAlone, PostInv, HoldInv, CurInv, ContextTypes, OutsideTypes,
         Busy, UpdateUnheard, Target, Spend, ExceptRaises, Goto
  <2> QED BY <1>u, <2>1, <2>2, <2>3, <2>4 DEF UpdateUnheard
<1>28. ASSUME NEW h \in Humans, NEW j \in Rows, NEW m \in HumanMoves, HumanRequest(h, j, m) PROVE PostsAlone
  BY <1>28 DEF PostsAlone, PostInv, HoldInv, CurInv, ContextTypes, OutsideTypes, Busy,
       HumanRequest, Spend, Goto
<1>29. ASSUME NEW h \in Humans, AdminRelease(h) PROVE PostsAlone
  BY <1>29 DEF PostsAlone, PostInv, HoldInv, CurInv, ContextTypes, OutsideTypes, Busy,
       AdminRelease, Goto
<1>30. ASSUME NEW h \in Humans, AdminReleaseSkipped(h) PROVE PostsAlone
  BY <1>30 DEF PostsAlone, PostInv, HoldInv, CurInv, ContextTypes, OutsideTypes, Busy,
       AdminReleaseSkipped, Goto
<1>31. ASSUME NEW h \in Humans, HumanNote(h) PROVE PostsAlone
  BY <1>31 DEF PostsAlone, PostInv, HoldInv, CurInv, ContextTypes, OutsideTypes, Busy,
       HumanNote, Answer, Note, Goto
<1>32. ASSUME NEW h \in Humans, HumanNoteFails(h) PROVE PostsAlone
  BY <1>32 DEF PostsAlone, PostInv, HoldInv, CurInv, ContextTypes, OutsideTypes, Busy,
       HumanNoteFails, Answer, Spend, Goto
<1>33. ASSUME NEW j \in Rows, GoesStale(j) PROVE PostsAlone
  BY <1>33 DEF PostsAlone, PostInv, HoldInv, CurInv, ContextTypes, OutsideTypes, Busy,
       GoesStale
<1>34. ASSUME NEW P \in Processes, Crash(P) PROVE PostsAlone
  BY <1>34 DEF PostsAlone, PostInv, HoldInv, CurInv, ContextTypes, OutsideTypes, Busy,
       Crash, Spend
<1>35. ASSUME UNCHANGED vars PROVE PostsAlone
  BY <1>35 DEF PostsAlone, PostInv, HoldInv, CurInv, ContextTypes, OutsideTypes, Busy, vars
<1> HIDE DEF Typed, TypeOK, Contexts, Actors, Ticks, Rows, rowVars, ctxVars, outVars
<1> QED
  BY <1>1, <1>2, <1>3, <1>4, <1>5, <1>6, <1>7, <1>8, <1>9, <1>10, <1>11, <1>12, <1>13,
       <1>14, <1>15, <1>16, <1>17, <1>18, <1>19, <1>20, <1>21, <1>22, <1>23, <1>24, <1>25,
       <1>26, <1>27, <1>u, <1>28, <1>29, <1>30, <1>31, <1>32, <1>33, <1>34, <1>35, ClosedStep,
       PostsAlonePost, CallbackArrivesPost
     DEF Next, CreateStep, JobStep, DelegationStep, UpdateStep, HumanStep

LEMMA PostInit == Init => PostInv
  BY IdsAssumption, BoundsAssumption
     DEF Init, PostInv, CallbackAfterRow, Contexts, Actors, Rows

\* CallbackAfterRow for every instance: the marketplace is told of a job only
\* after its row is closed for good, at most MaxAttempts times, and always the
\* same status.
THEOREM JobsCallbackAfterRow == Spec => []CallbackAfterRow
<1>1. Spec => [](Typed /\ HoldInv /\ RowInv /\ PostInv)
  BY TypedInit, TypedStep, HoldInit, HoldStep, RowInit, RowStep, PostInit, PostStep, PTL
     DEF Spec
<1>2. PostInv => CallbackAfterRow
  BY DEF PostInv
<1> QED
  BY <1>1, <1>2, PTL
=============================================================================
