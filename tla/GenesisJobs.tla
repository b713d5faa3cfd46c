---------------------------- MODULE GenesisJobs ----------------------------
(***************************************************************************)
(* The asynchronous job pipeline: the genesis_jobs and genesis_job_events  *)
(* tables (job_store.py), the coroutines that claim and process jobs       *)
(* (worker.py), delegated child rows (tools/genesis_call_tool.py) and the  *)
(* human routes for disputes and refunds (main.py).                        *)
(*                                                                         *)
(* Every job_store function opens its own READ COMMITTED transaction, so a *)
(* handler is split at each transaction and at each await.  All of them    *)
(* are one atomic step, except update_job_status: its SELECT takes no row  *)
(* lock, so another process can commit between it and the UPDATE.          *)
(***************************************************************************)
EXTENDS Naturals, Sequences, FiniteSets

CONSTANTS
    Jobs,              \* ids create_job hands out
    Children,          \* ids genesis_call hands out (child-...)
    Pollers,           \* coroutines that repeat run_tick
    Triggers,          \* requests to execute_job_by_id
    Slots,             \* task slots of one worker.main() process
    Humans,            \* requests to the dispute, refund and resolve routes
    NoJob,             \* no row
    TickLimit,         \* the limit run_tick passes to claim_queued_jobs
    MaxAttempts,       \* CALLBACK_MAX_ATTEMPTS
    EscrowPermitted,   \* escrow_guard.escrow_permitted()
    TimelyHeartbeats,  \* a live heartbeat loop always beats the stale window
    Deals,             \* the escrow and webhook terms a job may carry
    MaxCrashes, MaxDbErrors, MaxHumanMoves   \* bounds on the environment

Rows == Jobs \cup Children
Ticks == Pollers \cup Triggers
Contexts == Ticks \cup Slots
Actors == Contexts \cup Humans

ASSUME IdsAssumption ==
    /\ IsFiniteSet(Jobs) /\ Jobs \cap Children = {} /\ NoJob \notin Rows
    /\ Pollers \cap Triggers = {} /\ Ticks \cap Slots = {} /\ Contexts \cap Humans = {}

ASSUME BoundsAssumption ==
    /\ TickLimit \in Nat /\ MaxAttempts \in Nat \ {0}
    /\ EscrowPermitted \in BOOLEAN /\ TimelyHeartbeats \in BOOLEAN
    /\ MaxCrashes \in Nat /\ MaxDbErrors \in Nat /\ MaxHumanMoves \in Nat
    /\ Deals \subseteq [escrow : {"none", "gateway", "marketplace"}, hook : BOOLEAN]

TerminalJobStatuses == {"DELIVERED", "FAILED", "SETTLED", "REFUNDED", "EXPIRED"}
Outcomes == {"DELIVERED", "DELIVERED_WITH_ARTIFACT_WARNING", "FAILED"}
HumanMoves == {"DISPUTED", "REFUNDED", "SETTLED"}
Statuses == TerminalJobStatuses \cup Outcomes \cup HumanMoves \cup {"QUEUED", "RUNNING"}

VARIABLES
    status,    \* genesis_jobs.status, "NONE" before the row exists
    stale,     \* the reaper's COALESCE(lastHeartbeatAt, ...) test on the row
    born,      \* createdAt, as a position in the order of creation
    deal,      \* escrowId (and who opened that escrow) and webhookUrl
    events     \* the status_change rows of genesis_job_events, per job

VARIABLES
    pc,        \* where each coroutine or request is
    rest,      \* jobs a coroutine has claimed and not started
    cur,       \* the job it is processing, or a human's job
    kid,       \* the child it runs inline for that job
    new,       \* the new_status it passes to update_job_status
    seen,      \* from_status, as its SELECT read it
    final,     \* process_job's final_status
    handler,   \* process_job is in its except clause
    beat,      \* its hb_loop task: "off", "on" or "dead" (raised)
    tries,     \* callback attempts made
    shutdown   \* worker._shutdown

VARIABLES
    money,     \* escrow movements swarmsync-api applied for the worker's calls
    refunds,   \* releases it applied for admin_refund
    posts,     \* callback payload statuses the marketplace received
    notes,     \* dispute_filed, admin_refund and admin_resolve event rows
    runs,      \* history: how often process_job was entered for a job
    budget     \* what is left of the environment's bounds

rowVars  == <<status, stale, born, deal, events>>
ctxVars  == <<pc, rest, cur, kid, new, seen, final, handler, beat, tries, shutdown>>
outVars  == <<money, refunds, posts, notes, runs, budget>>
vars     == <<rowVars, ctxVars, outVars>>

Init ==
    /\ status  = [j \in Rows |-> "NONE"]
    /\ stale   = [j \in Rows |-> FALSE]
    /\ born    = [j \in Jobs |-> 0]
    /\ deal    = [j \in Jobs |-> [escrow |-> "none", hook |-> FALSE]]
    /\ events  = [j \in Rows |-> <<>>]
    /\ pc      = [a \in Actors |-> "idle"]
    /\ rest    = [c \in Contexts |-> {}]
    /\ cur     = [a \in Actors |-> NoJob]
    /\ kid     = [c \in Contexts |-> NoJob]
    /\ new     = [a \in Actors |-> "NONE"]
    /\ seen    = [a \in Actors |-> "NONE"]
    /\ final   = [c \in Contexts |-> "NONE"]
    /\ handler = [c \in Contexts |-> FALSE]
    /\ beat    = [c \in Contexts |-> "off"]
    /\ tries   = [c \in Contexts |-> 0]
    /\ shutdown = FALSE
    /\ money   = [j \in Jobs |-> <<>>]
    /\ refunds = [j \in Jobs |-> 0]
    /\ posts   = [j \in Jobs |-> <<>>]
    /\ notes   = [j \in Rows |-> {}]
    /\ runs    = [j \in Jobs |-> 0]
    /\ budget  = [kind \in {"crash", "db", "human"} |->
                    CASE kind = "crash" -> MaxCrashes
                      [] kind = "db"    -> MaxDbErrors
                      [] kind = "human" -> MaxHumanMoves]

Spend(kind) == budget[kind] > 0 /\ budget' = [budget EXCEPT ![kind] = @ - 1]

Goto(a, label) == pc' = [pc EXCEPT ![a] = label]

-----------------------------------------------------------------------------
(* job_store: rows                                                         *)

\* create_job, as submit_job and the async branch of run_agent call it: the
\* row and its first event are committed together.
CreateJob(j, d) ==
    /\ status[j] = "NONE"
    /\ status' = [status EXCEPT ![j] = "QUEUED"]
    /\ born'   = [born EXCEPT ![j] = Cardinality({k \in Jobs : status[k] # "NONE"})]
    /\ deal'   = [deal EXCEPT ![j] = d]
    /\ events' = [events EXCEPT ![j] = Append(@, <<"NONE", "QUEUED">>)]
    /\ UNCHANGED <<stale, ctxVars, outVars>>

\* mutant: the reaper leaves child rows alone.
StaleRunningJobsOnly == {j \in Jobs : status[j] = "RUNNING" /\ stale[j]}

\* What expire_stale_running_jobs commits: every RUNNING row whose heartbeat
\* is older than the window.
StaleRunning == {j \in Rows : status[j] = "RUNNING" /\ stale[j]}

\* mutant: the reaper writes a status the schema does not have.
ExpireAsStale ==
    /\ status' = [j \in Rows |-> IF j \in StaleRunning THEN "STALE" ELSE status[j]]
    /\ UNCHANGED events

ExpireStaleRunningJobs ==
    /\ status' = [j \in Rows |-> IF j \in StaleRunning THEN "EXPIRED" ELSE status[j]]
    /\ events' = [j \in Rows |-> IF j \in StaleRunning
                                 THEN Append(events[j], <<"RUNNING", "EXPIRED">>)
                                 ELSE events[j]]

\* What a claim commits for the rows S it moved from QUEUED to RUNNING.
ClaimRows(S) ==
    /\ status' = [j \in Rows |-> IF j \in S THEN "RUNNING" ELSE status[j]]
    /\ stale'  = [j \in Rows |-> stale[j] /\ j \notin S]
    /\ events' = [j \in Rows |-> IF j \in S
                                 THEN Append(events[j], <<"QUEUED", "RUNNING">>)
                                 ELSE events[j]]

\* mutant: expired jobs are taken up again.
QueuedOrExpired == {j \in Jobs : status[j] \in {"QUEUED", "EXPIRED"}}

Queued == {j \in Jobs : status[j] = "QUEUED"}

\* mutant: claim_job_by_id without its status guard.
ClaimableAnyStatus(j) == {j}

\* The rows claim_job_by_id(j) updates.
ClaimableById(j) == {j} \cap Queued

\* mutant: the limit is applied to the oldest rows of any status, and those of them
\* that are not QUEUED are dropped afterwards.
OldestThenQueued(limit) ==
    {{j \in Queued : Cardinality({k \in Jobs : status[k] # "NONE" /\ born[k] < born[j]}) < limit}}

\* The sets claim_queued_jobs(limit) may select: the limit oldest QUEUED rows.
OldestQueued(limit) ==
    {S \in SUBSET Queued :
        /\ Cardinality(S) = IF Cardinality(Queued) < limit THEN Cardinality(Queued) ELSE limit
        /\ \A j \in S, k \in Queued \ S : born[j] <= born[k]}

-----------------------------------------------------------------------------
(* worker: claiming                                                        *)

\* run_tick and execute_job_by_id begin by reaping, in a transaction of its own.
TickReap(c) ==
    /\ pc[c] = "idle"
    /\ ExpireStaleRunningJobs
    /\ Goto(c, "claim")
    /\ UNCHANGED <<stale, born, deal, rest, cur, kid, new, seen, final, handler,
                   beat, tries, shutdown, outVars>>

\* run_tick: claim up to TickLimit rows, to be processed one after the other.
TickClaim(c) ==
    /\ pc[c] = "claim"
    /\ \E S \in OldestQueued(TickLimit) :
        /\ ClaimRows(S)
        /\ rest' = [rest EXCEPT ![c] = S]
        /\ Goto(c, IF S = {} THEN "idle" ELSE "next")
    /\ UNCHANGED <<born, deal, cur, kid, new, seen, final, handler, beat, tries,
                   shutdown, outVars>>

\* execute_job_by_id: claim one named row, if it is still QUEUED.
ClaimJobById(c, j) ==
    /\ pc[c] = "claim"
    /\ LET S == ClaimableById(j)
       IN  /\ ClaimRows(S)
           /\ rest' = [rest EXCEPT ![c] = S]
           /\ Goto(c, IF S = {} THEN "idle" ELSE "next")
    /\ UNCHANGED <<born, deal, cur, kid, new, seen, final, handler, beat, tries,
                   shutdown, outVars>>

\* worker.main(): the periodic stale check of the polling loop.
LoopReap ==
    /\ Slots # {} /\ ~shutdown
    /\ ExpireStaleRunningJobs
    /\ UNCHANGED <<stale, born, deal, ctxVars, outVars>>

\* worker.main(): claim as many rows as there are free slots and start a task
\* for each.
LoopClaim ==
    LET free == {c \in Slots : pc[c] = "idle"}
    IN  /\ ~shutdown /\ free # {}
        /\ \E S \in OldestQueued(Cardinality(free)) :
            /\ S # {}
            /\ ClaimRows(S)
            /\ \E task \in [S -> free] :
                /\ \A j, k \in S : j # k => task[j] # task[k]
                /\ rest' = [c \in Contexts |-> IF \E j \in S : task[j] = c
                                               THEN {j \in S : task[j] = c} ELSE rest[c]]
                /\ pc' = [a \in Actors |-> IF \E j \in S : task[j] = a THEN "next" ELSE pc[a]]
        /\ UNCHANGED <<born, deal, cur, kid, new, seen, final, handler, beat, tries,
                       shutdown, outVars>>

\* SIGINT or SIGTERM: no more claims, in-flight tasks are awaited.
HandleSignal ==
    /\ Slots # {} /\ ~shutdown
    /\ shutdown' = TRUE
    /\ UNCHANGED <<rowVars, pc, rest, cur, kid, new, seen, final, handler, beat,
                   tries, outVars>>

\* The supervisor starts the worker again once main() has returned.
Restart ==
    /\ shutdown /\ \A c \in Slots : pc[c] = "idle"
    /\ shutdown' = FALSE
    /\ UNCHANGED <<rowVars, pc, rest, cur, kid, new, seen, final, handler, beat,
                   tries, outVars>>

-----------------------------------------------------------------------------
(* worker.process_job                                                      *)

\* Entry: the heartbeat task is created and the agent started.
StartJob(c) ==
    /\ pc[c] = "next"
    /\ \E j \in rest[c] :
        /\ cur'  = [cur EXCEPT ![c] = j]
        /\ rest' = [rest EXCEPT ![c] = @ \ {j}]
        /\ runs' = [runs EXCEPT ![j] = @ + 1]
    /\ beat' = [beat EXCEPT ![c] = "on"]
    /\ Goto(c, "running")
    /\ UNCHANGED <<rowVars, kid, new, seen, final, handler, tries, shutdown, money, refunds, posts, notes, budget>>

\* hb_loop runs whenever process_job awaits.
Awaiting(c) == pc[c] \in {"running", "escrow"}

Heartbeat(c) ==
    /\ Awaiting(c) /\ beat[c] = "on"
    /\ stale[cur[c]]
    /\ stale' = [stale EXCEPT ![cur[c]] = FALSE]
    /\ UNCHANGED <<status, born, deal, events, ctxVars, outVars>>

\* hb_loop has no except clause: an error of the store ends the task.
HeartbeatRaises(c) ==
    /\ Awaiting(c) /\ beat[c] = "on"
    /\ Spend("db")
    /\ beat' = [beat EXCEPT ![c] = "dead"]
    /\ UNCHANGED <<rowVars, pc, rest, cur, kid, new, seen, final, handler, tries,
                   shutdown, money, refunds, posts, notes, runs>>

\* genesis_call: a child row is inserted RUNNING and the child runs inline.
DelegateChild(c, k) ==
    /\ pc[c] = "running" /\ kid[c] = NoJob
    /\ status[k] = "NONE" /\ \A d \in Contexts : kid[d] # k
    /\ kid'    = [kid EXCEPT ![c] = k]
    /\ status' = [status EXCEPT ![k] = "RUNNING"]
    /\ stale'  = [stale EXCEPT ![k] = FALSE]
    /\ events' = [events EXCEPT ![k] = Append(@, <<"NONE", "RUNNING">>)]
    /\ UNCHANGED <<born, deal, pc, rest, cur, new, seen, final, handler, beat,
                   tries, shutdown, outVars>>

\* _persist_child_start is best effort: when the insert fails the child runs
\* without a row.
DelegateUnrecorded(c, k) ==
    /\ pc[c] = "running" /\ kid[c] = NoJob
    /\ status[k] = "NONE" /\ \A d \in Contexts : kid[d] # k
    /\ Spend("db")
    /\ kid' = [kid EXCEPT ![c] = k]
    /\ UNCHANGED <<rowVars, pc, rest, cur, new, seen, final, handler, beat,
                   tries, shutdown, money, refunds, posts, notes, runs>>

\* _child_heartbeat swallows errors, so it beats for as long as the child runs.
ChildHeartbeat(c) ==
    /\ pc[c] = "running" /\ kid[c] # NoJob
    /\ stale[kid[c]]
    /\ stale' = [stale EXCEPT ![kid[c]] = FALSE]
    /\ UNCHANGED <<status, born, deal, events, ctxVars, outVars>>

\* The child returns (or raises): _persist_child_finish is about to run.
ChildReturns(c) ==
    /\ pc[c] = "running" /\ kid[c] # NoJob
    /\ \E r \in {"DELIVERED", "FAILED"} : new' = [new EXCEPT ![c] = r]
    /\ Goto(c, "select")
    /\ UNCHANGED <<rowVars, rest, cur, kid, seen, final, handler, beat, tries,
                   shutdown, outVars>>

\* execute_agent returns: ok (with its artifacts uploaded or not) or an error.
AgentReturns(c) ==
    /\ pc[c] = "running" /\ kid[c] = NoJob
    /\ \E r \in Outcomes : new' = [new EXCEPT ![c] = r]
    /\ Goto(c, "select")
    /\ UNCHANGED <<rowVars, rest, cur, kid, seen, final, handler, beat, tries,
                   shutdown, outVars>>

\* execute_agent raises: the except clause marks the job FAILED.
AgentRaises(c) ==
    /\ pc[c] = "running" /\ kid[c] = NoJob
    /\ new' = [new EXCEPT ![c] = "FAILED"]
    /\ handler' = [handler EXCEPT ![c] = TRUE]
    /\ Goto(c, "select")
    /\ UNCHANGED <<rowVars, rest, cur, kid, seen, final, beat, tries, shutdown, outVars>>

-----------------------------------------------------------------------------
(* job_store.update_job_status, called by coroutines and by human routes   *)

Target(a) == IF a \in Contexts /\ kid[a] # NoJob THEN kid[a] ELSE cur[a]

\* Only the human routes pass allow_terminal_override.
Override(a) == a \in Humans

\* mutant: the terminal test is inverted.
RefusedInverted(a) ==
    /\ status[Target(a)] \notin TerminalJobStatuses
    /\ new[a] # status[Target(a)]
    /\ ~Override(a)

Refused(a) ==
    /\ status[Target(a)] \in TerminalJobStatuses
    /\ new[a] # status[Target(a)]
    /\ ~Override(a)

\* What the caller does once update_job_status is over, with its locals gone.
\* A human route goes on to insert its own event row.
ReturnToRoute(a) ==
    /\ a \in Humans
    /\ Goto(a, "note")
    /\ seen' = [seen EXCEPT ![a] = "NONE"]
    /\ UNCHANGED <<new, final, kid, handler>>

\* _persist_child_finish lets the parent's run go on.
ReturnToParent(a) ==
    /\ a \in Contexts /\ kid[a] # NoJob
    /\ Goto(a, "running")
    /\ seen' = [seen EXCEPT ![a] = "NONE"]
    /\ new'  = [new EXCEPT ![a] = "NONE"]
    /\ kid'  = [kid EXCEPT ![a] = NoJob]
    /\ UNCHANGED <<final, handler>>

\* process_job goes on to the escrow, whatever update_job_status returned.
ReturnToJob(a) ==
    /\ a \in Contexts /\ kid[a] = NoJob
    /\ Goto(a, "escrow")
    /\ seen'  = [seen EXCEPT ![a] = "NONE"]
    /\ new'   = [new EXCEPT ![a] = "NONE"]
    /\ final' = [final EXCEPT ![a] = new[a]]
    /\ UNCHANGED <<kid, handler>>

Return(a) == ReturnToRoute(a) \/ ReturnToParent(a) \/ ReturnToJob(a)

\* The SELECT finds no row, or one the transition is refused for.
RefuseStatus(a) ==
    /\ pc[a] = "select"
    /\ status[Target(a)] = "NONE" \/ Refused(a)
    /\ Return(a)
    /\ UNCHANGED <<rowVars, rest, cur, beat, tries, shutdown, outVars>>

\* The SELECT lets the transition through.
SelectStatus(a) ==
    /\ pc[a] = "select"
    /\ status[Target(a)] # "NONE" /\ ~Refused(a)
    /\ seen' = [seen EXCEPT ![a] = status[Target(a)]]
    /\ Goto(a, "write")
    /\ UNCHANGED <<rowVars, rest, cur, kid, new, final, handler, beat, tries,
                   shutdown, outVars>>

\* The UPDATE, which names only the row id, and the event row.
WriteStatus(a) ==
    /\ pc[a] = "write"
    /\ status' = [status EXCEPT ![Target(a)] = new[a]]
    /\ events' = [events EXCEPT ![Target(a)] = Append(@, <<seen[a], new[a]>>)]
    /\ Return(a)
    /\ UNCHANGED <<stale, born, deal, rest, cur, beat, tries, shutdown, outVars>>

\* process_job's try clause turns an error of the store into FAILED.
TryRaises(a) ==
    /\ a \in Contexts /\ kid[a] = NoJob /\ handler[a] = FALSE
    /\ Goto(a, "select")
    /\ seen'    = [seen EXCEPT ![a] = "NONE"]
    /\ new'     = [new EXCEPT ![a] = "FAILED"]
    /\ handler' = [handler EXCEPT ![a] = TRUE]
    /\ UNCHANGED <<final, kid>>

\* Its except clause lets the error escape, past the escrow.
ExceptRaises(a) ==
    /\ a \in Contexts /\ kid[a] = NoJob /\ handler[a] = TRUE
    /\ Goto(a, "stop")
    /\ seen' = [seen EXCEPT ![a] = "NONE"]
    /\ new'  = [new EXCEPT ![a] = "NONE"]
    /\ UNCHANGED <<final, kid, handler>>

\* The store fails and the transaction rolls back.  The human routes and a
\* child's caller swallow the error.
UpdateRaises(a) ==
    /\ pc[a] \in {"select", "write"}
    /\ Spend("db")
    /\ ReturnToRoute(a) \/ ReturnToParent(a) \/ TryRaises(a) \/ ExceptRaises(a)
    /\ UNCHANGED <<rowVars, rest, cur, beat, tries, shutdown,
                   money, refunds, posts, notes, runs>>

\* The commit takes effect and its answer is lost: both rows are written, and the
\* caller sees the same error.
UpdateUnheard(a) ==
    /\ pc[a] = "write"
    /\ Spend("db")
    /\ status' = [status EXCEPT ![Target(a)] = new[a]]
    /\ events' = [events EXCEPT ![Target(a)] = Append(@, <<seen[a], new[a]>>)]
    /\ ReturnToRoute(a) \/ ReturnToParent(a) \/ TryRaises(a) \/ ExceptRaises(a)
    /\ UNCHANGED <<stale, born, deal, rest, cur, beat, tries, shutdown,
                   money, refunds, posts, notes, runs>>

-----------------------------------------------------------------------------
(* worker.process_job: escrow, finally clause, callback                    *)

\* is_external_escrow is decided by the webhook alone.
OwnsEscrow(j) ==
    deal[j].escrow # "none" /\ ~deal[j].hook /\ EscrowPermitted

\* complete_escrow or release_escrow reaches swarmsync-api.
EscrowCall(c) ==
    /\ pc[c] = "escrow" /\ OwnsEscrow(cur[c])
    /\ money' = [money EXCEPT ![cur[c]] =
                    Append(@, IF final[c] = "FAILED" THEN "release" ELSE "complete")]
    /\ Goto(c, "stop")
    /\ UNCHANGED <<rowVars, rest, cur, kid, new, seen, final, handler, beat, tries,
                   shutdown, refunds, posts, notes, runs, budget>>

\* No call is due, or it fails: its answer is only logged.
EscrowUnmoved(c) ==
    /\ pc[c] = "escrow"
    /\ Goto(c, "stop")
    /\ UNCHANGED <<rowVars, rest, cur, kid, new, seen, final, handler, beat, tries,
                   shutdown, outVars>>

\* process_job ends and its locals with it.
ForgetLocals(c) ==
    /\ cur'     = [cur EXCEPT ![c] = NoJob]
    /\ final'   = [final EXCEPT ![c] = "NONE"]
    /\ handler' = [handler EXCEPT ![c] = FALSE]
    /\ tries'   = [tries EXCEPT ![c] = 0]

\* process_job returns: run_tick takes the next claimed job.
JobDone(c) ==
    /\ ForgetLocals(c)
    /\ Goto(c, IF rest[c] = {} THEN "idle" ELSE "next")
    /\ UNCHANGED rest

\* process_job raises: run_tick is abandoned with the jobs it still held.
JobRaises(c) ==
    /\ ForgetLocals(c)
    /\ Goto(c, "idle")
    /\ rest' = [rest EXCEPT ![c] = {}]

\* mutant: only a delivery is called back.
WantsCallbackOnDelivery(c) == deal[cur[c]].hook /\ final[c] = "DELIVERED"

WantsCallback(c) == deal[cur[c]].hook /\ final[c] # "NONE"

\* finally: the heartbeat is cancelled and awaited.  A heartbeat task that died
\* re-raises there, before the callback; so does an error of the except clause.
StopRaises(c) ==
    /\ pc[c] = "stop"
    /\ beat[c] = "dead" \/ final[c] = "NONE"
    /\ beat' = [beat EXCEPT ![c] = "off"]
    /\ JobRaises(c)
    /\ UNCHANGED <<rowVars, kid, new, seen, shutdown, outVars>>

StopReturns(c) ==
    /\ pc[c] = "stop"
    /\ beat[c] # "dead" /\ final[c] # "NONE" /\ ~WantsCallback(c)
    /\ beat' = [beat EXCEPT ![c] = "off"]
    /\ JobDone(c)
    /\ UNCHANGED <<rowVars, kid, new, seen, shutdown, outVars>>

StopThenCallback(c) ==
    /\ pc[c] = "stop"
    /\ beat[c] # "dead" /\ WantsCallback(c)
    /\ beat' = [beat EXCEPT ![c] = "off"]
    /\ Goto(c, "callback")
    /\ UNCHANGED <<rowVars, rest, cur, kid, new, seen, final, handler, tries, shutdown,
                   outVars>>

\* fire_callback: an attempt that is not answered with a 2xx is repeated, up to
\* MaxAttempts; then process_job returns all the same.
CallbackWaits(c) ==
    /\ tries' = [tries EXCEPT ![c] = @ + 1]
    /\ UNCHANGED <<pc, cur, rest, final, handler>>

CallbackUnanswered(c) ==
    \/ tries[c] + 1 < MaxAttempts /\ CallbackWaits(c)
    \/ tries[c] + 1 >= MaxAttempts /\ JobDone(c)

\* The marketplace receives the payload; its 2xx may be lost on the way back.
CallbackArrives(c) ==
    /\ pc[c] = "callback"
    /\ posts' = [posts EXCEPT ![cur[c]] = Append(@, final[c])]
    /\ JobDone(c) \/ CallbackUnanswered(c)
    /\ UNCHANGED <<rowVars, kid, new, seen, beat, shutdown, money, refunds, notes, runs,
                   budget>>

CallbackLost(c) ==
    /\ pc[c] = "callback"
    /\ CallbackUnanswered(c)
    /\ UNCHANGED <<rowVars, kid, new, seen, beat, shutdown, outVars>>

-----------------------------------------------------------------------------
(* main: dispute, admin refund, admin resolve                              *)

\* file_dispute, admin_refund, admin_resolve: the row must exist; a refund
\* releases the escrow first, whatever the row's status.
HumanRequest(h, j, move) ==
    /\ pc[h] = "idle" /\ status[j] # "NONE"
    /\ Spend("human")
    /\ cur' = [cur EXCEPT ![h] = j]
    /\ new' = [new EXCEPT ![h] = move]
    /\ Goto(h, IF move = "REFUNDED" THEN "release" ELSE "select")
    /\ UNCHANGED <<rowVars, rest, kid, seen, final, handler, beat, tries, shutdown,
                   money, refunds, posts, notes, runs>>

\* admin_refund: the release reaches swarmsync-api.
AdminRelease(h) ==
    /\ pc[h] = "release" /\ cur[h] \in Jobs
    /\ deal[cur[h]].escrow # "none" /\ EscrowPermitted
    /\ refunds' = [refunds EXCEPT ![cur[h]] = @ + 1]
    /\ Goto(h, "select")
    /\ UNCHANGED <<rowVars, rest, cur, kid, new, seen, final, handler, beat, tries,
                   shutdown, money, posts, notes, runs, budget>>

\* There is no escrow to release, or the call fails: the refund goes on.
AdminReleaseSkipped(h) ==
    /\ pc[h] = "release"
    /\ Goto(h, "select")
    /\ UNCHANGED <<rowVars, rest, cur, kid, new, seen, final, handler, beat, tries,
                   shutdown, outVars>>

Note(move) == CASE move = "DISPUTED" -> "dispute_filed"
                [] move = "REFUNDED" -> "admin_refund"
                [] move = "SETTLED"  -> "admin_resolve"

\* The route answers and its request is over.
Answer(h) ==
    /\ cur' = [cur EXCEPT ![h] = NoJob]
    /\ new' = [new EXCEPT ![h] = "NONE"]
    /\ Goto(h, "idle")
    /\ UNCHANGED <<rowVars, rest, kid, seen, final, handler, beat, tries, shutdown,
                   money, refunds, posts, runs>>

\* The route's own event row, in a transaction of its own.
HumanNote(h) ==
    /\ pc[h] = "note"
    /\ notes' = [notes EXCEPT ![cur[h]] = @ \cup {Note(new[h])}]
    /\ Answer(h)
    /\ UNCHANGED budget

\* An error there is logged and the route answers as if it had succeeded.
HumanNoteFails(h) ==
    /\ pc[h] = "note"
    /\ Spend("db")
    /\ Answer(h)
    /\ UNCHANGED notes

-----------------------------------------------------------------------------
(* Environment                                                             *)

Beaten(j) == \E c \in Contexts :
    \/ beat[c] = "on" /\ cur[c] = j
    \/ pc[c] = "running" /\ kid[c] = j

\* Five minutes pass without a heartbeat.  The event loop may be blocked by a
\* synchronous call, so without TimelyHeartbeats this happens to live jobs too.
GoesStale(j) ==
    /\ status[j] = "RUNNING" /\ ~stale[j]
    /\ TimelyHeartbeats => ~Beaten(j)
    /\ stale' = [stale EXCEPT ![j] = TRUE]
    /\ UNCHANGED <<status, born, deal, events, ctxVars, outVars>>

\* A process dies: one gateway process with its tick, or the worker process
\* with all its slots.  Open transactions roll back; rows stay as committed.
Crash(P) ==
    /\ \E c \in P : pc[c] # "idle"
    /\ Spend("crash")
    /\ pc'      = [a \in Actors |-> IF a \in P THEN "idle" ELSE pc[a]]
    /\ cur'     = [a \in Actors |-> IF a \in P THEN NoJob ELSE cur[a]]
    /\ rest'    = [c \in Contexts |-> IF c \in P THEN {} ELSE rest[c]]
    /\ kid'     = [c \in Contexts |-> IF c \in P THEN NoJob ELSE kid[c]]
    /\ beat'    = [c \in Contexts |-> IF c \in P THEN "off" ELSE beat[c]]
    /\ new'     = [a \in Actors |-> IF a \in P THEN "NONE" ELSE new[a]]
    /\ seen'    = [a \in Actors |-> IF a \in P THEN "NONE" ELSE seen[a]]
    /\ final'   = [c \in Contexts |-> IF c \in P THEN "NONE" ELSE final[c]]
    /\ handler' = [c \in Contexts |-> IF c \in P THEN FALSE ELSE handler[c]]
    /\ tries'   = [c \in Contexts |-> IF c \in P THEN 0 ELSE tries[c]]
    /\ UNCHANGED <<rowVars, shutdown,
                   money, refunds, posts, notes, runs>>

Processes == {{c} : c \in Ticks \cup Humans} \cup {Slots}

-----------------------------------------------------------------------------
CreateStep == \E j \in Jobs, d \in Deals : CreateJob(j, d)

JobStep(c) ==
    \/ StartJob(c) \/ ChildReturns(c) \/ AgentReturns(c) \/ AgentRaises(c)
    \/ EscrowCall(c) \/ EscrowUnmoved(c) \/ StopRaises(c) \/ StopReturns(c)
    \/ StopThenCallback(c) \/ CallbackArrives(c) \/ CallbackLost(c)

DelegationStep(c) ==
    \E k \in Children : DelegateChild(c, k) \/ DelegateUnrecorded(c, k)

UpdateStep(a) == RefuseStatus(a) \/ SelectStatus(a) \/ WriteStatus(a)

HumanStep(h) ==
    \/ \E j \in Rows, m \in HumanMoves : HumanRequest(h, j, m)
    \/ AdminRelease(h) \/ AdminReleaseSkipped(h) \/ HumanNote(h) \/ HumanNoteFails(h)

Next ==
    \/ CreateStep
    \/ \E c \in Pollers : TickClaim(c)
    \/ \E c \in Triggers, j \in Jobs : ClaimJobById(c, j)
    \/ \E c \in Ticks : TickReap(c)
    \/ LoopReap \/ LoopClaim \/ HandleSignal \/ Restart
    \/ \E c \in Contexts : JobStep(c)
    \/ \E c \in Contexts : DelegationStep(c)
    \/ \E c \in Contexts : Heartbeat(c) \/ ChildHeartbeat(c) \/ HeartbeatRaises(c)
    \/ \E a \in Actors : UpdateStep(a) \/ UpdateRaises(a) \/ UpdateUnheard(a)
    \/ \E h \in Humans : HumanStep(h)
    \/ \E j \in Rows : GoesStale(j)
    \/ \E P \in Processes : Crash(P)

Spec == Init /\ [][Next]_vars

\* The steps a claimed job goes through on its own: agent runs are bounded
\* (MAX_TURNS), update_job_status and the HTTP calls have timeouts.
Progress(c) == JobStep(c) \/ UpdateStep(c)

\* _genesis_auto_worker_loop and the cron that posts /internal/genesis-worker/tick
\* repeat run_tick for ever; a row nobody beats grows older than the window.
Fairness ==
    /\ \A c \in Contexts : WF_vars(Progress(c))
    /\ \A c \in Pollers : WF_vars(TickReap(c)) /\ WF_vars(TickClaim(c))
    /\ \A j \in Rows : WF_vars(GoesStale(j))

FairSpec == Spec /\ Fairness

-----------------------------------------------------------------------------
(* Properties                                                              *)

Labels == {"idle", "claim", "next", "running", "select", "write", "escrow",
           "stop", "callback", "release", "note"}

Events == (Statuses \cup {"NONE"}) \X Statuses
DealTerms == [escrow : {"none", "gateway", "marketplace"}, hook : BOOLEAN]

RowTypes ==
    /\ status \in [Rows -> Statuses \cup {"NONE"}]
    /\ stale \in [Rows -> BOOLEAN]
    /\ born \in [Jobs -> Nat]
    /\ deal \in [Jobs -> DealTerms]
    /\ events \in [Rows -> Seq(Events)]

ContextTypes ==
    /\ pc \in [Actors -> Labels]
    /\ rest \in [Contexts -> SUBSET Jobs]
    /\ cur \in [Actors -> Rows \cup {NoJob}]
    /\ kid \in [Contexts -> Children \cup {NoJob}]
    /\ new \in [Actors -> Statuses \cup {"NONE"}]
    /\ seen \in [Actors -> Statuses \cup {"NONE"}]
    /\ final \in [Contexts -> Statuses \cup {"NONE"}]
    /\ handler \in [Contexts -> BOOLEAN]
    /\ beat \in [Contexts -> {"off", "on", "dead"}]
    /\ tries \in [Contexts -> Nat]
    /\ shutdown \in BOOLEAN

OutsideTypes ==
    /\ money \in [Jobs -> Seq({"complete", "release"})]
    /\ refunds \in [Jobs -> Nat]
    /\ posts \in [Jobs -> Seq(Statuses)]
    /\ notes \in [Rows -> SUBSET {"dispute_filed", "admin_refund", "admin_resolve"}]
    /\ runs \in [Jobs -> Nat]
    /\ budget \in [{"crash", "db", "human"} -> Nat]

\* Every variable has its type: row states are the statuses of the schema, a
\* coroutine holds claimed jobs and processes at most one of them.
TypeOK == RowTypes /\ ContextTypes /\ OutsideTypes

Open(j) == status[j] \in {"NONE", "QUEUED"}
Closed(j) == status[j] \notin {"NONE", "QUEUED", "RUNNING"}
Holds(c, j) == j \in rest[c] \/ cur[c] = j

\* At-most-once execution: whatever mix of pollers, triggers and worker slots
\* claims, and whatever crashes, expiries and human moves happen in between,
\* process_job is entered at most once for a job and never by two coroutines
\* holding it at the same time (claim_job_by_id, claim_queued_jobs).
SingleExecution ==
    \A j \in Jobs :
        /\ runs[j] <= 1
        /\ \A c, d \in Contexts : Holds(c, j) /\ Holds(d, j) => c = d

\* The worker moves a job's escrow at most once: it never both completes and
\* releases it, and never repeats either, on any path through process_job.
OneEscrowMove == \A j \in Jobs : Len(money[j]) <= 1

\* The marketplace hears about a job only once its row has left RUNNING for
\* good, and every copy of the callback it receives carries the same status.
CallbackAfterRow ==
    \A j \in Jobs :
        posts[j] # <<>> =>
            /\ Closed(j)
            /\ \A i \in 1..Len(posts[j]) : posts[j][i] = posts[j][1]
            /\ Len(posts[j]) <= MaxAttempts

ClosedStays ==
    \A j \in Rows : /\ Closed(j) => Closed(j)'
                    /\ status[j] = "RUNNING" => ~Open(j)'

\* A job that has been closed by the worker, the reaper or a human is never
\* open for claiming or running again, although update_job_status itself would
\* write any status it is given.
NeverReopened == [][ClosedStays]_vars

\* Every row in RUNNING is closed eventually, by its coroutine or, when that
\* died, by the reaper; this covers child rows of a crashed parent.
RunningResolved == \A j \in Rows : status[j] = "RUNNING" ~> Closed(j)

NoFaultYet == budget["crash"] = MaxCrashes /\ budget["db"] = MaxDbErrors

\* Every QUEUED row is reached, however many older rows wait before it and whatever
\* becomes of the ticks that took those: it is processed; or, once a process died, the
\* store failed or a human moved a row, at least it does not stay QUEUED (it may have
\* been in the hands of a tick that was abandoned).
QueuedResolved ==
    \A j \in Jobs : status[j] = "QUEUED" ~>
        \/ runs[j] = 1
        \/ status[j] # "QUEUED" /\ (~NoFaultYet \/ budget["human"] < MaxHumanMoves)

\* A coroutine that runs a job with a webhook gets to post the callback, as
\* submit_job promises ("The worker will fire `webhook_url` on DELIVERED /
\* FAILED"), unless a process dies or the store fails first.
WebhookFired ==
    \A c \in Contexts, j \in Jobs :
        (cur[c] = j /\ pc[c] = "running" /\ deal[j].hook)
            ~> ((cur[c] = j /\ pc[c] = "callback") \/ ~NoFaultYet)

-----------------------------------------------------------------------------
(* What a comment of the repository says of this code and the model refutes *)

\* job_store.update_job_status: no settlement acts on a job that was already
\* written off by the reaper.
NoSettlementOfExpired ==
    [][\A j \in Jobs :
        (money'[j] # money[j] /\ money'[j][Len(money'[j])] = "complete")
            => status[j] # "EXPIRED"]_vars
=============================================================================
