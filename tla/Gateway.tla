------------------------------ MODULE Gateway -------------------------------
(***************************************************************************)
(* Requests to the gateway (main.py): authentication, run_agent with its   *)
(* asynchronous, synchronous and persona paths, submit_job with its        *)
(* idempotency key, and negotiate_agent, together with the escrow client,  *)
(* job_store.create_job and the transactions of SingleUse that spend a     *)
(* nonce or, for a tool call of the agent, an action grant.                *)
(***************************************************************************)
EXTENDS SingleUse

CONSTANTS
    Requests,          \* HTTP requests, the users of SingleUse
    Calls,             \* what a request may ask for, see CallType
    Keys, NoKey,       \* idempotency keys
    NoJob,
    EscrowPermitted,   \* GENESIS_DEPLOYMENT_PROFILE=swarmsync-marketplace
    Models,            \* how many ROUTER_FALLBACK_MODELS there are
    MaxTools           \* bound on the tool calls of a run that need a grant

Routes == {"async", "sync", "persona", "submit", "negotiate"}
CallType ==
    [route : Routes,
     token : (Tokens \ Grants) \cup {NoToken},    \* NoToken: the gateway key
     key   : Keys \cup {NoKey},
     terms : {"free", "own", "external"}]         \* who holds the buyer's money

ASSUME GatewayAssumption ==
    /\ Users = Requests
    /\ Calls \subseteq CallType
    \* submit_job opens no escrow: it passes on the escrow_id of its caller, if any.
    /\ \A c \in Calls : c.route = "submit" => c.terms # "own"
    /\ NoKey \notin Keys /\ NoJob \notin Requests
    /\ EscrowPermitted \in BOOLEAN /\ Models \in Nat \ {0} /\ MaxTools \in Nat

VARIABLES
    req,        \* per request: where its handler is and what it knows
    escrow,     \* per request: its reservation at swarmsync-api
    jobs,       \* genesis_jobs rows; a row is named by the request that made it
    runs,       \* per row: Trigger.dev runs queued for it
    unsure      \* history: requests one of whose escrow calls or commits failed, or
                \* whose reservation was answered without its id

handlerVars == <<req, escrow, jobs, runs, unsure>>
gatewayVars == <<useVars, handlerVars>>

AnyCall == [route |-> "persona", token |-> NoToken, key |-> NoKey, terms |-> "free"]
\* "held": the handler knows the id of a reservation of its own; "ran": how its run
\* ended, if it made one.
NoReq == [at |-> "idle", call |-> AnyCall, job |-> NoJob, held |-> FALSE, ran |-> "none",
          tools |-> 0, model |-> 1, attempt |-> 0, answer |-> "none"]

GatewayInit ==
    /\ UseInit
    /\ req = [r \in Requests |-> NoReq]
    /\ escrow = [r \in Requests |-> "none"]
    /\ jobs = {}
    /\ runs = [r \in Requests |-> 0]
    /\ unsure = {}

Go(r, loc) == req' = [req EXCEPT ![r].at = loc]
\* What is left of a handler that is gone.
Left(r, loc, code) ==
    [at |-> loc, call |-> req[r].call, job |-> req[r].job, held |-> FALSE, ran |-> req[r].ran,
     tools |-> 0, model |-> 1, attempt |-> 0, answer |-> code]
Answer(r, code) == req' = [req EXCEPT ![r] = Left(r, "done", code)]
Call(r) == req[r].call

-----------------------------------------------------------------------------
(* verify_agent_principal, verify_gateway_key                              *)

\* A request without AP2 headers is let in by either shared secret, or gets 401.
\* negotiate_agent knows the shared secrets only.
Arrive(r, c) ==
    /\ req[r].at = "idle"
    /\ IF c.token = NoToken
       THEN /\ \/ req' = [req EXCEPT ![r].at = "route", ![r].call = c]
               \/ req' = [req EXCEPT ![r].at = "done", ![r].call = c, ![r].answer = "401"]
            /\ UNCHANGED useVars
       ELSE /\ req' = [req EXCEPT ![r].at = "auth", ![r].call = c]
            /\ \E good \in BOOLEAN : Present(r, c.token, good)
    /\ UNCHANGED <<escrow, jobs, runs, unsure>>

\* The nonce is spent; assert_envelope_binds_request compares the signed payload
\* with what the route will execute.
Authenticated(r) ==
    /\ req[r].at = "auth" /\ tx[r].at = "told"
    /\ \/ tx[r].result = "accepted" /\ Go(r, "route")
       \/ Answer(r, "401")
    /\ UNCHANGED <<useVars, escrow, jobs, runs, unsure>>

-----------------------------------------------------------------------------
(* The beginning of each handler                                           *)

First == [async |-> "escrow", sync |-> "escrow", persona |-> "router",
          submit |-> "select", negotiate |-> "router"]

\* run_agent refuses a prohibited capability, a slug without a bundle and a
\* resolved context that is not this tenant's; submit_job an unsafe webhook URL.
Route(r) ==
    /\ req[r].at = "route"
    /\ \/ Go(r, First[Call(r).route])
       \/ Call(r).route # "negotiate" /\ Answer(r, "4xx")
       \/ Call(r).route = "sync" /\ Go(r, "router")    \* _get_runtime() is None
    /\ UNCHANGED <<useVars, escrow, jobs, runs, unsure>>

-----------------------------------------------------------------------------
(* escrow_client: no call raises, an error is an answer that is not ok     *)

OwnEscrow(r) == Call(r).terms = "own" /\ EscrowPermitted

AfterEscrow(r) == IF Call(r).route = "async" THEN "insert" ELSE "execute"

\* initiate_escrow, skipped for a free run and for a reservation of the caller's.
InitiateEscrow(r) ==
    /\ req[r].at = "escrow"
    /\ \/ ~OwnEscrow(r) /\ Go(r, AfterEscrow(r)) /\ UNCHANGED escrow
       \/ /\ OwnEscrow(r)
          /\ req' = [req EXCEPT ![r].at = AfterEscrow(r), ![r].held = TRUE]
          /\ escrow' = [escrow EXCEPT ![r] = "reserved"]
       \/ OwnEscrow(r) /\ Answer(r, "402") /\ UNCHANGED escrow
    /\ UNCHANGED <<useVars, jobs, runs, unsure>>

\* The reservation is made and its answer lost, or the answer is ok and has no id: the
\* handler goes on and has nothing to settle, to release or to put in the row.
InitiateUnheard(r) ==
    /\ req[r].at = "escrow" /\ OwnEscrow(r) /\ Fault
    /\ escrow' = [escrow EXCEPT ![r] = "reserved"]
    /\ unsure' = unsure \cup {r}
    /\ Answer(r, "402") \/ Go(r, AfterEscrow(r))
    /\ UNCHANGED <<clock, free, others, tx, table, uses, jobs, runs>>

\* complete_escrow or release_escrow: what it does when it works.
Decide(r, outcome) ==
    escrow' = IF req[r].held /\ escrow[r] = "reserved"
              THEN [escrow EXCEPT ![r] = outcome] ELSE escrow

\* Where the handler goes after the call, whatever the call answered.  A result that is
\* not JSON raises, and the router persona answers although the escrow is settled.
AfterDecision(r) ==
    \/ req[r].at = "settle" /\ (Answer(r, "200") \/ Go(r, "router"))
    \/ req[r].at \in {"refund", "release"} /\ Answer(r, "5xx")
    \/ req[r].at = "raised" /\ Go(r, "router")

EscrowDecision(r) ==
    /\ AfterDecision(r)
    /\ Decide(r, IF req[r].at = "settle" THEN "settled" ELSE "refunded")
    /\ UNCHANGED <<useVars, jobs, runs, unsure>>

\* The call fails, or works and its answer is lost.
EscrowDecisionFails(r) ==
    /\ req[r].held /\ escrow[r] = "reserved" /\ Fault
    /\ AfterDecision(r)
    /\ \/ UNCHANGED escrow
       \/ Decide(r, IF req[r].at = "settle" THEN "settled" ELSE "refunded")
    /\ unsure' = unsure \cup {r}
    /\ UNCHANGED <<clock, free, others, tx, table, uses, jobs, runs>>

-----------------------------------------------------------------------------
(* job_store.create_job                                                    *)

RowsWith(k) == {j \in jobs : j.key = k /\ k # NoKey}

\* SELECT ... WHERE "idempotencyKey" = key
SelectKey(k) == RowsWith(k)

Select(r) ==
    /\ req[r].at = "select"
    /\ IF SelectKey(Call(r).key) = {} THEN Go(r, "insert")
       ELSE req' = [req EXCEPT ![r].at = "done", ![r].answer = "200",
                        ![r].job = (CHOOSE j \in SelectKey(Call(r).key) : TRUE).id]
    /\ UNCHANGED <<useVars, escrow, jobs, runs, unsure>>

\* mutant: the column has no UNIQUE constraint.
NeverDuplicate(k) == FALSE

Duplicate(k) == RowsWith(k) # {}

\* A row that carries a reservation of the gateway's own is one of terms "own".
NewRow(r) ==
    [id |-> r, key |-> Call(r).key,
     terms |-> IF Call(r).terms = "own" /\ ~req[r].held THEN "free" ELSE Call(r).terms]

\* mutant: a failed insert is answered without releasing the reservation.
FailInsertNoRefund(r) == Answer(r, "5xx")

\* create_job raised: run_agent releases its own reservation, submit_job has none.
FailInsert(r) == IF Call(r).route = "async" THEN Go(r, "refund") ELSE Answer(r, "5xx")

\* INSERT and commit; a second INSERT of a key waits for the first to commit.
InsertJob(r) ==
    /\ req[r].at = "insert"
    /\ \/ /\ ~Duplicate(Call(r).key)
          /\ jobs' = jobs \cup {NewRow(r)}
          /\ req' = [req EXCEPT ![r].at = IF Call(r).route = "submit" THEN "dispatch" ELSE "done",
                        ![r].job = r,
                        ![r].answer = IF Call(r).route = "submit" THEN "none" ELSE "200"]
       \/ Duplicate(Call(r).key) /\ FailInsert(r) /\ UNCHANGED jobs
    /\ UNCHANGED <<useVars, escrow, runs, unsure>>

\* run_agent tests the callback URL inside the same try as the insert.
CallbackRefused(r) ==
    /\ req[r].at = "insert" /\ Call(r).route = "async"
    /\ FailInsert(r)
    /\ UNCHANGED <<useVars, escrow, jobs, runs, unsure>>

\* The database fails, before the commit or after it.
InsertFails(r) ==
    /\ req[r].at = "insert" /\ Fault
    /\ \/ UNCHANGED <<jobs, unsure>>
       \/ /\ ~Duplicate(Call(r).key)
          /\ jobs' = jobs \cup {NewRow(r)} /\ unsure' = unsure \cup {r}
    /\ FailInsert(r)
    /\ UNCHANGED <<clock, free, others, tx, table, uses, escrow, runs>>

\* dispatch_genesis_job: best effort, the answer is the same.
Dispatch(r) ==
    /\ req[r].at = "dispatch"
    /\ \/ runs' = [runs EXCEPT ![req[r].job] = @ + 1]
       \/ UNCHANGED runs
    /\ Answer(r, "200")
    /\ UNCHANGED <<useVars, escrow, jobs, unsure>>

-----------------------------------------------------------------------------
(* The synchronous run                                                     *)

AfterRun(result) ==
    CASE result = "ok" -> "settle" [] result = "failed" -> "release" [] OTHER -> "raised"

ToolReturned(r) == tx[r].at \in {"idle", "told"}

\* A deployment-class tool call of the agent consumes its grant.
ConsumeGrant(r, t) ==
    /\ req[r].at = "execute" /\ ToolReturned(r) /\ req[r].tools < MaxTools
    /\ req' = [req EXCEPT ![r].tools = @ + 1]
    /\ \E good \in BOOLEAN : Present(r, t, good)
    /\ UNCHANGED <<escrow, jobs, runs, unsure>>

\* runtime.execute_agent, modelled in AgentLoop.  When it raises, the reservation
\* is released and the router persona answers instead.
Execute(r) ==
    /\ req[r].at = "execute" /\ ToolReturned(r)
    /\ \E result \in {"ok", "failed", "raises"} :
        req' = [req EXCEPT ![r].at = AfterRun(result), ![r].ran = result]
    /\ UNCHANGED <<useVars, escrow, jobs, runs, unsure>>

-----------------------------------------------------------------------------
(* call_llm_router: every model is tried, twice when it is rate limited or *)
(* answers nothing.                                                        *)

\* What the handler does without an answer: run_agent raises, a negotiation is
\* rejected.
RouterGivesUp(r) == IF Call(r).route = "negotiate" THEN Go(r, "callback") ELSE Answer(r, "5xx")

NextModel(r) ==
    IF req[r].model < Models
    THEN req' = [req EXCEPT ![r].model = @ + 1, ![r].attempt = 0]
    ELSE RouterGivesUp(r)

\* One retry after a pause, then the next model.
RetryModel(r) ==
    IF req[r].attempt = 0 THEN req' = [req EXCEPT ![r].attempt = 1] ELSE NextModel(r)

RouterPost(r) ==
    /\ req[r].at = "router"
    /\ \/ IF Call(r).route = "negotiate" THEN Go(r, "callback") ELSE Answer(r, "200")
       \/ RetryModel(r)      \* 429, or empty content
       \/ NextModel(r)       \* out of credit
       \/ RouterGivesUp(r)   \* any other status, or the POST raised
    /\ UNCHANGED <<useVars, escrow, jobs, runs, unsure>>

\* send_negotiate_callback: one attempt, to swarmsync-api only.
NegotiateCallback(r) ==
    /\ req[r].at = "callback"
    /\ Answer(r, "200")
    /\ UNCHANGED <<useVars, escrow, jobs, runs, unsure>>

-----------------------------------------------------------------------------
\* The process is restarted: its requests are gone, its connections closed, the
\* semaphore new.
Restart ==
    /\ Fault
    /\ req' = [r \in Requests |-> IF req[r].at \in {"idle", "done"} THEN req[r]
                                  ELSE Left(r, "lost", "none")]
    /\ tx' = [u \in Users |-> IF tx[u].at \in {"idle", "told"} THEN tx[u]
                              ELSE [Idle EXCEPT !.at = "told", !.token = tx[u].token,
                                                !.result = "refused"]]
    /\ free' = Cap /\ others' = 0
    /\ UNCHANGED <<clock, table, uses, escrow, jobs, runs, unsure>>

HandlerStep(r) ==
    \/ Authenticated(r) \/ Route(r) \/ InitiateEscrow(r) \/ EscrowDecision(r)
    \/ Select(r) \/ InsertJob(r) \/ CallbackRefused(r) \/ Dispatch(r) \/ Execute(r)
    \/ RouterPost(r) \/ NegotiateCallback(r)

HandlerFault(r) == InitiateUnheard(r) \/ EscrowDecisionFails(r) \/ InsertFails(r)

PoolStep(u) == TxStep(u) /\ UNCHANGED handlerVars

\* Every request was answered or went down with its process.
Finished == (\A r \in Requests : req[r].at \in {"done", "lost"}) /\ UNCHANGED gatewayVars

GatewayNext ==
    \/ \E r \in Requests, c \in Calls : Arrive(r, c)
    \/ \E r \in Requests : HandlerStep(r) \/ HandlerFault(r)
    \/ \E u \in Users : PoolStep(u)
    \/ \E u \in Users : TxFault(u) /\ UNCHANGED handlerVars
    \/ \E r \in Requests, t \in Grants : ConsumeGrant(r, t)
    \/ (Tick \/ OthersAcquire \/ OthersRelease) /\ UNCHANGED handlerVars
    \/ Restart
    \/ Finished

GatewaySpec == GatewayInit /\ [][GatewayNext]_gatewayVars

-----------------------------------------------------------------------------
(* Properties                                                              *)

\* submit_job, create_job: requests with the same key are answered with the same
\* job, also when they arrive together or the first one's commit went unheard,
\* and the row is dispatched once.
KeyNamesOneJob ==
    /\ \A i, j \in jobs : i.key = j.key /\ i.key # NoKey => i = j
    /\ \A r, q \in Requests :
        /\ req[r].job # NoJob /\ req[q].job # NoJob
        /\ Call(r).key = Call(q).key /\ Call(r).key # NoKey
        => req[r].job = req[q].job
    /\ \A r \in Requests : runs[r] <= 1

\* run_agent: once a request is answered, and unless an escrow call or the commit
\* left the gateway in the dark, its reservation is open exactly when a queued row
\* carries it.  At any time, what was paid was paid for a run that ended ok, and what was
\* given back was not; the answer to such a run may still be the router persona's.
ReservationAccounted ==
    \A r \in Requests :
        /\ req[r].at = "done" /\ r \notin unsure =>
            (escrow[r] = "reserved" <=> \E j \in jobs : j.id = r /\ j.terms = "own")
        /\ escrow[r] = "settled" => req[r].ran = "ok"
        /\ escrow[r] = "refunded" => req[r].ran # "ok"
=============================================================================
