# Genesis Agents: a TLA+ model of the gateway and its stores

Genesis is a FastAPI gateway (`main.py`) that runs LLM agents for a
marketplace. Requests are authenticated, priced and either executed in the
request or queued as a row of `genesis_jobs`; workers claim queued rows, run
the agent loop (`agent_runtime.py`) and settle the result: the row, the escrow
in the external swarmsync-api and a callback to the marketplace. Around this
sit durable stores in one Postgres database: the job tables, the audit chain,
session and delegation records, single-use nonces and action grants, and the
migration ledger.

The modules here are translated from the code, handler by handler. TLC checks
them on small instances; `tlapm` proves the safety properties of the core for
every instance. `PROJECT.json` holds the component list, the runs, the map from
definitions to source lines, the hazards and the theorems.

## 1. Inventory

| Component | State | Operations | Interacts through | What is hard | What makes it correct |
|---|---|---|---|---|---|
| Job store, `job_store.py` | `genesis_jobs` rows (status, heartbeat, escrow, webhook, parent), `genesis_job_events` | `create_job`, `create_child_job`, `update_job_status`, `heartbeat`, `claim_job_by_id`, `claim_queued_jobs`, `expire_stale_running_jobs` | one transaction per call, called from every process | claims and the reaper race; `update_job_status` reads without a lock | a job runs at most once, closed rows stay closed, every row is resolved |
| Worker, `worker.py` | locals of `process_job`, heartbeat task, claimed list of a tick, `_shutdown` | `run_tick`, `execute_job_by_id`, `main`, `process_job`, `fire_callback` | job store, escrow API, marketplace callback | crash, dead heartbeat, lost callbacks, serial queue of a tick | one escrow move, callback after the row and consistent with it |
| Delegation, `tools/genesis_call_tool.py` | child rows, child heartbeat, delegated spend | `genesis_call` | runs a child agent inline | child rows of a dead parent; depth and cycles; budgets that only size LLM calls | children are resolved, chains are acyclic and bounded |
| Human routes, `main.py` | job rows, event rows | `file_dispute`, `admin_refund`, `admin_resolve` | job store, escrow API | concurrent with a running worker | admin decisions are not undone |
| Intake, `main.py`, `escrow_client.py`, `trigger_dispatch.py` | escrow reservation, idempotency key, job row | `run_agent`, `submit_job`, `negotiate_agent` | escrow API, job store, Trigger.dev | partial failure between escrow and row, repeated requests | no reservation is stranded, one row per key |
| Verification jobs, `main.py`, `conduit_verifier.py` | in-memory rows, plain and arbitrage | `start_verification`, `_run_and_callback`, `run_verification`, status routes | callback to the marketplace, Chromium | the deliverable changes between fetches, the POST fails after success, a restart | a pass is earned, one verdict per job, the one a poll shows |
| Browser bridge and vault, `conduit_browser.py`, `conduit_sessions.py` | Chromium processes, session files | `ensure_started`, `stop`, `store_session`, `delete_session` | agent loop, shares the machine with verification | a start that fails half way, a session uploaded at any moment | browsers are accounted for; a run that got as far as the vault leaves no credential |
| Agent loop, `agent_runtime.py` | turns, LLM calls, tokens, files, success criteria | `execute_agent`, `_run_loop`, tool dispatch | tools, policy, audit, grants, sessions | limits reached within a turn, order of intent, call and event | limits hold, every side effect is announced first |
| Tool policy, `runtime/tool_policy.py` | none (tables) | `check_tool_policy` | agent loop | risk lattice per slug, inherited risks | a child never gains a risk its parent lacks |
| Audit chain, `audit.py`, `runtime/genesis_audit.py` | `genesis_audit_log`, `genesis_audit_chain_heads` | `log`, `verify_chain`, `export_session` | agent loop, proof bridge, anchors | concurrent appends, lost rows, two-step verification | no fork, loss is detected, an intact chain verifies |
| Anchors, `anchor_logger.py` | `genesis_audit_anchors` | daily Merkle root, `verify_anchor` | audit chain | late rows, two anchoring processes | an anchor is never rewritten |
| Migrations, `migrations/runner.py` | ledger table, schema, advisory lock | `apply`, `verify` | every process at boot | two processes booting, crash inside a migration | each migration applied once, in order |
| Connection pool, `runtime/pg_store.py` | semaphore, open connections | `transaction`, `connect` | every store | exhaustion, errors between acquire and release | no slot leaks, cap respected |
| Durable sessions, `durable_store.py` | sessions, tool events, relationships, artifacts | `session_create`, `session_finish`, `relationship_*` | agent loop, worker, delegation | one background thread writes, and may fail | session rows tell the outcome |
| Single use, `runtime/request_auth.py`, `runtime/action_grants.py` | nonce and grant tables | `verify_ap2_envelope`, `issue_action_grant`, `consume_action_grant` | gateway, agent loop, connection pool | clocks, sweeping of expired rows, concurrent consumers | a token is good once |
| Principals, `runtime/request_auth.py`, read routes of `main.py` | job ownership, continuation tokens | `issue_principal_token`, `verify_principal_token`, `owns_resource` | job store, retrieval | children, repeated keys, shared secrets | a job is read by its owner |
| Sandbox and workspace, `runtime/sandbox_manager.py`, `runtime/workspace_manager.py` and their tools | registry, directories, processes, the cached bwrap probe | create, run, destroy, `run_code` | shell tools, sandbox routes | threads, timeouts, purges under a running command, code that starts processes | no shell command outlives its call |
| Xero posting, `tools/xero_scoped_tool.py`, `accounting/xero_scope.py` | idempotency file in the job's directory | `xero_scoped_invoke` | bridge, workspace | file read before and written after the request | a run posts once |
| Proofs and artifacts, `proof_bridge.py`, `artifact_store.py` | files, S3 objects, proof rows | upload, generate, verify | worker, routes | best effort I/O | |
| Retrieval, `retrieval_route.py`, `retrieval_store.py`, `knowledge_backbone.py` | none (read only) | query, filter, dedup | two external indexes | order of filters, one index down | permission filter, canonical precedence |
| Money tools, `tools/{finance,billing,pricing,commerce}_tool.py`, `tools/_envelope.py` | none | two reports, refusals | agent loop | rounding and allocation | totals are preserved |
| Other tools, `tools/` | none | web, mail, domains, code format, vision | agent loop | outside services | |
| Accounting router, `accounting/` | YAML tables | `route_question` | gateway | text heuristics | |
| Evaluation, `eval/`, `testing/`, `scripts/` | files | offline harness | | | |

Hard behaviours, by kind; `PROJECT.json` lists each one at its line:

- *interleaving*: claims against claims and against the reaper; appends to one
  audit session; two deploys; human routes against a running worker; two
  requests with one envelope or one key; two threads that probe the sandbox;
- *a value read before another transaction and used after it*:
  `update_job_status`, `verify_chain`, `reconcile`, `_assert_lock_alive`,
  `consume_action_grant`, the timestamp of an audit row, the idempotency file of
  Xero posts, a deliverable fetched three times;
- *failure in the middle*: a process dies with claimed jobs, with the append
  lock or with the migration lock; a store error inside an `except` or
  `finally` clause; an audit append that fails around a tool call; a session
  write lost by the background thread; an insert that fails after money was
  reserved; a browser whose start fails after its launch;
- *lost answers*: the callback, the escrow call, the submit request, a commit, a
  verdict, a Xero post;
- *limits*: turns, LLM calls, tokens, files, delegation depth, callback
  attempts, connection slots;
- *things that must happen*: queued rows run, running rows close, webhooks
  fire, deploys and agent trees end, accepted verifications settle.

## 2. Plan

The order follows what the marketplace depends on most.

1. `GenesisJobs`: job rows, workers, delegation rows, human routes (done,
   proved).
2. `AuditChain`, `AuditLedger`, `AuditAnchors`: the evidence (done, proved: the
   chain, its refinement of the ledger, and the anchors).
3. `AgentLoop`: one agent tree with its policy, grants, limits, audit rows and
   session rows (done, proved but for its liveness).
4. `MigrationRunner` (done, proved but for its liveness).
5. `SingleUse`, and `Gateway` over it: tokens that are good once, on the capped
   pool; `run_agent`, `submit_job` and `negotiate_agent` (done, proved).
6. `ConduitBridge`, and `Verification` over it (done, proved but for its
   liveness).
7. `JobWorkspace`, and `XeroPosting` over it (done, proved).
8. `MoneyReports` and `ReadAccess`, both over `Ranking`: computations, checked
   against a statement of what their answers must be on every short list of inputs,
   and proved on every list (done).

What is left is what the prover has no rule for: the liveness properties, which
stay with TLC.

## 3. Modules

| Module | Models | Composes |
|---|---|---|
| `GenesisJobs` | `job_store.py`, `worker.py`, child rows of `genesis_call_tool.py`, dispute and refund routes of `main.py` | |
| `GenesisJobsProofs` | theorems about it | `GenesisJobs` |
| `AuditChain` | `audit.py`: append, head, verification | |
| `AuditChainProofs` | theorems about it and about `AuditAnchors` | `AuditAnchors`, `FoldFacts` |
| `AuditLedger` | what the audit log promises its writers (abstract) | refined by `AuditChain` (`LedgerSpec`) |
| `AuditAnchors` | `anchor_logger.py` | extends `AuditChain`; its appends, losses and verifications interleave with anchoring |
| `AgentLoop` | `agent_runtime.py`, `genesis_call_tool.py`, `runtime/tool_policy.py`, the session rows of `durable_store.py` | |
| `AgentLoopProofs` | theorems about it | `AgentLoop` |
| `MigrationRunner` | `migrations/runner.py` | |
| `MigrationRunnerProofs` | theorems about it | `MigrationRunner` |
| `SingleUse` | nonces of `request_auth.py`, grants of `action_grants.py`, `transaction` of `pg_store.py` | |
| `Gateway` | `run_agent`, `submit_job`, `negotiate_agent`, `call_llm_router` of `main.py`; `escrow_client.py`, `trigger_dispatch.py`, `create_job` | extends `SingleUse`; a request is its user |
| `GatewayProofs` | theorems about it and about `SingleUse` | `Gateway` |
| `ConduitBridge` | `conduit_browser.py`, `conduit_tool.py`, `conduit_sessions.py` around an agent run | |
| `Verification` | verification routes of `main.py`, `conduit_verifier.py`, `verification_models.py` | extends `ConduitBridge`; one process, one count of browsers |
| `VerificationProofs` | theorems about it and about `ConduitBridge` | `Verification` |
| `JobWorkspace` | `sandbox_manager.py`, `workspace_manager.py`, `sandbox_tool.py`, `workspace_shell_tool.py` | |
| `XeroPosting` | `xero_scoped_tool.py`, `accounting/xero_scope.py` | extends `JobWorkspace`, whose purges take its file |
| `Ranking` | lists cut out of lists: sorted with a key, or the rows that pass a test | |
| `MoneyReports` | `finance_tool.py`, `billing_tool.py`, `pricing_tool.py`, `commerce_tool.py`, `_envelope.py` | `Ranking` |
| `ReadAccess` | tokens and ownership of `request_auth.py` and `main.py`; `retrieval_route.py`, `retrieval_store.py`, `knowledge_backbone.py` | `Ranking` |
| `ToolsProofs` | theorems about `JobWorkspace`, `XeroPosting`, `MoneyReports` and `ReadAccess` | these four, `FoldFacts` |
| `FoldFacts` | a loop over a list as the list of the values its accumulator takes; induction | |
| `MC*` | constants of the instances TLC checks | |

Operators whose comment starts with "mutant:" are variants with a plausible
bug. No specification uses them; `PROJECT.json` lists, for each
property of each run, the one that must violate it when it takes the place of
the operator it is a variant of.

### GenesisJobs

State: the columns of `genesis_jobs` that decide anything (`status`, `stale` for
the heartbeat test of the reaper, `born` for `createdAt`, `deal` for escrow and
webhook), the `status_change` events, and per coroutine the locals of
`process_job` (`cur`, `rest`, `new`, `seen`, `final`, `handler`, `beat`,
`tries`). `money`, `refunds` and `posts` are what the outside world received.

A handler is cut at every transaction and every `await`. Each `job_store`
function is one transaction, so one action, except `update_job_status`: its
SELECT takes no lock, so `SelectStatus` and `WriteStatus` are separate.

| Code | Actions |
|---|---|
| `create_job`, `create_child_job` | `CreateJob`, `DelegateChild`, `DelegateUnrecorded` |
| `run_tick`, `execute_job_by_id`, `worker.main` | `TickReap`, `TickClaim`, `ClaimJobById`, `LoopReap`, `LoopClaim`, `HandleSignal`, `Restart` |
| `process_job` | `StartJob`, `AgentReturns`, `AgentRaises`, `EscrowCall`, `EscrowUnmoved`, `StopReturns`, `StopRaises`, `StopThenCallback` |
| `update_job_status` | `SelectStatus`, `RefuseStatus`, `WriteStatus`, `UpdateRaises`, `UpdateUnheard` |
| `hb_loop`, `_child_heartbeat` | `Heartbeat`, `ChildHeartbeat`, `HeartbeatRaises` |
| `fire_callback` | `CallbackArrives`, `CallbackLost` |
| dispute, refund, resolve | `HumanRequest`, `AdminRelease`, `AdminReleaseSkipped`, `HumanNote`, `HumanNoteFails` |
| environment | `GoesStale`, `Crash` |

`CreateJob` starts from accepted terms (`Deals`); how a request gets there is
`Gateway`. Escrow calls, the callback and the commit of `update_job_status`
(`UpdateUnheard`) may be lost before or after they take effect. `TimelyHeartbeats` says whether a live heartbeat loop
always beats the five minute window; it is FALSE where a property should
survive a blocked event loop.

### AuditChain, AuditLedger, AuditAnchors

A row hash is the tuple of the fields it binds: SHA-256 without collisions.
`log` is `Log` (the row's fields, its timestamp among them), `TakeLock`,
`ReadPrev`, `InsertRow` (draws an id that is not given back on rollback) and
`Commit` (row, hash and head appear together); `Fail` is a rollback or a
crash at any of these. `verify_chain` is `VerifyRows` and `VerifyHead`, two
transactions. `LoseRow` and `EditRow` are the damage the chain exists to show;
they are the storage's doing, no function of the program. `OneLock` chooses
between SQLite's single append lock and the per session lock of Postgres.
`ever`, `due`, `quiet` are history: what was committed, what a verification
should have read, whether an append came in between. `today` dates a row; it moves
(`Midnight`) in `AuditAnchors`, since no chain depends on it.

`AuditLedger` is one append-only list per session. The instance `Ledger` in
`AuditChain` maps it to the committed rows in the order of their ids (`ById`: the
row at place i is the one with i rows up to its id); `LedgerSpec` is the
refinement.

`AuditAnchors` adds `compute_daily_anchor`, `record_anchor` and the series of
reads that `verify_anchor` makes, each read a step. The Merkle tree is computed
as in the code, odd nodes paired with themselves; a parent is the pair of its
children. The list of sessions to verify is a read of its own, which answers that
there are none when the file cannot be opened (`NoSessions`, `_sessions_on`), also
in the branch that was to name every session broken (`SessionsUnverified`).
`settled`, `calm`, `still` and `listed` are history: whether the day was over when
it was anchored, whether nothing was appended to a session while it was verified,
which of the rows a verification read are still in the table when it returns, and
whether it was told which sessions the day has.

### AgentLoop

`genesis_call` runs the child inline, so the runs of one tree are a stack whose
top moves; a frame holds the locals of `_run_loop`. Beside it the single writer
thread of `durable_store` takes session writes from a queue. `CallLlm` lets the
model answer with any number of tokens and any tool calls up to `MaxAsked`;
`Dispatch` takes one call through the tests of the code in their order:
prohibited or not allowed (`RefuseCall`), policy and delegation (`Denied`),
grant (`Authorize`), approval (`Blocked`), file quota (`OverQuota`), intent row
(`PreflightFails`, `Announce`), execution (`RunTool`, `CallAgent`), event row
(`ToolReturns`). The policy tables are constants; the MC module takes rows of
the real tables.

Two things a reader of the code may not expect are kept as they are. A denied
call only sets `tool_result`, which the second chain of tests ignores, so that it
runs unless it is of the deployment class (see section 6). And
`deployment_authorized` is a local that survives from call to
call and is unbound before the first deployment (`ReadUnbound`).
Lines 486-547 of `agent_runtime.py` are not modelled: they need a
`buyer_session` that is always `None` there. Nor is the ledger of what children
used (`remaining_delegation_budget`, `record_delegated_spend`): the rest it yields
becomes the child's `token_budget`, and that is only `max_tokens` of each of the
child's LLM calls (lines 663 and 1276).

### MigrationRunner

`Disk[r]` is the checkout of runner `r`: which files, their text and their line
ends. `migrate` is `Begin`, `TakeLock`, `ReadLedger` (reconcile: `Drifted`,
`Vanished`, `Late`) or `Refuse`, then per file `AssertLockAlive` on the lock
connection and `ApplyOne` on another one (DDL and ledger row together, or
`ApplyConflicts` when the key exists), `Finish`. `LoseLock` ends the lock's
connection while its runner goes on; `Fail` is a statement that fails or a
killed process.

### SingleUse, Gateway

`tx[u]` follows a caller through `transaction()`: wait for a slot, connect,
sweep, insert, commit, close. The table's primary key is what makes a second
INSERT of a token wait for the first (`Locked`) and then fail (`Spent`); a sweep
that meets a row another transaction has deleted waits as well. `seen` is the
clock `consume_action_grant` read before all this; the nonce path reads it again
(`SweepClock`). `uses` counts the acceptances committed while the token was
valid: after its expiry its row may be swept, and a caller that has waited since
before may then be accepted a second time.

A request of `Gateway` is one coroutine, cut at its transactions and its HTTP
calls: `Arrive`, `Authenticated`, `Route`, then by route `InitiateEscrow`,
`Select`, `InsertJob`, `Dispatch`, `Execute`, `EscrowDecision`, `RouterPost`,
`NegotiateCallback`. `Execute` is `AgentLoop` seen from outside; the grants its
calls spend go through the same pool (`ConsumeGrant`). An escrow call or a commit
whose answer is lost puts the request in `unsure`, because nobody can then know;
and so does a reservation answered `ok` without its id (`InitiateUnheard`), after
which the handler has nothing to settle or to release. `AfterDecision` has both
ways on from a settlement: the answer, and the router persona when building the
answer raised.
The job rows here are those of `GenesisJobs` at the moment of `CreateJob`.

### ConduitBridge, Verification

A run holds a bridge (`held`: `_browser` is set, `page`: `_page` is set); the two
are set one after the other, and `OpenPageFails` sits between. A run ends in one of
three ways (`Ended`): over, through `RefuseRun` or the `finally` clause (`Clean`);
barred, by a return before anything looks at the vault (`BarRun`: an unknown slug,
an entity pack that cannot be loaded); dead with its process (`RunsRestart`), after
which its job is at most marked EXPIRED, never run again. A verification job
walks through `run_verification`: `Hash`, `Rubric`, `LaunchBrowser`, the six
actions of the plan, `CloseBrowser`, `Judge`, and then the callback. `artifact`
is what the URL serves now; `Publish` replaces it between any two fetches and
`served` remembers what was there. `Raise` is the `except` clause: it overwrites
the arbitrage row and leaves the plain row its result. `received` is external,
the verdicts the marketplace has recorded. A rubric without its hash, or a hash
without its rubric (`"bare"` of `Rubrics`), is accepted by `VerificationSpec` and
not looked at (`RubricAsked`): the page decides.

### JobWorkspace, XeroPosting

A tool call is a place in `pc[j]`. Commands run in threads, so `_BWRAP_OK` is
read, probed and read again in separate steps (`ReadCache`, `EndProbe`,
`Decide`), and a sandbox route may purge the directory between any two. `disk`
survives `CrashWorkspace`, `registry` does not. `proc` says what runs for a job: a
boxed command, which its namespace ends with it; the bare Python process of
`run_code`; and orphans, which such code started and left (`ReapParent`), or the
code itself once the gateway died, and which end when they like (`OrphansEnd`).
`XeroCall` is one step up to the
request, since nothing is awaited in it; `PostAccepted` is the answer with the
record. `amnesia` and `unheard` count the ways in which the record of a post can
be lost, which is what `PostsAccounted` allows a second post for.

### Ranking, MoneyReports, ReadAccess

Functions, written as operators with folds for the loops and `Listed` for `sorted`,
ORDER BY and comprehensions with an `if`. Their state is the input: `AddRow`,
`IndexRow` and the job actions build every list, index and ownership table
within the bounds, and the property compares the answer with an independent
statement (sums over sets instead of loops, nearest even instead of `round`,
"nothing better is left out" instead of sort and cut). `creator` records on whose
behalf a row was made, which the row itself may have lost. A principal is a pair
of subject and tenant, and two client ids may share one: that is how the registry
rotates a key (`trusted_ap2_clients.README.md:49`). `JobsReadByOwner` says
for every token ever issued which rows it opens: those made for its client's
principal, and no others. Of the shared secrets it says what they open: the events,
the sandbox and the trace of every job, whoever owns it (as `main.py:444-449`
admits), and the status and the artifacts of exactly the rows made for them or for
nobody, to which the children of a client's synchronous run belong.

## 4. Runs

Twelve runs. Times are of two workers.

| Run | Shows | States, time |
|---|---|---|
| `JobsClaims` | Types; at most one execution, one escrow move; callback only after the row is closed, always the same status. Two jobs of one tick, a poller and an event trigger, a crash, a store error, stale heartbeats | 2.1 million, 120 s |
| `JobsHumans` | No closed row becomes claimable or running again, with the stand-alone worker process, its task slot, shutdown, restart and crash, a child row and a human who disputes, refunds or resolves | 2.8 million, 110 s |
| `JobsLive` | Queued rows are taken up, the younger of two behind the older and after a tick was abandoned; running rows are closed (child rows of a dead parent too), and before any fault the webhook is called. A poller that claims one row per tick, a crash, a store error | 219 thousand, 115 s |
| `Audit` | No fork, an untouched session verifies, no damaged one is reported intact, refinement of `AuditLedger`; two writers, two sessions of which one is older than the heads, two rows lost or edited at any moment | 780 thousand, 140 s |
| `Anchors` | An anchor that matches means the day has the rows that were anchored and, if the sessions of the day could be listed, that they are as committed; a day anchored after its last commit is not called tampered. With one append lock for all sessions, as SQLite has it | 2.7 million, 145 s |
| `AgentRun` | Types and limits of a run; intents before effects; success needs audited evidence; one grant, one deployment; session rows tell the outcome; with failing audit and session writes | 776 thousand, 150 s |
| `AgentTree` | Acyclic chains of true depth, never past the limit; every run ends. Four agents whose targets lead back to each other and one level past the limit | 370 thousand, 170 s |
| `Database` | Migrations: order, once each, line ends, every deploy ends; three checkouts, two lost locks, one failure. Both reports balance, jobs are read by their owner, retrieval shows what it may; every list and every index of up to three rows. The three share no state and are explored beside each other | 123 thousand, 90 s |
| `Gateway` | A token is good once while it is valid, slots are conserved, a key names one job, a reservation is open exactly when a queued row carries it; two requests over all routes, one fault or restart | 1.9 million, 120 s |
| `Verification` | A pass is earned, the marketplace hears one verdict and polls the same, browsers and credentials are accounted for, accepted jobs settle or wait for a server or their browser; two faults | 991 thousand, 140 s |
| `Tools` | Commands end with their calls, code files are removed, posts are accounted for; two jobs, purges and a crash | 844 thousand, 105 s |
| `JobsSettleExpired` | *violation*: see finding 1 | |

### Bounds

Every bound is a constant of its module. Why the cases that matter occur:

- Jobs: two jobs in one tick are what lets the second go stale behind the first;
  a poller and a trigger are the two ways of claiming; one crash and one store
  error at any point cover every single fault; `MaxAttempts = 2` has a repeated
  callback. More of each only adds independent copies, and the safety properties
  are proved for any number. For liveness, two jobs and a limit of one are what lets a
  row wait behind another one. `JobSymmetry` permutes jobs, of which the
  specification picks none out: the order of creation is a variable.
- Audit: three rows give a head, a middle and a tail to lose; two writers can
  fork; one failure leaves a gap in the ids; `NoFork` and `DamageDetected` are
  proved for any number, and for either kind of lock.
- Anchors: two days, one anchor, one lost or edited row, at every point of a
  verification; three rows exercise the odd level of the Merkle tree. More damages and
  sessions older than the heads are covered by the theorems, which hold for any
  number of either.
- Agent runs: two calls in one turn are what carries `deployment_authorized` and
  the file count over; two turns reach the turn limit. In the tree, four agents and a
  depth limit of two: the table has chains of four, which only the limit cuts, and
  cycles of two and of three, which only the chain shows.
- Migrations: three files allow a gap; the branch without file 2 is what makes a
  pending file late; two lost locks let two runners act without one.
- Requests: two are what it takes to share an envelope, a key or a grant; two
  connections and a third client exhaust the pool; the clock passes the expiry of
  the nonce and of one grant and not of the other; one fault at any point.
- Verification: one job, in turn of each of seven kinds (`MCSpecs`: a hash, a rubric
  with its hash, with another's or without, a text, the page alone, at a URL or
  inline), and one agent run share the browser count;
  one publication separates any two fetches; two faults let an apology fail after
  the POST did, or a browser fail to open and then to close. `PassIsEarned` and
  `VerdictsAgree` speak of one job at a time.
- Tools: two jobs share the probe, two calls are a post and its retry, two routes
  a purge and a re-creation.
- Reports and reads: lists of three rows have ties, a row that falls out of the
  top two and groups of every shape; the amounts 1, 8 and 25 are not
  divisible by twelve on either side of a half. Four clients: two of one tenant,
  one of none, and a second id of the first with fewer scopes; instants before, at
  and after the end of a token.

### Deadlock

The job, audit and anchor models never stop: reaping, respectively verification,
is always possible. `Gateway` and `Verification` stop only when every request and
job is over, which a final stuttering action (`Finished`, `Over`) says; any other
stop is reported, so a request that waits for a slot or a lock for ever would be
found. An agent tree ends and so does a deploy, and the calls of
`Tools` and the lists of `Database` are bounded, so `AgentRun`, `AgentTree`,
`Database` and `Tools` turn the deadlock check off; `RunEnds` and `RunnersEnd` say
that agent runs and deploys end properly.

### Fairness

- Jobs: weak fairness of the steps of a job (agent runs are bounded by
  `MAX_TURNS`, HTTP calls and statements by timeouts), of reaping and claiming
  by a poller (`_genesis_auto_worker_loop` repeats `run_tick` for ever), and of
  a row that nobody beats growing old. No fairness of requests, heartbeats or
  faults. `JobsLive` assumes timely heartbeats.
- Audit: none; nothing about liveness is stated of it.
- Agents: weak fairness of the loop (LLM calls have a timeout of 120 s) and of
  the writer thread.
- Migrations: weak fairness of each runner.
- Verification: weak fairness of the steps for which a job waits for nothing
  (`LocalStep`), while no job is inside a synchronous fetch. None of the fetches,
  whose 30 seconds are those of one socket operation, so that a server that keeps
  sending is read for ever; none of the browser's or the POST's answers, nor of the
  agent run, of restarts or of the deliverable's owner. `EveryJobSettles` says what
  is left: a job that stays under way waits for its server or its browser for ever,
  or the process is stuck in a fetch.

## 5. Proofs

`tlapm` checks eight modules with proofs, for every value of the constants that
satisfies the assumptions: disjoint sets of names, bounds that are natural
numbers, amounts that are natural numbers, `Jobs`, months, categories and plans
finite, at most one legacy session, files that are numbers. The bounds on faults
are arbitrary, so any number of crashes, store errors, lost rows and lost locks is
covered. An assumption that is more than that is named below where it is used. TLC
checked every inductive invariant on the instances of section 4 before it was
proved.

**Jobs** (`GenesisJobsProofs`). `TypeCorrect`, `JobsNeverReopened`,
`JobsRunOnce`, `JobsMoveEscrowOnce`, `JobsCallbackAfterRow`.
None of these is inductive alone. `Typed` strengthens the types by what a
coroutine or a request may be about to write (`NewInv`: an outcome or a human
move, never QUEUED or RUNNING) and by where a coroutine has a current job
(`CurInv`); `NeverReopened` follows from it. `HoldInv` says that a job that can
still be claimed is held by nobody and has never run, that a waiting job has not
run and a current one has run once, and that no two coroutines hold the same
job; a claim needs QUEUED, so no second claim is possible. `MoneyInv` ties the
length of `money` to the program point: nothing has moved up to the escrow
call. `RowInv` says that a coroutine that has been through `update_job_status`
finds its row closed even if it was refused, and `PostInv` that nothing was
posted before the callback step and at most one copy per attempt in it, all with
the coroutine's `final_status`. Actions that leave the relevant variables alone
are dispatched by frame lemmas.

**Audit** (`AuditChainProofs`). `AuditTypeCorrect`, `ChainNeverForks`,
`DamageNeverMissed`, from one invariant `IInv`. `LockInv`: at most one writer of
a session is past the lock (for either value of `OneLock`, so SQLite is covered
too). `IdInv`, `LinkInv`, `PendInv`: ids are fresh, a row's predecessor is
older, and no row of the session links where the lock's holder will link.
`OriginInv`: every row in the table shares id, session and hash with a row that
`log` committed, whatever was edited in it since. `CountInv`: the head counts the
rows ever committed. The heart of `DamageNeverMissed` is a counting argument over
`SnapInv`: the rows a verification read come from those that were due, and the
head, read later, counts at least those; so equal counts mean that none is
missing, although rows and head are read in two transactions.

`IntactNeverAccused`, the converse, needs a second invariant, `WholeInv`, over the
same steps. `NextInv`: a writer that holds the lock of a session nobody damaged
has read the hash of its last committed row, and its id is above all of them.
`HeadInv`: the head describes the rows `log` committed, lost or not (unless the
first of them came before the heads). `ChainInv`: the rows of a session nobody
damaged link up. `ReadInv` carries both to the moment between the two reads of
`verify_chain`. `DamageStays` shows that a lost or edited row never comes back, so
that a session that is whole now has always been, and `LinkedAppend` that a row
behind the last one keeps a chain a chain.

`LogImplementsLedger` is the refinement of `AuditLedger`, step by step. That a set of
rows with different ids has one row at every place is a pigeonhole argument
(`PlaceTaken`), so `ById` is the only list with every row's kind at its place
(`EntriesAre`). Three lemmas say what this list does when a row is put behind all
others (`EntriesAppend`), taken out (`EntriesWithout`) or rewritten
(`EntriesRewritten`). A commit is `Record` because `NextInv` puts its id above all
ids of the session; a lost or edited row is `Damage`; every other step leaves the
rows alone and stutters.

**Anchors** (`AuditChainProofs`). `MatchNeverMistaken` and `SettledDayNeverAccused`,
from `AnchorsInv`. Two lists of different hashes with one Merkle root are the same
list: a level of the tree determines the one below it, because a last node paired
with itself is the only pair whose halves are equal, and the halving ends for two
lists at the same time. `StoreInv` says that the root of an anchor is that of its
leaves and, while nothing is damaged, that the leaves of a settled day are those
the table has. `LiveInv` follows the reads of `verify_anchor`: a row that was read
is one `log` committed, or one edited since and still the only row with its id,
and then its session is among the broken ones or still to be verified.
`DamageNeverMissed` and `IntactNeverAccused` do the rest, session by session; the
list of sessions is what a loop over the day's rows collects, each once.
`MatchMeansUnchanged` is stated of the rows that are still there at the end
(`still`): with two damages a row may be edited, read, and then lost before its
session is verified, and the match is then reported beside an edited row among
those that were read. Of its rows it says something only when the verification was
told the day's sessions (`listed`): otherwise `_sessions_on` answered `[]`, nothing
was verified, and a match vouches for the list of hashes alone. `SettledDayVerifies` asks (`calm`) that nothing was appended
to a session during its verification, or ever to one older than the heads.

**Migrations** (`MigrationRunnerProofs`). `MigrateTypeCorrect`,
`MigrationsApplyOnce`, `MigrationsInOrder`. `Recorded` ties the ledger to the
schema. For the order there are two reasons, either of which is enough. `Shared`,
when all who started deploy the same files: what is applied has no gap before it,
and every file of a runner at work is pending or applied, so a runner that fell
behind meets the ledger's key and stops, with no help from the lock. `Alone`,
when no lock was lost: the runner at work holds the lock, and everything applied
comes before its pending files. `Regress` shows that neither condition comes back
once it is gone, so each may be assumed of the whole past.
`LineEndsNeverRefused` rests on `Provenance`: what the ledger records of a file is
some starter's copy of it. When all who started have the runner's files up to line
ends, that copy differs from the runner's in its line ends at most, for which
`reconcile` keeps two checksums, and nothing is recorded that the runner lacks or
that comes after a pending file of its own.

**Requests** (`GatewayProofs`). Two invariants, because a handler and the
transaction it waits for move separately. `UseInv`, for `TokensUsedOnce` and
`SlotsNeverLeak`: a transaction past its INSERT is alone with the key of its
token (`NewRows`), what a transaction has swept is past its expiry for good
(`SweptExpired`, since `seen` is never ahead of the clock), so a token that was
accepted has its row or is out of date (`Remembered`); what is accepted after its
expiry the theorem does not count, and this code may accept it again. And the slots that are
free, held by others and held by a transaction are `Cap` together (`SlotInv`).
`HandlerInv`, for `KeysNameOneJob` and `ReservationsAccounted`: the route a
request is on at each place, the row it may have there (`RowInv`), the row its
answer names (`KeyInv`), and where its reservation is (`ReservationInv`). The
proof classifies every step of a handler by its effect (`Effect`: moves only,
reserves, decides, loses an answer, finds, inserts, dispatches) once, and each
conjunct is shown for the classes. Assumption `GatewayAssumption`: a body sent
to `/jobs/submit` brings its escrow along or has none; the code has no branch
there that reserves one (`main.py:2395`).

**Verification** (`VerificationProofs`). `JobInv`, for `PassesAreEarned` and
`MarketplaceAgrees`: what each track has found at each place and from which
version of the deliverable (`TrackOk`), that a pass which was decided is earned
(`VerdictOk`: what was asked for decides, the page only what was not asked for, or
what came half, a rubric without its hash), and how many verdicts the marketplace may have at each place and
what the row says beside them (`CallbackOk`). `BridgeAll`, for `NoSessionLeft`:
a run that no longer uses its bridge holds nothing, and one that is over cleared
the vault; nothing is claimed of runs that were barred or died. `NoBrowserForgotten` is a
counting argument: a browser held without a page, by a run that is not just
opening one, stands for a strike that is still to be used up (`BrowserInv`).

**Agents** (`AgentLoopProofs`). `LoopInv` ties the stack to the runs: every run but
the top one waits for a child (`PlacesOk`), the runs of the stack are different and
under way (`RunsOk`), a successful call in a trace has its event in the chain
(`EvidenceOk`). From it follow `DelegationNeverReturns`, `NoSilentEffect`,
`SuccessLeavesEvidence` and, with `FrameOk`, which says that an
authorization is kept only by an agent that may deploy, `GrantsDeployOnce`; all for
arbitrary policy tables. A step has one of four effects on the stack (`Stays`,
`Settles`, `Leaves`, `Grows`), and each conjunct is shown for these four.
Assumption `HumanOnlyAssumption`: no tool reserved for humans is a deployment
tool, as in the tables of `tool_policy.py`.
`SessionRowsTell` needs `OutcomeOnItsWay`: the end of a run is its last write in
the queue, or it is in the row. `LoopTyped` is the type invariant of the runs.

**Workspaces and posts** (`ToolsProofs`). `CommandsEndWithTheirCalls` is
inductive with its types (`BoxInv`): a boxed or bare process and a code file belong to the call
that is at its place, whichever way the call ends. `PostsPaidFor` from `LedgerInv`: a key in the file
stands for one of its posts, the key being posted is not in the file, and every
other post was unheard of or its record is counted in `amnesia`; without a
directory there is no file. The two compose because a purge is the only step of
the sandbox that touches the file. Assumption `XeroKeys`: an idempotency key is the
operation with its run, as `_idempotency_key` joins them.

**Ownership** (`ToolsProofs`). `WhoReadsJobs`, of `ReadsSpec`, the reads without
the reports that the run explores beside them, as `ReportsSpec` is the reports and
`Spec` of `MigrationRunner` the deploys alone. `ReadsInv`: the owner columns of
a row are those of the principal it was made for, unless a run without a row came
between, and then they are NULL; and every token is a client's. Assumption
`ClientsAssumption`: a client's identity is not empty and is not the one reserved
for the shared secrets, without which a registry entry named `legacy:gateway`
would open their rows.

**Retrieval** (`ToolsProofs`). `RetrievalAnswers`. `Rank` is the place of a row when
the rows are put in a strict order; different rows have different places, so by a
pigeonhole argument each place is taken (`RankTaken`), and what `Listed` returns is
every row once, in order (`VaultAnswers`, `KeepIs`). `OnePer` is the invariant of
both deduplication loops: one row for each key seen so far, and none that was seen
beats it; `AllRounds` carries it through any list of rows. `RowsAssumption` is what
the code says of a row: numbers to sort by, and a class that is canonical or the
controller's.

**Reports** (`ToolsProofs`). `ReportsAgree`, of `ReportsSpec`. What a sum over a
finite set is does not depend on the order in which it is taken (`AnyFirst`, by
induction on the size of its subsets), so a sum is one of its terms and the rest
(`SumSplit`), and grows with a term (`SumChange`). `StatementOk` is the invariant
of the loop over the transactions: the totals are the sums over the rows so far,
categories add up to the expenses, the months that have been met to the profit,
and among the items there are, for every amount, as many larger ones as among the
expenses. `TopIsLargest` is then about the sorted list alone. `RevenueOk` is that
of the loop over the subscriptions: each counted once, plans add up, and twelve
months exceed the year by at most eleven minor units for each active yearly
subscription (`Twelfth`). `Nearest` proves the rounding of `DivideHalfEven`, and
`ShareOfAll` that the churn is a share of the whole.

**Loops** (`FoldFacts`). The library states folds by recursive functions and
induction by theorems about an operator, which no prover here can instantiate. The
body of the loop and its start are therefore CONSTANTS of `FoldFacts`, instantiated
once for each loop of the code, and `FoldTrace` says that the loop's result is the
last of a list of values each of which is one round after the one before; induction
is stated of sets of numbers (`Induction`).

`AuditTypeCorrect` and `MigrateTypeCorrect` hold for every instance and are not
repeated in a run. `Invariance`, `JobSafety`, `BridgeSafety`, `LoopSafety` and
`SessionsSafety` are the inductive invariants themselves, `WholeSafety` too.

Only model-checked: liveness (`RunningResolved`, `QueuedResolved`, `WebhookFired`,
`RunEnds`, `RunnersEnd`, `EveryJobSettles`), because the prover has no rule for
fairness. Every invariant and action property that a passing run checks is stated
by a theorem.

## 6. Findings

1. `JobsSettleExpired`. `process_job` ignores the False that
   `update_job_status` returns for a refused transition and completes the
   escrow of a job the reaper has written off. No race is needed: a tick claims
   several jobs and runs them one by one, and the waiting ones have no
   heartbeat. `job_store.py:226` names this as what the refusal is there to
   prevent.

The following disagreements with comments, docstrings or tests of the repository
came up on the way. Those with state were counterexamples of TLC on variants of
the runs above, the others were seen while translating; they are recorded here
and not kept as runs. Jobs, audit, agents:

- `update_job_status` writes by id what it decided from an earlier SELECT, so
  EXPIRED can be overwritten by DELIVERED (against `job_store.py:223` and
  `tests/test_failure_modes.py:222`), and the event log then has two events out
  of RUNNING (`tests/test_postgres_stores.py:600`).
- After a refused transition the callback still carries the local
  `final_status` (against `worker.py:280-283`).
- A job disputed while it runs is overwritten by the worker and its escrow
  settled (against `main.py:2725-2727`); an escrow of the marketplace submitted
  without a webhook is settled by the worker (against `main.py:2069-2071`).
- A store error in `hb_loop` is re-raised by `await hb_task` and skips the
  callback (against `main.py:2399-2401`).
- An append between the two reads of `verify_chain` makes an intact session
  TRUNCATED (against `005_genesis_audit_chain_heads.sql:18`).
- A row dated before midnight can commit after its day was anchored, so a second
  anchor differs without damage (against `anchor_logger.py:325`).
- `update_job_status` can commit DELIVERED and raise, when the answer of the commit
  is lost: the `except` clause of `process_job` then writes FAILED, which is refused,
  releases the escrow of a delivered job and calls back FAILED (`worker.py:244-271`).
- `anchor_logger.py:450-453` says "Unverifiable is not verified" and that naming
  every session makes `verify_anchor` "fail closed"; the names come from
  `_sessions_on`, which answers `[]` when the file cannot be opened (420-422), and a
  day with an edited row is then reported as a match. So it is when the log connects
  and only the list cannot be read.
- `agent_runtime.py:236-242` and `genesis_call_tool.py:155-156` ("a genuinely smaller
  ceiling") call the delegation budget enforced. What a child inherits only becomes
  `max_tokens` of each single LLM call, so nothing bounds what a child, or the tree,
  spends; a child that ends on an early return reports no usage and is not charged;
  the ceiling in cents is never charged at all.
- A run refused for a stored buyer session leaves its session row ACTIVE
  (against `agent_runtime.py:564`).
- The first append to a session that has rows from before migration 005 creates
  a head with count 1 (`audit.py:323`); from then on the session fails
  `verify_chain` (against `005_genesis_audit_chain_heads.sql:30` and
  `audit.py:605`).
- A call that `check_tool_policy` or the inherited risks refuse runs all the same
  unless it is of the deployment class: lines 853-888 of `agent_runtime.py` only
  assign `tool_result`, and the second `if` at 889 does not look at it (against
  `tool_policy.py:423`).
- With different checkouts and a lock lost between its check and the commit,
  migrations can be applied out of order (against `migrations/runner.py:34`).

Requests and verification:

- `evaluate_negotiation` says it accepts by default (`main.py:2991`); without an
  answer of the router it rejects.
- A lost answer of `initiate_escrow`, an answer that is ok and has no id
  (`escrow_client.py:62-65`), or a crash before the insert, leaves a reservation that
  nothing in the gateway settles or releases.
- When building the answer raises after the escrow was settled (a result that is not
  JSON), the router persona answers for a run that was paid
  (`main.py:2311-2348`), or its failure answers 5xx.
- An idempotency key is global, not per tenant: whoever repeats it is answered with
  the other's job id (and cannot read the job).
- A nonce or grant whose caller waited for a connection past its expiry can be
  accepted a second time, because its row may be swept by then; `OnceWhileValid`
  counts acceptances of valid tokens.
- `run_verification` says its exceptions are never surfaced; the import, the
  launch and the close surface theirs.
- After a passed track 1 a failed track 2 does not matter: the result is PASSED.
- A rubric without its hash, or a hash without its rubric, is skipped
  (`conduit_verifier.py:248`), and the page decides, though track 2 is documented as
  pre-committed by the buyer (`verification_models.py:50-57`).
- `timeoutSeconds` ("Max seconds the verification job may run before TIMEOUT",
  `verification_models.py:39-44`) is read by nobody; a server that keeps sending holds
  the row at running, and in a fetch the whole event loop.
- `conduit_sessions.py:6-7` says that sessions are deleted after job completion. A job
  of an unknown slug, or of a specialist whose entity pack cannot be loaded, completes
  with its session on disk, and so does one whose process died.
- When the POST of a verdict raises, the plain row keeps a passing result beside
  the status failed; the arbitrage row is overwritten.
- `conduit_browser.py:89` says a second Chromium is never launched; after
  `new_page` failed the next call launches one over the first. When `route()`
  fails instead, the page stays in use without its guard.

Tools, ownership, retrieval:

- Two threads may both probe bwrap ("probe once"), and the later result wins.
- A purge is impossible after a restart, because the registry is in memory; a
  purged directory is created again by the next command; a workspace that is
  registered and purged is not created again by the next agent, and the record
  of a Xero post then fails silently.
- `run_in_sandbox` "never raises", but its `mkdir` can. `run_code` leaves its file
  behind when writing it fails, and what the code itself started when it ends or
  times out; when the gateway dies the code runs on.
- A damaged idempotency file raises after the post has been made (only `OSError`
  is caught); an answer lost after the post lets a retry post again; of the
  VerifyAPI run only the form of its id is checked.
- A yearly subscription enters the monthly figure with the first of its twelve
  parts, so twelve times the monthly figure may exceed the yearly one.
- A child of a synchronous run finds no parent row and is created without an owner
  (against `job_store.py:130`); a client without a tenant receives a
  continuation token that never verifies.
- `retrieval_route.py:22-25` says the backbone is asked only when
  `requesting_principal` is given; the code asks it for the signing principal and
  never uses that field.
- The score threshold comes after precedence, so a canonical copy that scores too
  low hides a controller copy that scores well. A failing vault index answers
  "degraded" without asking the backbone.
- `knowledge_backbone_store.query_chunks` raises whenever it is called today; the
  model lets it answer, as its contract says.

`InOrder`, `WebhookFired`, `MatchMeansUnchanged`, `SettledDayVerifies`,
`IntactAccepted`, `SessionTellsOutcome`, `OnceWhileValid`, `ReservationAccounted`,
`PassIsEarned`, `VerdictsAgree`, `SessionsCleared`, `BrowsersAccounted`,
`EveryJobSettles`, `NothingLeftBehind`, `PostsAccounted` and `JobsReadByOwner` are
stated with the
exceptions these observations force.

## 7. Not modelled

- Signatures, hashes and encryption: a signature is one the signer made, a hash
  is what it hashes.
- The binding of an envelope to method, path and body is a test whose outcome is
  arbitrary; so are policy texts, prompt assembly and the choice among models.
- `proof_bridge.py`, `artifact_store.py`: best-effort uploads and signed exports
  whose failures change no state of the parts above. Relationship, tool-event and
  artifact records of `durable_store.py` are written and not read by anything
  that decides.
- `accounting/router.py`, `runtime_context.py`, bundles and capability cards: text
  heuristics and static data.
- The other tools (web, mail, domains, vision, code format, data pipeline,
  workflow, HR): formatting and calls to outside services without state of their
  own. `AgentLoop` takes their answers as arbitrary.
- `runtime/anthropic_wire.py`, tracing and observability: translation of wire
  formats and logging.
- `eval/`, `testing/`, `scripts/`: offline harnesses that drive the gateway from
  outside.

Inside the modelled parts, texts, formatting, logging and the wording of errors
are abstracted, and amounts everywhere but in the money reports; the Postgres and
SQLite engines are taken to be correct at the isolation level the code asks for.
