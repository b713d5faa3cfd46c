----------------------------- MODULE AgentLoop -----------------------------
(***************************************************************************)
(* One call of AgentRuntime.execute_agent and the agents it delegates to   *)
(* (agent_runtime.py, tools/genesis_call_tool.py): turns, tool dispatch,   *)
(* the audit rows around a tool call and the durable session row.          *)
(*                                                                         *)
(* genesis_call runs the child inline, so the runs of a tree form a stack  *)
(* and only the top one moves; durable_store's single background thread    *)
(* moves beside it.  An action goes from one await to the next.            *)
(***************************************************************************)
EXTENDS Naturals, Sequences, FiniteSets

CONSTANTS
    Agents,         \* slugs with a bundle
    Tools,          \* registered tool names
    Risk,           \* TOOL_RISK_BY_NAME
    Prohibited,     \* pairs <<agent, tool>> for which is_prohibited holds
    HumanOnly,      \* HUMAN_ONLY_TOOLS
    Allowed,        \* SLUG_ALLOWED_RISKS
    Advertised,     \* per agent, its bundle's tools_advertised
    Specialists,    \* agents whose bundle is enriched with an entity pack
    Targets,        \* DELEGATION_TARGETS
    NoAgent,        \* the target of a call that is not genesis_call
    MaxDepth,       \* MAX_DELEGATION_DEPTH
    MaxTurns,       \* MAX_TURNS
    MaxCalls,       \* MAX_LLM_CALLS
    MaxTokens,      \* MAX_TOKENS_PER_JOB
    MaxFiles,       \* MAX_FILES_WRITTEN
    MaxRuns, MaxAsked, MaxUsage, MaxFaults   \* bounds on the environment

RunIds == 1 .. MaxRuns
Root == 1
Risks == {Risk[t] : t \in Tools}
Call == [tool : Tools \ {"genesis_call"}, target : {NoAgent}]
            \cup [tool : Tools \cap {"genesis_call"}, target : Agents]

ASSUME TablesAssumption ==
    /\ Risk \in [Tools -> STRING]
    /\ Prohibited \subseteq Agents \X Tools /\ HumanOnly \subseteq Tools
    /\ Allowed \in [Agents -> SUBSET STRING]
    /\ Advertised \in [Agents -> SUBSET Tools]
    /\ Specialists \subseteq Agents
    /\ Targets \in [Agents -> SUBSET Agents]
    /\ NoAgent \notin Agents

\* send_email is the only human-only tool and its risk is network.
ASSUME HumanOnlyAssumption == \A t \in HumanOnly : Risk[t] # "deployment"

ASSUME LimitsAssumption ==
    /\ MaxDepth \in Nat /\ MaxTurns \in Nat /\ MaxCalls \in Nat
    /\ MaxTokens \in Nat /\ MaxFiles \in Nat
    /\ MaxRuns \in Nat \ {0} /\ MaxAsked \in Nat \ {0}
    /\ MaxUsage \in Nat /\ MaxFaults \in Nat

VARIABLES
    stack,      \* the runs under way, the root first: the locals of each
    runs,       \* how many runs were started
    who,        \* history: the agent of each run
    result,     \* what execute_agent returned ("rejected": before its loop) or raised
    tally,      \* audit rows of each run's session, and what its calls did
    grant,      \* the request's action grant: "none", "unused" or "spent"
    deploys,    \* history: deployment tools run
    vault,      \* a buyer session is stored for the root job
    sessions,   \* genesis_agent_sessions.status
    writes,     \* the queue of durable_store's writer thread
    lost,       \* history: runs of which a durable write failed
    faults      \* what is left of MaxFaults

loopVars == <<stack, runs, who, result, tally, grant, deploys, vault>>
vars == <<loopVars, sessions, writes, lost, faults>>

NoTally == [intents |-> 0, effects |-> 0, events |-> 0]

Init ==
    /\ stack = <<>> /\ runs = 0
    /\ who = [r \in RunIds |-> NoAgent]
    /\ result = [r \in RunIds |-> "none"]
    /\ tally = [r \in RunIds |-> NoTally]
    /\ grant \in {"none", "unused"} /\ deploys = 0
    /\ vault \in BOOLEAN
    /\ sessions = [r \in RunIds |-> "NONE"]
    /\ writes = <<>> /\ lost = {}
    /\ faults = MaxFaults

-----------------------------------------------------------------------------
Top == stack[Len(stack)]
At(label) == stack # <<>> /\ Top.pc = label
Put(f) == [stack EXCEPT ![Len(stack)] = f]

\* A call of execute_agent up to its first look at the bundle.  Its token_budget is
\* left out: it becomes the max_tokens of each LLM call, and no test reads it.
NewRun(a, chain, depth, risks) ==
    [run |-> runs + 1, agent |-> a, chain |-> chain, depth |-> depth,
     risks |-> risks, pc |-> "enter",
     turn |-> 0, calls |-> 0, tokens |-> 0, files |-> 0,
     asked |-> 0, oks |-> 0, auth |-> "unbound", tool |-> "none"]

\* The worker or run_agent calls execute_agent.
Start(a) ==
    /\ runs = 0
    /\ runs' = 1
    /\ who' = [who EXCEPT ![Root] = a]
    /\ stack' = <<NewRun(a, {}, 0, Risks)>>
    /\ UNCHANGED <<result, tally, grant, deploys, vault, sessions, writes, lost, faults>>

\* The end of a tool call: its record joins the trace and the next one is up.
Recorded(f, ok) ==
    [f EXCEPT !.asked = @ - 1, !.oks = IF ok THEN @ + 1 ELSE @, !.tool = "none",
              !.pc = IF f.asked = 1 THEN "loop" ELSE "tools"]

\* append_tool_event after an executed call, and the record: a failed append
\* turns the result into a failure.
Audited(f, ok, logged) ==
    /\ logged \/ faults > 0
    /\ faults' = IF logged THEN faults ELSE faults - 1
    /\ tally' = [tally EXCEPT ![f.run].events = IF ok /\ logged THEN @ + 1 ELSE @]

-----------------------------------------------------------------------------
(* Leaving a run                                                           *)

\* mutant: the parent is not resumed.
ResumeNever(parent, ok) == parent

Resume(parent, ok) == Recorded(parent, ok)

\* execute_agent returns or raises in run f.  The root's caller gets the
\* outcome; a parent's tool call that waited for it ends: with ok = True
\* whatever the child's own outcome, unless the child raised.
Leave(f, outcome) ==
    /\ result' = [result EXCEPT ![f.run] = outcome]
    /\ \/ /\ Len(stack) = 1
          /\ stack' = <<>>
          /\ UNCHANGED <<tally, faults>>
       \/ /\ Len(stack) > 1
          /\ \E logged \in BOOLEAN :
                LET parent == stack[Len(stack) - 1]
                    ok == outcome # "raised" /\ logged
                IN  /\ Audited(parent, outcome # "raised", logged)
                    /\ stack' = Append(SubSeq(stack, 1, Len(stack) - 2), Resume(parent, ok))
    /\ UNCHANGED <<runs, who, grant, deploys, sessions, lost>>

\* session_finish in the finally clause.
Finish(f, outcome) ==
    writes' = Append(writes, <<f.run, IF outcome = "ok" THEN "COMPLETED" ELSE "FAILED">>)

\* _run_loop returns or raises: the finally clause ends the session and removes
\* the buyer session of the job.
EndLoop(f, outcome) ==
    /\ Leave(f, outcome)
    /\ Finish(f, outcome)
    /\ vault' = (vault /\ f.run # Root)

-----------------------------------------------------------------------------
(* Entering a run                                                          *)

\* accounting_entity_load_failed, before the session row is written.
EntityLoadFails ==
    /\ At("enter") /\ Top.agent \in Specialists
    /\ Leave(Top, "rejected")
    /\ UNCHANGED <<vault, writes>>

\* buyer_session_injection_unsupported: a return between session_create and the
\* try whose finally clause ends the session.
RefuseBuyerSession ==
    /\ At("enter") /\ Top.run = Root /\ vault /\ "conduit" \in Advertised[Top.agent]
    /\ Leave(Top, "rejected")
    /\ writes' = Append(writes, <<Top.run, "ACTIVE">>)
    /\ vault' = FALSE

\* session_create and the way into _run_loop.  A stored buyer session may be
\* unreadable; the run goes on without it.
EnterLoop ==
    /\ At("enter")
    /\ stack' = Put([Top EXCEPT !.pc = "loop"])
    /\ writes' = Append(writes, <<Top.run, "ACTIVE">>)
    /\ UNCHANGED <<runs, who, result, tally, grant, deploys, vault, sessions, lost, faults>>

-----------------------------------------------------------------------------
(* Turns                                                                   *)

\* The while condition fails: max_turns_reached.
TurnsUsed ==
    /\ At("loop") /\ Top.turn >= MaxTurns
    /\ EndLoop(Top, "failed")

\* timeout, or llm_call_limit_exceeded.
TurnRefused ==
    /\ At("loop") /\ Top.turn < MaxTurns
    /\ EndLoop([Top EXCEPT !.turn = @ + 1], "failed")

CallLlm ==
    /\ At("loop") /\ Top.turn < MaxTurns /\ Top.calls < MaxCalls
    /\ stack' = Put([Top EXCEPT !.pc = "llm", !.turn = @ + 1])
    /\ UNCHANGED <<runs, who, result, tally, grant, deploys, vault, sessions, writes,
                   lost, faults>>

\* Every candidate model failed: llm_call_failed.
LlmFails ==
    /\ At("llm")
    /\ EndLoop(Top, "failed")

Answered(t) == [Top EXCEPT !.calls = @ + 1, !.tokens = @ + t]

\* token_budget_exceeded, or an answer without choices.
AnswerRefused(t) ==
    /\ At("llm")
    /\ EndLoop(Answered(t), "failed")

\* An answer of another shape raises where it is used: choices[0].get, tc.get,
\* args.items.  (An intent row that a call with such arguments leaves behind is
\* not counted.)
AnswerMalformed(t) ==
    \/ At("llm") /\ EndLoop(Answered(t), "raised")
    \/ At("tools") /\ t = 0 /\ EndLoop(Top, "raised")

AsksForTools(t, n) ==
    /\ At("llm") /\ Answered(t).tokens <= MaxTokens
    /\ stack' = Put([Answered(t) EXCEPT !.pc = "tools", !.asked = n])
    /\ UNCHANGED <<runs, who, result, tally, grant, deploys, vault, sessions, writes,
                   lost, faults>>

\* mutant: the evidence is not required of agents with tools.
CriteriaShapeOnly(f, met) == met

\* _check_success_criteria with the bundle's own criteria met or not: an agent
\* that advertises tools needs one successful tool call as well.
CriteriaMet(f, met) == met /\ (Advertised[f.agent] # {} => f.oks > 0)

FinalAnswer(t, met) ==
    /\ At("llm") /\ Answered(t).tokens <= MaxTokens
    /\ EndLoop(Answered(t), IF CriteriaMet(Top, met) THEN "ok" ELSE "failed")

-----------------------------------------------------------------------------
(* Tool dispatch                                                           *)

PolicyOk(a, t) == t \notin HumanOnly /\ Risk[t] \in Allowed[a]

\* Refused by check_tool_policy, or a delegation_privilege_escalation.
Denied(f, t) == ~PolicyOk(f.agent, t) \/ Risk[t] \notin f.risks

\* The call is neither prohibited nor tool_not_allowed.
Dispatched(f, t) == <<f.agent, t>> \notin Prohibited /\ t \in Advertised[f.agent]

Skip(f) ==
    /\ stack' = Put(Recorded(f, FALSE))
    /\ UNCHANGED <<runs, who, result, deploys, vault, sessions, writes, lost>>

\* Prohibited, or tool_not_allowed.
RefuseCall(c) ==
    /\ At("tools") /\ ~Dispatched(Top, c.tool)
    /\ Skip(Top)
    /\ UNCHANGED <<tally, grant, faults>>

\* mutant: a grant stays valid once it was used.
ConsumeAgain(f, auth) ==
    /\ auth \in {"yes", "no"}
    /\ auth = "yes" => f.run = Root /\ grant # "none"
    /\ grant' = IF auth = "yes" THEN "spent" ELSE grant

\* consume_action_grant: the grant may be bound to other arguments or expired
\* and the store may be down.  A child's params carry no grant.
ConsumeGrant(f, auth) ==
    /\ auth \in {"yes", "no"}
    /\ auth = "yes" => f.run = Root /\ grant = "unused"
    /\ grant' = IF auth = "yes" THEN "spent" ELSE grant

\* The chain of tests that ends with deployment_authorized.  A denied call
\* leaves that variable as it was: unbound, or what an earlier call made it.
Authorize(f, t, auth) ==
    IF ~Denied(f, t) /\ Risk[t] = "deployment"
    THEN ConsumeGrant(f, auth)
    ELSE auth = f.auth /\ UNCHANGED grant

\* A denied deployment call reads deployment_authorized before it is bound: the
\* UnboundLocalError leaves _run_loop.
ReadUnbound(c) ==
    /\ At("tools") /\ Dispatched(Top, c.tool)
    /\ Denied(Top, c.tool) /\ Risk[c.tool] = "deployment" /\ Top.auth = "unbound"
    /\ EndLoop(Top, "raised")

Blocked(t, auth) == Risk[t] = "deployment" /\ auth = "no"

\* mutant: one file too many.
OverQuotaByOne(f, t) == t = "file_write" /\ f.files > MaxFiles

OverQuota(f, t) == t = "file_write" /\ f.files >= MaxFiles

\* The call gets past the authorization.
Cleared(t, auth) == Risk[t] = "deployment" => auth = "yes"

\* deployment_approval_required, or file_write_limit_exceeded.
BlockCall(c, auth) ==
    /\ At("tools") /\ Dispatched(Top, c.tool)
    /\ Authorize(Top, c.tool, auth)
    /\ Blocked(c.tool, auth) \/ (Cleared(c.tool, auth) /\ OverQuota(Top, c.tool))
    /\ Skip([Top EXCEPT !.auth = auth])
    /\ UNCHANGED <<tally, faults>>

\* Every test is passed.  The call may have been denied: the chain of tests
\* only sets tool_result, which the call overwrites.
Runs(f, c, auth) ==
    /\ Dispatched(f, c.tool)
    /\ Authorize(f, c.tool, auth)
    /\ Cleared(c.tool, auth) /\ ~OverQuota(f, c.tool)

\* audit_preflight_failed.
PreflightFails(c, auth) ==
    /\ At("tools") /\ Risk[c.tool] # "read_only"
    /\ Runs(Top, c, auth)
    /\ faults > 0 /\ faults' = faults - 1
    /\ Skip([Top EXCEPT !.auth = auth])
    /\ UNCHANGED tally

\* mutant: only deployments are announced.
AnnounceDeployment(t, row) ==
    [row EXCEPT !.intents = IF Risk[t] = "deployment" THEN @ + 1 ELSE @]

\* append_tool_intent, before a tool that is not read-only.
Announce(t, row) ==
    [row EXCEPT !.intents = IF Risk[t] # "read_only" THEN @ + 1 ELSE @]

Ran(t, row) ==
    [row EXCEPT !.effects = IF Risk[t] # "read_only" THEN @ + 1 ELSE @]

\* The tool is called; the loop waits for it.
RunTool(c, auth) ==
    /\ At("tools") /\ c.tool # "genesis_call"
    /\ Runs(Top, c, auth)
    /\ tally' = [tally EXCEPT ![Top.run] = Ran(c.tool, Announce(c.tool, @))]
    /\ deploys' = IF Risk[c.tool] = "deployment" THEN deploys + 1 ELSE deploys
    /\ stack' = Put([Top EXCEPT !.auth = auth, !.tool = c.tool, !.pc = "running"])
    /\ UNCHANGED <<runs, who, result, vault, sessions, writes, lost, faults>>

\* The tool returned or raised.
ToolReturns(ok, logged) ==
    /\ At("running")
    /\ Audited(Top, ok, logged)
    /\ LET f == [Top EXCEPT !.files = IF ok /\ Top.tool = "file_write" THEN @ + 1 ELSE @]
       IN  stack' = Put(Recorded(f, ok /\ logged))
    /\ UNCHANGED <<runs, who, result, grant, deploys, vault, sessions, writes, lost>>

-----------------------------------------------------------------------------
(* genesis_call                                                            *)


\* mutant: only the parent itself is refused as a target.
MayCallParentOnly(f, a) == a \in Targets[f.agent] /\ f.depth < MaxDepth /\ a # f.agent

MayCall(f, a) ==
    /\ a \in Targets[f.agent]
    /\ f.depth < MaxDepth
    /\ a \notin f.chain \cup {f.agent}

\* The intent of the call, common to both outcomes.
CallsAgent(c, auth) ==
    /\ At("tools") /\ c.tool = "genesis_call"
    /\ Runs(Top, c, auth)

\* delegation_target_not_allowed, _depth_exceeded or _cycle_detected: the tool
\* has run and its event is logged.
CallRefused(c, auth, logged) ==
    /\ CallsAgent(c, auth) /\ ~MayCall(Top, c.target)
    /\ logged \/ faults > 0
    /\ faults' = IF logged THEN faults ELSE faults - 1
    /\ tally' = [tally EXCEPT ![Top.run] = Ran(c.tool, Announce(c.tool, @))]
    /\ Skip([Top EXCEPT !.auth = auth])

CallAgent(c, auth) ==
    /\ CallsAgent(c, auth) /\ MayCall(Top, c.target)
    /\ runs < MaxRuns
    /\ runs' = runs + 1
    /\ who' = [who EXCEPT ![runs + 1] = c.target]
    /\ tally' = [tally EXCEPT ![Top.run] = Ran(c.tool, Announce(c.tool, @))]
    /\ stack' = Append(Put([Top EXCEPT !.auth = auth, !.tool = c.tool, !.pc = "child"]),
                       NewRun(c.target, Top.chain \cup {Top.agent}, Top.depth + 1,
                              Allowed[Top.agent]))
    /\ UNCHANGED <<result, deploys, vault, sessions, writes, lost, faults>>

-----------------------------------------------------------------------------
(* durable_store: one background thread takes the writes in order.         *)

\* session_create inserts unless the row exists; session_finish updates it.
Written(r, status) ==
    [sessions EXCEPT ![r] =
        IF status = "ACTIVE" THEN (IF @ = "NONE" THEN "ACTIVE" ELSE @)
        ELSE (IF @ = "NONE" THEN @ ELSE status)]

\* mutant: the newest write is taken first.
TakeNewest(w) == <<w[Len(w)], SubSeq(w, 1, Len(w) - 1)>>

\* The executor's queue is first in, first out.
Take(w) == <<Head(w), Tail(w)>>

WriteSession ==
    /\ writes # <<>>
    /\ LET next == Take(writes)
       IN  /\ writes' = next[2]
           /\ sessions' = Written(next[1][1], next[1][2])
    /\ UNCHANGED <<loopVars, lost, faults>>

\* The database refuses a write: it is logged and dropped.
WriteFails ==
    /\ writes # <<>> /\ faults > 0
    /\ LET next == Take(writes)
       IN  writes' = next[2] /\ lost' = lost \cup {next[1][1]}
    /\ faults' = faults - 1
    /\ UNCHANGED <<loopVars, sessions>>

-----------------------------------------------------------------------------
Auths == {"unbound", "yes", "no"}

Dispatch ==
    \E c \in Call :
        \/ RefuseCall(c)
        \/ ReadUnbound(c)
        \/ \E auth \in Auths :
              \/ BlockCall(c, auth)
              \/ PreflightFails(c, auth)
              \/ RunTool(c, auth)
              \/ CallAgent(c, auth)
              \/ \E logged \in BOOLEAN : CallRefused(c, auth, logged)

Step ==
    \/ EntityLoadFails \/ RefuseBuyerSession \/ EnterLoop
    \/ TurnsUsed \/ TurnRefused \/ CallLlm \/ LlmFails
    \/ \E t \in 0 .. MaxUsage :
          \/ AnswerRefused(t)
          \/ AnswerMalformed(t)
          \/ \E n \in 1 .. MaxAsked : AsksForTools(t, n)
          \/ \E met \in BOOLEAN : FinalAnswer(t, met)
    \/ Dispatch
    \/ \E ok, logged \in BOOLEAN : ToolReturns(ok, logged)

Write == WriteSession \/ WriteFails

Next == (\E a \in Agents : Start(a)) \/ Step \/ Write

Spec == Init /\ [][Next]_vars

\* LLM calls have a timeout of 120 s and tools end; the writer thread runs
\* beside the loop.
FairSpec == Spec /\ WF_vars(Step) /\ WF_vars(Write)

-----------------------------------------------------------------------------
Frame ==
    [run : RunIds, agent : Agents, chain : SUBSET Agents, depth : 0 .. MaxDepth,
     risks : SUBSET STRING,
     pc : {"enter", "loop", "llm", "tools", "running", "child"},
     turn : 0 .. MaxTurns, calls : Nat, tokens : 0 .. MaxTokens, files : 0 .. MaxFiles,
     asked : Nat, oks : Nat, auth : Auths, tool : Tools \cup {"none"}]

Status == {"ACTIVE", "COMPLETED", "FAILED"}

\* Every variable has its type, and the limits of a run hold: no frame is past
\* MAX_TURNS, MAX_TOKENS_PER_JOB, MAX_FILES_WRITTEN or MAX_DELEGATION_DEPTH.
TypeOK ==
    /\ stack \in Seq(Frame) /\ runs \in 0 .. MaxRuns
    /\ who \in [RunIds -> Agents \cup {NoAgent}]
    /\ result \in [RunIds -> {"none", "ok", "failed", "raised", "rejected"}]
    /\ tally \in [RunIds -> [intents : Nat, effects : Nat, events : Nat]]
    /\ grant \in {"none", "unused", "spent"} /\ deploys \in Nat
    /\ vault \in BOOLEAN
    /\ sessions \in [RunIds -> Status \cup {"NONE"}]
    /\ writes \in Seq(RunIds \X Status) /\ lost \subseteq RunIds
    /\ faults \in 0 .. MaxFaults

\* A delegation never comes back to an agent that waits for it, whatever
\* DELEGATION_TARGETS allows: the agents on the stack are distinct, and the
\* delegation_chain each one carries names exactly its ancestors.
ChainSound ==
    \A i \in 1 .. Len(stack) :
        /\ stack[i].depth = i - 1
        /\ stack[i].chain = {stack[j].agent : j \in 1 .. i - 1}
        /\ stack[i].agent \notin stack[i].chain

\* A tool with side effects never runs unless its intent is in the audit chain
\* before, whatever appends fail.
EffectsAnnounced == \A r \in RunIds : tally[r].effects <= tally[r].intents

\* A run that ends ok for an agent with tools left a successful tool event in the
\* audit chain: a call whose audit row was lost is no evidence.
OkHasEvidence ==
    \A r \in RunIds :
        result[r] = "ok" /\ Advertised[who[r]] # {} => tally[r].events > 0

\* One grant lets one deployment tool run, once, in the run it was issued to.
DeploymentAuthorized == deploys <= (IF grant = "spent" THEN 1 ELSE 0)

\* Once the writer thread is done, the session row of a run that entered its loop
\* says how the run ended, unless one of its writes failed.
SessionTellsOutcome ==
    \A r \in RunIds :
        /\ writes = <<>> /\ r \notin lost /\ sessions[r] # "NONE"
        /\ result[r] \in {"ok", "failed", "raised"}
        => sessions[r] = IF result[r] = "ok" THEN "COMPLETED" ELSE "FAILED"

\* Every call of execute_agent ends, with all the children it waits for.
RunEnds == stack # <<>> ~> stack = <<>>
=============================================================================
