---------------------------- MODULE XeroPosting ----------------------------
(***************************************************************************)
(* tools/xero_scoped_tool.py: an accounting specialist posts to Xero       *)
(* through a bridge.  A post is tied to a VerifyAPI run, and a file in the *)
(* job's directory remembers which runs were used, so that a repeated tool *)
(* call does not post twice.  The file is read before the request and      *)
(* written after it, in a directory that a sandbox route may purge in      *)
(* between, and its errors are swallowed.                                  *)
(*                                                                         *)
(* accounting/xero_scope.py decides which agent may ask for which          *)
(* operation.  The bridge is external: it may apply a request, refuse it,  *)
(* or apply it and never be heard.                                         *)
(***************************************************************************)
EXTENDS JobWorkspace

CONSTANTS
    Runs,         \* VerifyAPI run ids of the accepted form
    Asked,        \* operations the agents ask for
    Slug,         \* Slug[j]: the agent of job j
    Dispatched    \* operations Cato allowed at dispatch (None: no list was given)

VARIABLES
    bridge,       \* XERO_MCP_BRIDGE_URL: "unset", "malformed" or "set"
    posts,        \* posts[j][k]: requests of job j under key k the bridge applied
    unheard       \* unheard[j][k]: those whose answer never arrived

xeroVars == <<bridge, posts, unheard>>

ASSUME XeroKeys == Keys = Asked \X Runs

None == {"no dispatch list"}
Unreadable == [readable |-> FALSE, keys |-> {}]

-----------------------------------------------------------------------------
(* accounting/xero_scope.py                                                *)

PrimaryAgents ==
    [create_draft_bill           |-> {"genesis-e4l-ap"},
     create_draft_invoice        |-> {"genesis-e4l-ar", "genesis-e4l-revenue", "genesis-e4l-shopify"},
     create_draft_manual_journal |-> {"genesis-e4l-journals", "genesis-e4l-intercompany",
                                      "genesis-e4l-close"},
     create_bank_transaction     |-> {"genesis-e4l-cash", "genesis-e4l-treasury", "genesis-e4l-stripe"},
     attach_file_to_bill         |-> {"genesis-e4l-ap"},
     attach_file_to_invoice      |-> {"genesis-e4l-ar"}]

WritesForbidden == {"genesis-e4l-fs-integrity"}

Specialists ==
    WritesForbidden \cup {"genesis-e4l-controller", "genesis-e4l-commissions", "genesis-e4l-cogs-cm"}
    \cup UNION {PrimaryAgents[op] : op \in DOMAIN PrimaryAgents}

\* The read scope of every operation that only reads, from the scope map.
Readers ==
    [get_trial_balance   |-> {"genesis-e4l-close", "genesis-e4l-fs-integrity", "genesis-e4l-controller",
                              "genesis-e4l-journals"},
     get_balance_sheet   |-> {"genesis-e4l-close", "genesis-e4l-fs-integrity", "genesis-e4l-controller",
                              "genesis-e4l-intercompany"},
     get_bank_summary    |-> {"genesis-e4l-cash", "genesis-e4l-treasury", "genesis-e4l-close"},
     get_profit_and_loss |-> {"genesis-e4l-revenue", "genesis-e4l-cogs-cm", "genesis-e4l-close",
                              "genesis-e4l-fs-integrity"},
     get_chart_of_accounts |-> Specialists,
     list_open_payables    |-> Specialists,
     list_open_receivables |-> Specialists]

OperationAllowed(slug, op) ==
    /\ slug \in Specialists
    /\ IF slug \in WritesForbidden THEN op \in DOMAIN Readers
       ELSE IF op \in DOMAIN PrimaryAgents THEN slug \in PrimaryAgents[op]
       ELSE op \in DOMAIN Readers /\ slug \in Readers[op]

-----------------------------------------------------------------------------
(* The idempotency file                                                    *)

IdempotencyKey(op, run) == <<op, run>>

\* An absent or unreadable file says that nothing was done yet.
CheckIdempotency(j, k) ==
    disk[j].dir /\ disk[j].file.readable /\ k \in disk[j].file.keys

\* _record_idempotency.  Without the directory, or when write_text fails before or
\* after it emptied the file, the error is swallowed and the key is not kept.
RecordIdempotency(j, k) ==
    \/ /\ disk[j].dir /\ disk[j].file.readable
       /\ disk' = [disk EXCEPT ![j].file.keys = @ \cup {k}]
       /\ UNCHANGED amnesia
    \/ /\ amnesia' = [amnesia EXCEPT ![j] = @ + 1]
       /\ \/ UNCHANGED disk
          \/ /\ disk[j].dir /\ disk[j].file.readable
             /\ disk' = [disk EXCEPT ![j].file = Unreadable]

\* The answer after it: the text of an unreadable file raises what nobody catches.
RecordAnswer(j) ==
    IF disk[j].dir /\ ~disk[j].file.readable THEN Err("tool_exception") ELSE Ok

-----------------------------------------------------------------------------
(* xero_scoped_invoke                                                      *)

\* The refusals, in the order of the code; "none" when the call goes on.  form
\* is what the model supplied: another agent's slug, a run id of the wrong form,
\* or neither.
Refusal(j, op, run, form) ==
    IF form = "other_slug" THEN "agent_slug_mismatch"
    ELSE IF form = "bad_run" THEN "verify_api_required"
    ELSE IF CheckIdempotency(j, IdempotencyKey(op, run)) THEN "duplicate_verify_api_run"
    ELSE IF Dispatched # None /\ op \notin Dispatched THEN "dispatch_scope_denied"
    ELSE IF ~OperationAllowed(Slug[j], op) THEN "scope_forbidden"
    ELSE IF bridge = "malformed" THEN "xero_bridge_url_invalid"
    ELSE "none"

\* Nothing is awaited before the request: without a bridge the call is simulated,
\* recorded and reported as done in one step.
XeroCall(j, op, run, form) ==
    LET refusal == Refusal(j, op, run, form) IN
    /\ UNCHANGED <<agent, registry, bwrap, proc, temp, strands, xeroVars>>
    /\ \/ /\ refusal # "none"
          /\ Immediate(j, Err(refusal))
          /\ UNCHANGED <<disk, amnesia>>
       \/ /\ refusal = "none" /\ bridge = "unset"
          /\ RecordIdempotency(j, IdempotencyKey(op, run))
          /\ Immediate(j, RecordAnswer(j))
       \/ /\ refusal = "none" /\ bridge = "set"
          /\ Enter(j, IdempotencyKey(op, run), "posting")
          /\ UNCHANGED <<disk, amnesia>>

Applied(j) == posts' = [posts EXCEPT ![j][call[j]] = @ + 1]

\* mutant: only a dry run is recorded.
PostAcceptedUnrecorded(j) ==
    /\ pc[j] = "posting"
    /\ Applied(j)
    /\ Return(j, Ok)
    /\ UNCHANGED <<agent, registry, disk, sandboxVars, bridge, unheard, tally>>

\* The bridge applies the request and answers below 400.
PostAccepted(j) ==
    /\ pc[j] = "posting"
    /\ Applied(j)
    /\ RecordIdempotency(j, call[j])
    /\ Return(j, RecordAnswer(j))
    /\ UNCHANGED <<agent, registry, bwrap, proc, temp, strands, bridge, unheard, tally>>

\* It answers 400 or above and applied nothing.
PostRefused(j) ==
    /\ pc[j] = "posting"
    /\ Return(j, Err("xero_bridge_error"))
    /\ UNCHANGED <<agent, registry, disk, sandboxVars, xeroVars, tally>>

\* The request or its answer is lost; the exception reaches the agent loop.
PostUnheard(j) ==
    /\ pc[j] = "posting"
    /\ Fault
    /\ Return(j, Err("tool_exception"))
    /\ \/ Applied(j) /\ unheard' = [unheard EXCEPT ![j][call[j]] = @ + 1]
       \/ UNCHANGED <<posts, unheard>>
    /\ UNCHANGED <<agent, registry, disk, sandboxVars, bridge>>

\* A crash takes the answers of the requests in flight with it.
CrashXero ==
    /\ CrashWorkspace
    /\ \E S \in SUBSET {j \in Jobs : pc[j] = "posting"} :
          LET hit(j, k) == IF j \in S /\ k = call[j] THEN 1 ELSE 0 IN
          /\ posts' = [j \in Jobs |-> [k \in Keys |-> posts[j][k] + hit(j, k)]]
          /\ unheard' = [j \in Jobs |-> [k \in Keys |-> unheard[j][k] + hit(j, k)]]
    /\ UNCHANGED bridge

InitXero ==
    /\ InitWorkspace
    /\ bridge \in {"unset", "malformed", "set"}
    /\ posts = [j \in Jobs |-> [k \in Keys |-> 0]]
    /\ unheard = posts

\* augment_tools_advertised gives the tool to the accounting specialists only.
XeroStep(j) ==
    \/ /\ Slug[j] \in Specialists
       /\ \E op \in Asked, run \in Runs, form \in {"good", "other_slug", "bad_run"} :
             XeroCall(j, op, run, form)
    \/ PostAccepted(j) \/ PostRefused(j) \/ PostUnheard(j)

vars == <<agent, registry, disk, pc, call, answer, tally, sandboxVars, xeroVars>>

Next ==
    \/ \E j \in Jobs : WorkspaceStep(j) /\ UNCHANGED xeroVars
    \/ \E j \in Jobs : XeroStep(j)
    \/ CrashXero

Spec == InitXero /\ [][Next]_vars

-----------------------------------------------------------------------------
(* Property                                                                *)

\* Within a job a VerifyAPI run posts an operation once; every further post is
\* owed to an answer that was lost or to a record that was lost or never made
\* (the file is checked before the request and written after it).  And an agent
\* that is told its call is a duplicate has really posted, or simulated, before.
PostsAccounted ==
    \A j \in Jobs :
        /\ \A k \in Keys : posts[j][k] <= 1 + unheard[j][k] + amnesia[j]
        /\ answer[j].error = "duplicate_verify_api_run" =>
              bridge = "unset" \/ \E k \in Keys : posts[j][k] > unheard[j][k]

=============================================================================
