----------------------------- MODULE Verification ---------------------------
(***************************************************************************)
(* Verification jobs: POST /verify and its arbitrage twin (main.py), which *)
(* run conduit_verifier.run_verification in the background, keep a row in  *)
(* memory and POST a verdict to the marketplace. They share the process,   *)
(* and its Chromium budget, with the agent jobs of ConduitBridge.          *)
(*                                                                         *)
(* A deliverable is a version; hashing it, evaluating the rubric on it and *)
(* searching it for the expected text are tests on the version. Between    *)
(* two fetches its owner may publish another one.                          *)
(***************************************************************************)
EXTENDS ConduitBridge, Sequences

CONSTANTS
    Jobs,          \* verification jobs, one per POST
    Specs,         \* [inline, hash, rubric, content]: what a VerificationSpec asks for
    Versions,
    Agreed,        \* the version whose hash, rubric and text were agreed on
    MaxChanges     \* bound: versions published

\* No rubric, one with its hash, one with the hash of another rubric, or a rubric
\* without a hash or a hash without a rubric, which VerificationSpec accepts.
Rubrics == {"none", "committed", "other", "bare"}

ASSUME VerificationAssumption ==
    /\ Specs \subseteq [inline : BOOLEAN, hash : BOOLEAN,
                        rubric : Rubrics, content : BOOLEAN]
    /\ Agreed \in Versions /\ MaxChanges \in Nat

VARIABLES
    artifact,   \* the version at the URL, and the text of an inline delivery
    changes,
    job,        \* per job: the coroutine
    row,        \* per job: its entry of _verification_jobs or the arbitrage table
    received,   \* per job: the verdicts the marketplace has recorded
    served      \* history, per job: the versions served since it began

verifyVars == <<artifact, changes, job, row, received, served>>

vars == <<bridgeVars, verifyVars>>

Tracks == {"unset", "pass", "fail"}

NoJob == [at |-> "idle", kind |-> "plain", spec |-> CHOOSE s \in Specs : TRUE,
          track1 |-> "unset", track2 |-> "unset", step |-> 0, done |-> {},
          shown |-> "nothing", verdict |-> "none", raised |-> FALSE]

NoRow == [status |-> "none", result |-> "none"]

Init ==
    /\ BridgeInit
    /\ artifact \in Versions /\ changes = 0
    /\ job = [j \in Jobs |-> NoJob]
    /\ row = [j \in Jobs |-> NoRow]
    /\ received = [j \in Jobs |-> <<>>]
    /\ served = [j \in Jobs |-> {}]

Running == {j \in Jobs : job[j].at \notin {"idle", "over"}}

Go(j, at) == job' = [job EXCEPT ![j].at = at]

SameWorld == UNCHANGED <<run, vault, strikes, kept, artifact, changes>>

-----------------------------------------------------------------------------
(* The routes                                                              *)

\* start_verification, start_arbitrage_verification: the row, then the task.
StartVerification(j, kind, spec) ==
    /\ job[j].at = "idle" /\ row[j] = NoRow
    /\ kind = "arbitrage" => ~spec.inline
    /\ row' = [row EXCEPT ![j] = [status |-> "pending", result |-> "none"]]
    /\ job' = [job EXCEPT ![j] = [NoJob EXCEPT !.at = "begin", !.kind = kind, !.spec = spec]]
    /\ served' = [served EXCEPT ![j] = {artifact}]
    /\ UNCHANGED <<bridgeVars, artifact, changes, received>>

\* mutant: the background task dies with its exception.
RaiseUnhandled(j) ==
    /\ job' = [job EXCEPT ![j].at = "over"]
    /\ UNCHANGED row

\* The except clause of both tasks. The plain row keeps the result it has; the
\* arbitrage row gets the ERROR body.
Raise(j) ==
    /\ job' = [job EXCEPT ![j].at = "apologise", ![j].raised = job[j].at = "post"]
    /\ row' = [row EXCEPT ![j].status = "failed",
                          ![j].result = IF job[j].kind = "arbitrage" THEN "fail" ELSE @]

\* The status becomes running; _extract_arbitrage_spec finds no URL, or the
\* import of patchright fails.
Begin(j) ==
    /\ job[j].at = "begin"
    /\ \/ /\ Works
          /\ row' = [row EXCEPT ![j].status = "running"]
          /\ Go(j, "hash")
       \/ Fault /\ Raise(j)
    /\ SameWorld /\ UNCHANGED <<chromes, received, served>>

-----------------------------------------------------------------------------
(* run_verification                                                        *)

\* mutant: a fetch that fails leaves track 1 undecided.
HashWhenFetched(j, fetched) ==
    IF ~fetched THEN "unset" ELSE IF artifact = Agreed THEN "pass" ELSE "fail"

\* Track 1: a fetch that fails is a failed track.
HashOutcome(j, fetched) == IF fetched /\ artifact = Agreed THEN "pass" ELSE "fail"

\* _assert_safe_url, _fetch_and_hash, or the inline bytes.
Hash(j) ==
    /\ job[j].at = "hash"
    /\ \E fetched \in BOOLEAN :
        /\ IF fetched THEN Works ELSE job[j].spec.hash /\ ~job[j].spec.inline /\ Fault
        /\ job' = [job EXCEPT ![j].at = "rubric",
             ![j].track1 = IF job[j].spec.hash THEN HashOutcome(j, fetched) ELSE "unset"]
    /\ SameWorld /\ UNCHANGED <<chromes, row, received, served>>

\* Track 2 exists only where the rubric and its hash were both given.
RubricAsked(spec) == spec.rubric \in {"committed", "other"}

\* The rubric is hashed again first: one the buyer did not commit to is not evaluated.
RubricOutcome(j, fetched) ==
    IF job[j].spec.rubric = "committed" /\ fetched /\ artifact = Agreed THEN "pass" ELSE "fail"

Rubric(j) ==
    /\ job[j].at = "rubric"
    /\ \E fetched \in BOOLEAN :
        /\ IF fetched THEN Works ELSE job[j].spec.rubric = "committed" /\ ~job[j].spec.inline /\ Fault
        /\ job' = [job EXCEPT
             ![j].at = IF job[j].spec.inline THEN "judge" ELSE "launch",
             ![j].shown = IF job[j].spec.inline THEN artifact ELSE @,
             ![j].track2 = IF RubricAsked(job[j].spec) THEN RubricOutcome(j, fetched) ELSE "unset"]
    /\ SameWorld /\ UNCHANGED <<chromes, row, received, served>>

\* launch raises, or new_page does and the exit of async_playwright ends the browser.
LaunchBrowser(j) ==
    /\ job[j].at = "launch"
    /\ \/ /\ Works /\ chromes' = chromes + 1
          /\ Go(j, "act") /\ UNCHANGED row
       \/ Fault /\ Raise(j) /\ UNCHANGED chromes
    /\ SameWorld /\ UNCHANGED <<received, served>>

\* build_action_plan
Plan == <<"NAVIGATE", "SCREENSHOT", "EXTRACT", "FINGERPRINT", "ACCESSIBILITY_SNAPSHOT",
          "EXPORT_PROOF">>

\* What evaluate_result asks of the action log.
Counted == {"NAVIGATE", "EXTRACT", "FINGERPRINT"}

\* One action of the plan: one that fails is logged and the next one still runs.
Act(j) ==
    LET action == Plan[job[j].step + 1]
    IN  /\ job[j].at = "act" /\ job[j].step < Len(Plan)
        /\ \E success \in BOOLEAN :
            /\ IF success THEN Works ELSE action # "EXPORT_PROOF" /\ Fault
            /\ job' = [job EXCEPT ![j].step = @ + 1,
                 ![j].done = IF success THEN @ \cup ({action} \cap Counted) ELSE @,
                 ![j].shown = IF success /\ action = "NAVIGATE" THEN artifact ELSE @]
        /\ SameWorld /\ UNCHANGED <<chromes, row, received, served>>

\* The finally clause: close may raise, and then the exit ends the browser.
CloseBrowser(j) ==
    /\ job[j].at = "act" /\ job[j].step = Len(Plan)
    /\ chromes' = chromes - 1
    /\ \/ Works /\ Go(j, "judge") /\ UNCHANGED row
       \/ Fault /\ Raise(j)
    /\ SameWorld /\ UNCHANGED <<received, served>>

\* evaluate_result
PageOutcome(j) ==
    LET loaded == job[j].spec.inline \/ "NAVIGATE" \in job[j].done
        found == /\ job[j].spec.inline \/ "EXTRACT" \in job[j].done
                 /\ job[j].shown = Agreed
        printed == job[j].spec.inline \/ "FINGERPRINT" \in job[j].done
    IN  IF loaded /\ (IF job[j].spec.content THEN found ELSE printed) THEN "pass" ELSE "fail"

\* Track 1 before track 2 before the page.
Outcome(j) ==
    CASE job[j].track1 # "unset" -> job[j].track1
      [] job[j].track1 = "unset" /\ job[j].track2 # "unset" -> job[j].track2
      [] OTHER -> PageOutcome(j)

\* The signed proof bundle: the result it carries and the track that decided it.
Bundle(j) ==
    [passed |-> Outcome(j),
     track |-> IF job[j].track1 # "unset" THEN 1 ELSE IF job[j].track2 # "unset" THEN 2 ELSE 0]

\* The row, and on to the POST.
Judge(j) ==
    /\ job[j].at = "judge"
    /\ job' = [job EXCEPT ![j].at = "post", ![j].verdict = Bundle(j).passed]
    /\ row' = [row EXCEPT ![j] = [status |-> "completed", result |-> Bundle(j).passed]]
    /\ SameWorld /\ UNCHANGED <<chromes, received, served, faults>>

-----------------------------------------------------------------------------
(* The callback                                                            *)

Record(j, verdict) == received' = [received EXCEPT ![j] = Append(@, verdict)]

Post(j) ==
    /\ job[j].at = "post" /\ Works
    /\ Record(j, job[j].verdict)
    /\ Go(j, "over")
    /\ SameWorld /\ UNCHANGED <<chromes, row, served>>

\* mutant: raise_for_status().
PostRefusedRaises(j) ==
    /\ job[j].at = "post" /\ Fault
    /\ Record(j, job[j].verdict) \/ UNCHANGED received
    /\ job' = [job EXCEPT ![j].at = "apologise"]
    /\ row' = [row EXCEPT ![j].status = "failed"]
    /\ SameWorld /\ UNCHANGED <<chromes, served>>

\* Any answer but 200 and 201 is logged; the marketplace may have recorded the
\* verdict before it went wrong.
PostRefused(j) ==
    /\ job[j].at = "post" /\ Fault
    /\ Record(j, job[j].verdict) \/ UNCHANGED received
    /\ Go(j, "over")
    /\ SameWorld /\ UNCHANGED <<chromes, row, served>>

\* A timeout or a broken connection raises, before or after the verdict was recorded.
PostRaises(j) ==
    /\ job[j].at = "post" /\ Fault
    /\ Record(j, job[j].verdict) \/ UNCHANGED received
    /\ Raise(j)
    /\ SameWorld /\ UNCHANGED <<chromes, served>>

\* The negative verdict of the except clause, whose own errors are swallowed.
Apologise(j) ==
    /\ job[j].at = "apologise"
    /\ \/ Works /\ Record(j, "fail")
       \/ Fault /\ (Record(j, "fail") \/ UNCHANGED received)
    /\ Go(j, "over")
    /\ SameWorld /\ UNCHANGED <<chromes, row, served>>

\* GET /verify/{job_id} and its arbitrage twin: 404 once the row is gone.
StatusAnswer(j) == IF row[j] = NoRow THEN [status |-> "404", result |-> "none"] ELSE row[j]

-----------------------------------------------------------------------------
(* The world                                                               *)

Publish(v) ==
    /\ changes < MaxChanges /\ v # artifact
    /\ changes' = changes + 1
    /\ artifact' = v
    /\ served' = [j \in Jobs |-> IF j \in Running THEN served[j] \cup {v} ELSE served[j]]
    /\ UNCHANGED <<bridgeVars, job, row, received>>

\* Rows and tasks are gone; what the marketplace recorded is not.
Restart ==
    /\ Fault
    /\ RunsRestart
    /\ job' = [j \in Jobs |-> IF job[j].at = "idle" THEN NoJob ELSE [job[j] EXCEPT !.at = "over"]]
    /\ row' = [j \in Jobs |-> NoRow]
    /\ UNCHANGED <<artifact, changes, received, served>>

JobStep(j) ==
    \/ Begin(j) \/ Hash(j) \/ Rubric(j) \/ LaunchBrowser(j) \/ Act(j)
    \/ CloseBrowser(j) \/ Judge(j) \/ Post(j) \/ PostRefused(j) \/ PostRaises(j)
    \/ Apologise(j)

Over ==
    /\ \A j \in Jobs : job[j].at = "over"
    /\ \A r \in Runs : run[r].at \in Ended
    /\ UNCHANGED vars

Next ==
    \/ \E r \in Runs : RunStep(r) /\ UNCHANGED verifyVars
    \/ \E r \in Runs : RunFault(r) /\ UNCHANGED verifyVars
    \/ \E r \in Runs : StoreSession(r) /\ UNCHANGED verifyVars
    \/ \E j \in Jobs, kind \in {"plain", "arbitrage"}, spec \in Specs :
            StartVerification(j, kind, spec)
    \/ \E j \in Jobs : JobStep(j)
    \/ \E v \in Versions : Publish(v)
    \/ Restart
    \/ Over

\* The task is inside _fetch_and_hash or the fetch of the rubric: the timeout of 30 s
\* is that of one socket operation, a server that keeps sending is read for ever, and
\* the read is synchronous, so that nothing else runs in the process.
Fetching(j) ==
    /\ ~job[j].spec.inline
    /\ \/ job[j].at = "hash" /\ job[j].spec.hash
       \/ job[j].at = "rubric" /\ job[j].spec.rubric = "committed"

\* The task waits for a server or for its browser: content(), the snapshot and
\* close() have no timeout, and nobody enforces timeoutSeconds.
Waiting(j) == Fetching(j) \/ job[j].at \in {"launch", "act", "post", "apologise"}

\* The event loop goes on with a task that waits for nothing.
LocalStep(j) == JobStep(j) /\ ~Waiting(j) /\ \A k \in Jobs : ~Fetching(k)

Spec == Init /\ [][Next]_vars /\ \A j \in Jobs : WF_vars(LocalStep(j))

-----------------------------------------------------------------------------
(* Properties                                                              *)

\* What a pass says of the deliverable, whatever its owner published in between.
Earned(j) ==
    LET spec == job[j].spec
    IN  IF spec.hash \/ RubricAsked(spec)
        THEN Agreed \in served[j] /\ (spec.hash \/ spec.rubric = "committed")
        ELSE /\ spec.inline \/ "NAVIGATE" \in job[j].done
             /\ spec.content => Agreed \in served[j]

\* run_verification: a pass the marketplace records means that the agreed artifact
\* was there to be seen while the job ran. A page that merely loads does not stand
\* in for a hash, or for a rubric with its hash, that was asked for and could not be
\* checked; it does for a rubric without its hash or a hash without its rubric.
PassIsEarned ==
    \A j \in Jobs, i \in 1..2 :
        i \in DOMAIN received[j] /\ received[j][i] = "pass" => Earned(j)

\* _run_and_callback: the marketplace hears one verdict of a job, the one it reads
\* when it polls. Only when the POST itself raised may a negative one follow, and then
\* the row no longer says completed.
VerdictsAgree ==
    \A j \in Jobs :
        /\ ~job[j].raised => Len(received[j]) <= 1
        /\ Len(received[j]) = 2 => received[j][2] = "fail"
        /\ StatusAnswer(j).status = "completed" =>
              \A i \in DOMAIN received[j] : received[j][i] = StatusAnswer(j).result

\* start_verification: a job that was accepted leaves "pending" and "running"
\* behind, or a restart takes its row, or its task waits for ever for a server or for
\* its browser, or a fetch that never ends stops the whole process.
EveryJobSettles ==
    \A j \in Jobs :
        row[j].status = "pending" ~>
            \/ row[j].status \in {"completed", "failed", "none"}
            \/ []Waiting(j)
            \/ \E k \in Jobs : []Fetching(k)

\* Every Chromium alive belongs to a job that is using it, or was left behind by a
\* start or a stop of a bridge that failed half way.
BrowsersAccounted ==
    chromes <= Cardinality(Holders) + Cardinality({j \in Jobs : job[j].at = "act"}) + strikes
=============================================================================
