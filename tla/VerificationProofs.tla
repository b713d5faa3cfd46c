------------------------- MODULE VerificationProofs -------------------------
(***************************************************************************)
(* What a verdict means, that the marketplace and the row agree on it, and *)
(* that no session file or browser is forgotten, for every number of       *)
(* verification jobs, agent runs, versions of the deliverable and faults.  *)
(***************************************************************************)
EXTENDS Verification, FiniteSetTheorems, TLAPS

-----------------------------------------------------------------------------
(* The inductive invariant of the bridge of an agent run                   *)

RunPlaces == {"idle", "loop", "launch", "page", "stop", "clean", "over",
              "barred", "dead"}
RunType ==
    [at : RunPlaces, bridge : BOOLEAN, held : BOOLEAN, page : BOOLEAN, calls : Nat]

BridgeTypes ==
    /\ run \in [Runs -> RunType]
    /\ vault \in [Runs -> {"none", "early", "late"}]
    /\ kept \subseteq Runs

\* A bridge that holds a browser without a page starts another one at its next
\* call; one that is launching has no page; a run that is not using its bridge
\* holds none.
BridgeInv ==
    \A r \in Runs :
        /\ run[r].at = "launch" => ~run[r].page
        /\ run[r].at \in {"idle", "clean", "over", "barred", "dead"} => ~run[r].held

Stray(r) == run[r].held /\ ~run[r].page /\ run[r].at # "page"
Strays == {r \in Runs : Stray(r)}
Acting == {j \in Jobs : job[j].at = "act"}

\* The browser that a stray holds is one of those a failed start left behind: the
\* strike that stands for it is still to be used up.
BrowserInv ==
    /\ chromes \in Int /\ strikes \in Nat
    /\ IsFiniteSet(Holders) /\ IsFiniteSet(Strays) /\ IsFiniteSet(Acting)
    /\ chromes + Cardinality(Strays) <= Cardinality(Holders) + Cardinality(Acting) + strikes

-----------------------------------------------------------------------------
(* The inductive invariant of a verification job                           *)

JobPlaces == {"idle", "begin", "hash", "rubric", "launch", "act", "judge", "post",
              "apologise", "over"}
Verdicts == {"none", "pass", "fail"}
JobType ==
    [at : JobPlaces, kind : {"plain", "arbitrage"}, spec : Specs \cup {NoJob.spec},
     track1 : Tracks, track2 : Tracks, step : Nat, done : SUBSET Counted,
     shown : Versions \cup {"nothing"}, verdict : Verdicts, raised : BOOLEAN]

RowType ==
    [status : {"none", "pending", "running", "completed", "failed"}, result : Verdicts]

JobTypes ==
    /\ artifact \in Versions
    /\ job \in [Jobs -> JobType]
    /\ \A j \in Jobs : job[j].at # "idle" => job[j].spec \in Specs
    /\ row \in [Jobs -> RowType]
    /\ received \in [Jobs -> Seq({"pass", "fail"})]
    /\ served \in [Jobs -> SUBSET Versions]

\* What each track has found, and when it has to have been decided.
TrackOk(j) ==
    /\ job[j].at \notin {"idle", "over"} => artifact \in served[j]
    /\ job[j].track1 # "unset" => job[j].spec.hash
    /\ job[j].track1 = "pass" => Agreed \in served[j]
    /\ job[j].track2 = "pass" => Agreed \in served[j] /\ job[j].spec.rubric = "committed"
    /\ job[j].at \in {"rubric", "launch", "act", "judge"} /\ job[j].spec.hash
        => job[j].track1 # "unset"
    /\ job[j].at \in {"launch", "act", "judge"} /\ RubricAsked(job[j].spec)
        => job[j].track2 # "unset"
    /\ job[j].at \in {"launch", "act", "judge"} =>
          (job[j].spec.inline \/ "NAVIGATE" \in job[j].done => job[j].shown \in served[j])
    /\ job[j].at \in {"begin", "hash", "rubric"} => job[j].done = {}
    /\ job[j].at \in {"launch", "act"} => ~job[j].spec.inline

\* A pass that was decided, and so one that was sent, was earned.
VerdictOk(j) ==
    /\ job[j].verdict = "pass" => Earned(j)
    /\ \A i \in DOMAIN received[j] : received[j][i] = "pass" => Earned(j)

\* How many verdicts the marketplace may have at each place, and what the row says.
CallbackOk(j) ==
    /\ job[j].at \notin {"apologise", "over"} => received[j] = <<>> /\ ~job[j].raised
    /\ job[j].at \notin {"post", "apologise", "over"} => job[j].verdict = "none"
    /\ job[j].at = "post" => job[j].verdict \in {"pass", "fail"}
    /\ job[j].at = "apologise" => /\ Len(received[j]) <= (IF job[j].raised THEN 1 ELSE 0)
                                  /\ row[j].status = "failed"
    /\ job[j].at = "over" => Len(received[j]) <= (IF job[j].raised THEN 2 ELSE 1)
    /\ Len(received[j]) = 2 => received[j][2] = "fail"
    /\ row[j].status = "completed" =>
          /\ job[j].at \in {"post", "over"} /\ row[j].result = job[j].verdict
          /\ \A i \in DOMAIN received[j] : received[j][i] = job[j].verdict

JobInv == JobTypes /\ \A j \in Jobs : TrackOk(j) /\ VerdictOk(j) /\ CallbackOk(j)

-----------------------------------------------------------------------------
(* Steps of the agent runs                                                 *)

LEMMA RunUpdates ==
    ASSUME NEW b \in RunType
    PROVE  /\ \A loc \in RunPlaces : [b EXCEPT !.at = loc] \in RunType
           /\ \A x \in BOOLEAN : [b EXCEPT !.bridge = x] \in RunType
           /\ \A x \in BOOLEAN : [b EXCEPT !.held = x] \in RunType
           /\ \A x \in BOOLEAN : [b EXCEPT !.page = x] \in RunType
           /\ \A n \in Nat : [b EXCEPT !.calls = n] \in RunType
    BY DEF RunType

\* One step of run r, by its effect: the run moves to loc and holds a browser, or
\* has a page, as the last two arguments say.
Becomes(r, loc, held, page) ==
    /\ run' \in [Runs -> RunType]
    /\ \A q \in Runs : q # r => run'[q] = run[q]
    /\ run'[r].at = loc /\ run'[r].held = held /\ run'[r].page = page

LEMMA RunBecomes ==
    ASSUME BridgeTypes, NEW r \in Runs
    PROVE  /\ BarRun(r) => Becomes(r, "barred", run[r].held, run[r].page)
           /\ BeginRun(r) => Becomes(r, "loop", run[r].held, run[r].page)
           /\ RefuseRun(r) => Becomes(r, "over", run[r].held, run[r].page)
           /\ ConduitCall(r) => Becomes(r, IF run[r].page THEN "loop" ELSE "launch",
                                        run[r].held, run[r].page)
           /\ Launch(r) => Becomes(r, "page", TRUE, run[r].page)
           /\ LaunchFails(r) => Becomes(r, "loop", run[r].held, run[r].page)
           /\ OpenPage(r) => Becomes(r, "loop", run[r].held, TRUE)
           /\ OpenPageFails(r) => \E set \in BOOLEAN : Becomes(r, "loop", run[r].held, set)
           /\ EndLoop(r) => Becomes(r, "stop", run[r].held, run[r].page)
           /\ Stop(r) => Becomes(r, "clean", FALSE, FALSE)
           /\ Clean(r) => Becomes(r, "over", run[r].held, run[r].page)
<1> USE DEF BridgeTypes, Becomes
<1>0. run[r] \in RunType
  OBVIOUS
<1>1. ASSUME BeginRun(r) PROVE Becomes(r, "loop", run[r].held, run[r].page)
  <2>1. PICK x \in BOOLEAN : run' = [run EXCEPT ![r].at = "loop", ![r].bridge = x]
    BY <1>1 DEF BeginRun
  <2>2. [run[r] EXCEPT !.at = "loop"] \in RunType
    BY <1>0, RunUpdates DEF RunPlaces
  <2>3. [[run[r] EXCEPT !.at = "loop"] EXCEPT !.bridge = x] \in RunType
    BY <2>2, RunUpdates
  <2> QED BY <2>1, <2>3 DEF RunType
<1>2. ASSUME NEW loc \in RunPlaces, run' = [run EXCEPT ![r].at = loc]
      PROVE  Becomes(r, loc, run[r].held, run[r].page)
  <2>1. [run[r] EXCEPT !.at = loc] \in RunType
    BY <1>0, RunUpdates
  <2> QED BY <1>2, <2>1 DEF RunType
<1>3. ASSUME ConduitCall(r)
      PROVE  Becomes(r, IF run[r].page THEN "loop" ELSE "launch", run[r].held, run[r].page)
  <2> DEFINE loc == IF run[r].page THEN "loop" ELSE "launch"
  <2>1. run[r].calls + 1 \in Nat /\ loc \in RunPlaces
    BY <1>0 DEF RunType, RunPlaces
  <2>2. run' = [run EXCEPT ![r].calls = @ + 1, ![r].at = loc]
    BY <1>3 DEF ConduitCall
  <2> HIDE DEF loc
  <2>3. [run[r] EXCEPT !.calls = run[r].calls + 1] \in RunType
    BY <1>0, <2>1, RunUpdates
  <2>4. [[run[r] EXCEPT !.calls = run[r].calls + 1] EXCEPT !.at = loc] \in RunType
    BY <2>1, <2>3, RunUpdates
  <2>5. Becomes(r, loc, run[r].held, run[r].page)
    BY <2>2, <2>4 DEF RunType
  <2> QED BY <2>5 DEF loc
<1>4. ASSUME Launch(r) PROVE Becomes(r, "page", TRUE, run[r].page)
  <2>1. [run[r] EXCEPT !.at = "page"] \in RunType
    BY <1>0, RunUpdates DEF RunPlaces
  <2>2. [[run[r] EXCEPT !.at = "page"] EXCEPT !.held = TRUE] \in RunType
    BY <2>1, RunUpdates
  <2> QED BY <1>4, <2>2 DEF Launch, RunType
<1>5. ASSUME NEW x \in BOOLEAN, run' = [run EXCEPT ![r].at = "loop", ![r].page = x]
      PROVE  Becomes(r, "loop", run[r].held, x)
  <2>1. [run[r] EXCEPT !.at = "loop"] \in RunType
    BY <1>0, RunUpdates DEF RunPlaces
  <2>2. [[run[r] EXCEPT !.at = "loop"] EXCEPT !.page = x] \in RunType
    BY <2>1, RunUpdates
  <2> QED BY <1>5, <2>2 DEF RunType
<1>6. ASSUME Stop(r) PROVE Becomes(r, "clean", FALSE, FALSE)
  <2>1. [run[r] EXCEPT !.at = "clean"] \in RunType
    BY <1>0, RunUpdates DEF RunPlaces
  <2>2. [[run[r] EXCEPT !.at = "clean"] EXCEPT !.held = FALSE] \in RunType
    BY <2>1, RunUpdates
  <2>3. [[[run[r] EXCEPT !.at = "clean"] EXCEPT !.held = FALSE] EXCEPT !.page = FALSE] \in RunType
    BY <2>2, RunUpdates
  <2> QED BY <1>6, <2>3 DEF Stop, RunType
<1>7. /\ OpenPage(r) => run' = [run EXCEPT ![r].at = "loop", ![r].page = TRUE]
      /\ OpenPageFails(r) =>
            \E set \in BOOLEAN : run' = [run EXCEPT ![r].at = "loop", ![r].page = set]
  BY DEF OpenPage, OpenPageFails
<1>8. /\ RefuseRun(r) \/ Clean(r) => run' = [run EXCEPT ![r].at = "over"]
      /\ LaunchFails(r) => run' = [run EXCEPT ![r].at = "loop"]
      /\ EndLoop(r) => run' = [run EXCEPT ![r].at = "stop"]
      /\ BarRun(r) => run' = [run EXCEPT ![r].at = "barred"]
  BY DEF RefuseRun, Clean, LaunchFails, EndLoop, BarRun
<1> HIDE DEF Becomes
<1> QED BY <1>1, <1>2, <1>3, <1>4, <1>5, <1>6, <1>7, <1>8 DEF RunPlaces

LEMMA BridgeStep ==
    ASSUME BridgeTypes, BridgeInv, SessionsCleared, NEW r \in Runs,
           RunStep(r) \/ RunFault(r) \/ StoreSession(r)
    PROVE  BridgeTypes' /\ BridgeInv' /\ SessionsCleared'
<1>1. CASE StoreSession(r)
  BY <1>1 DEF StoreSession, Stored, Ended, BridgeTypes, BridgeInv, SessionsCleared
<1>2. CASE BarRun(r) \/ BeginRun(r) \/ ConduitCall(r) \/ EndLoop(r) \/ Launch(r) \/ OpenPage(r)
           \/ Stop(r) \/ LaunchFails(r) \/ OpenPageFails(r)
  <2>1. UNCHANGED <<vault, kept>>
    BY <1>2 DEF BarRun, BeginRun, ConduitCall, EndLoop, Launch, OpenPage, Stop, LaunchFails,
         OpenPageFails
  <2>2. /\ run' \in [Runs -> RunType] /\ \A q \in Runs : q # r => run'[q] = run[q]
        /\ run'[r].at # "over"
        /\ run'[r].at = "launch" => ~run'[r].page
        /\ run'[r].at \in {"idle", "clean", "barred", "dead"} => ~run'[r].held
    <3>0. CASE BarRun(r)
      BY <3>0, RunBecomes DEF BarRun, BridgeInv, Becomes
    <3>1. CASE BeginRun(r) \/ EndLoop(r) \/ LaunchFails(r)
      BY <3>1, RunBecomes DEF Becomes
    <3>2. CASE ConduitCall(r)
      BY <3>2, RunBecomes DEF Becomes
    <3>3. CASE Launch(r) \/ OpenPage(r) \/ Stop(r)
      BY <3>3, RunBecomes DEF Becomes
    <3>4. CASE OpenPageFails(r)
      BY <3>4, RunBecomes DEF Becomes
    <3> QED BY <1>2, <3>0, <3>1, <3>2, <3>3, <3>4
  <2> QED BY <2>1, <2>2 DEF BridgeTypes, BridgeInv, SessionsCleared
<1>3. CASE RefuseRun(r) \/ Clean(r)
  <2>1. Becomes(r, "over", run[r].held, run[r].page) /\ run[r].at \in {"idle", "clean"}
    BY <1>3, RunBecomes DEF RefuseRun, Clean
  <2>2. \/ vault' = [vault EXCEPT ![r] = "none"] /\ UNCHANGED kept
        \/ kept' = kept \cup {r} /\ UNCHANGED vault
    BY <1>3 DEF RefuseRun, Clean, DeleteSession
  <2> QED BY <2>1, <2>2 DEF Becomes, BridgeTypes, BridgeInv, SessionsCleared, RunPlaces
<1> QED BY <1>1, <1>2, <1>3 DEF RunStep, RunFault

\* A set with one element more, or one less.
LEMMA OneMoreOneLess ==
    ASSUME NEW S, IsFiniteSet(S), NEW x
    PROVE  /\ Cardinality(S) \in Nat
           /\ IsFiniteSet(S \cup {x}) /\ IsFiniteSet(S \ {x})
           /\ x \notin S => Cardinality(S \cup {x}) = Cardinality(S) + 1
           /\ x \in S => Cardinality(S \ {x}) = Cardinality(S) - 1
BY FS_CardinalityType, FS_AddElement, FS_RemoveElement

\* The browsers, whichever run moves.
LEMMA BrowserRunStep ==
    ASSUME BridgeTypes, BridgeInv, BrowserInv, NEW r \in Runs,
           RunStep(r) \/ RunFault(r) \/ StoreSession(r), UNCHANGED job
    PROVE  BrowserInv'
<1>0. /\ Acting' = Acting
      /\ Cardinality(Acting) \in Nat
      /\ Cardinality(Holders) \in Nat /\ Cardinality(Strays) \in Nat
  BY FS_CardinalityType DEF Acting, BrowserInv
<1>1. CASE Launch(r)
  <2>1. Becomes(r, "page", TRUE, run[r].page) /\ run[r].at = "launch" /\ ~run[r].page
    BY <1>1, RunBecomes DEF Launch, BridgeInv
  <2>2. Holders' = Holders \cup {r} /\ Strays' = Strays \ {r} /\ (r \in Holders <=> r \in Strays)
    BY <2>1 DEF Becomes, Holders, Strays, Stray
  <2>3. chromes' = chromes + 1 /\ strikes' = strikes
    BY <1>1 DEF Launch
  <2>4. CASE r \in Holders
    <3>1. /\ Holders' = Holders /\ IsFiniteSet(Strays')
          /\ Cardinality(Strays') = Cardinality(Strays) - 1
      BY <2>2, <2>4, OneMoreOneLess DEF BrowserInv
    <3> QED BY <1>0, <2>3, <3>1 DEF BrowserInv
  <2>5. CASE r \notin Holders
    <3>1. /\ Strays' = Strays /\ IsFiniteSet(Holders')
          /\ Cardinality(Holders') = Cardinality(Holders) + 1
      BY <2>2, <2>5, OneMoreOneLess DEF BrowserInv
    <3> QED BY <1>0, <2>3, <3>1 DEF BrowserInv
  <2> QED BY <2>4, <2>5
<1>2. CASE OpenPageFails(r)
  <2>1. PICK set \in BOOLEAN : Becomes(r, "loop", run[r].held, set)
    BY <1>2, RunBecomes
  <2>2. run[r].at = "page" /\ chromes' = chromes /\ strikes' = strikes + 1
    BY <1>2 DEF OpenPageFails
  <2>3. Holders' = Holders /\ (Strays' = Strays \/ (Strays' = Strays \cup {r} /\ r \notin Strays))
    BY <2>1, <2>2 DEF Becomes, Holders, Strays, Stray
  <2>4. /\ IsFiniteSet(Strays')
        /\ Cardinality(Strays') \in {Cardinality(Strays), Cardinality(Strays) + 1}
    BY <2>3, OneMoreOneLess DEF BrowserInv
  <2> QED BY <1>0, <2>2, <2>3, <2>4 DEF BrowserInv
<1>3. CASE Stop(r)
  <2>1. Becomes(r, "clean", FALSE, FALSE)
    BY <1>3, RunBecomes
  <2>2. Holders' = Holders \ {r} /\ Strays' = Strays \ {r} /\ Strays \subseteq Holders
    BY <2>1 DEF Becomes, Holders, Strays, Stray
  <2>3. CASE r \in Holders
    <3>1. \/ chromes' = chromes - 1 /\ strikes' = strikes
          \/ chromes' = chromes /\ strikes' = strikes + 1
      BY <1>3, <2>3 DEF Stop, Holders
    <3>2. IsFiniteSet(Holders') /\ Cardinality(Holders') = Cardinality(Holders) - 1
      BY <2>2, <2>3, OneMoreOneLess DEF BrowserInv
    <3>3. /\ IsFiniteSet(Strays')
          /\ Cardinality(Strays') \in {Cardinality(Strays), Cardinality(Strays) - 1}
      <4>1. CASE r \in Strays
        BY <2>2, <4>1, OneMoreOneLess DEF BrowserInv
      <4>2. CASE r \notin Strays
        <5>1. Strays' = Strays
          BY <2>2, <4>2
        <5> QED BY <5>1 DEF BrowserInv
      <4> QED BY <4>1, <4>2
    <3>4. Cardinality(Strays') \in Nat
      BY <3>3, FS_CardinalityType
    <3> QED BY <1>0, <3>1, <3>2, <3>3, <3>4 DEF BrowserInv
  <2>4. CASE r \notin Holders
    <3>1. Holders' = Holders /\ Strays' = Strays
      BY <2>2, <2>4
    <3>2. UNCHANGED <<chromes, strikes>>
      BY <1>3, <2>4 DEF Stop, Holders
    <3> QED BY <1>0, <3>1, <3>2 DEF BrowserInv
  <2> QED BY <2>3, <2>4
\* The rest starts and stops nothing, and makes or removes no stray.
<1>4. CASE \/ BeginRun(r) \/ ConduitCall(r) \/ LaunchFails(r) \/ OpenPage(r) \/ EndLoop(r)
           \/ BarRun(r) \/ RefuseRun(r) \/ Clean(r) \/ StoreSession(r)
  <2>1. UNCHANGED <<chromes, strikes>>
    BY <1>4 DEF BeginRun, ConduitCall, LaunchFails, OpenPage, EndLoop, BarRun, RefuseRun,
         Clean, StoreSession
  <2>2. \A q \in Runs : (run'[q].held <=> run[q].held) /\ (Stray(q)' <=> Stray(q))
    <3>1. CASE StoreSession(r)
      BY <3>1 DEF StoreSession, Stray
    <3>2. CASE BarRun(r) \/ BeginRun(r) \/ RefuseRun(r) \/ Clean(r)
      <4>1. \E loc \in RunPlaces : Becomes(r, loc, run[r].held, run[r].page)
        BY <3>2, RunBecomes DEF RunPlaces
      <4>2. ~run[r].held
        BY <3>2 DEF BarRun, BeginRun, RefuseRun, Clean, BridgeInv
      <4> QED BY <4>1, <4>2 DEF Becomes, Stray
    <3>3. CASE ConduitCall(r)
      <4>1. CASE run[r].page
        BY <3>3, <4>1, RunBecomes DEF ConduitCall, Becomes, Stray
      <4>2. CASE ~run[r].page
        <5>1. Becomes(r, "launch", run[r].held, run[r].page) /\ run[r].at = "loop"
          BY <3>3, <4>2, RunBecomes DEF ConduitCall
        <5> QED BY <5>1 DEF Becomes, Stray
      <4> QED BY <4>1, <4>2
    <3>4. CASE LaunchFails(r) \/ EndLoop(r)
      BY <3>4, RunBecomes DEF LaunchFails, EndLoop, Becomes, Stray
    <3>5. CASE OpenPage(r)
      BY <3>5, RunBecomes DEF OpenPage, Becomes, Stray
    <3> QED BY <1>4, <3>1, <3>2, <3>3, <3>4, <3>5
  <2>3. Holders' = Holders
    BY <2>2, Zenon DEF Holders
  <2>4. Strays' = Strays
    BY <2>2, Zenon DEF Strays
  <2> QED BY <1>0, <2>1, <2>3, <2>4 DEF BrowserInv
<1> QED BY <1>1, <1>2, <1>3, <1>4 DEF RunStep, RunFault

-----------------------------------------------------------------------------
(* Steps of a verification job                                             *)

LEMMA JobUpdates ==
    ASSUME NEW x \in JobType
    PROVE  /\ \A v \in JobPlaces : [x EXCEPT !.at = v] \in JobType
           /\ \A v \in {"plain", "arbitrage"} : [x EXCEPT !.kind = v] \in JobType
           /\ \A v \in Specs : [x EXCEPT !.spec = v] \in JobType
           /\ \A v \in Tracks : [x EXCEPT !.track1 = v] \in JobType
           /\ \A v \in Tracks : [x EXCEPT !.track2 = v] \in JobType
           /\ \A v \in Nat : [x EXCEPT !.step = v] \in JobType
           /\ \A v \in SUBSET Counted : [x EXCEPT !.done = v] \in JobType
           /\ \A v \in Versions \cup {"nothing"} : [x EXCEPT !.shown = v] \in JobType
           /\ \A v \in Verdicts : [x EXCEPT !.verdict = v] \in JobType
           /\ \A v \in BOOLEAN : [x EXCEPT !.raised = v] \in JobType
    BY DEF JobType

\* Only job j moves, and the deliverable is what it was.
OnlyJob(j) ==
    /\ job' \in [Jobs -> JobType] /\ row' \in [Jobs -> RowType]
    /\ received' \in [Jobs -> Seq({"pass", "fail"})]
    /\ \A i \in Jobs : i # j => job'[i] = job[i] /\ row'[i] = row[i] /\ received'[i] = received[i]
    /\ job[j].at # "idle" /\ job'[j].at # "idle" /\ job'[j].spec = job[j].spec
    /\ UNCHANGED <<artifact, served>>

LEMMA JobFrame ==
    ASSUME JobInv, NEW j \in Jobs, OnlyJob(j), TrackOk(j)', VerdictOk(j)', CallbackOk(j)'
    PROVE  JobInv'
<1>1. JobTypes'
  BY DEF JobInv, JobTypes, OnlyJob
<1>2. ASSUME NEW i \in Jobs, i # j PROVE TrackOk(i)' /\ VerdictOk(i)' /\ CallbackOk(i)'
  <2>1. /\ job'[i] = job[i] /\ row'[i] = row[i] /\ received'[i] = received[i]
        /\ served'[i] = served[i] /\ artifact' = artifact
    BY <1>2 DEF OnlyJob
  <2>2. TrackOk(i) /\ VerdictOk(i) /\ CallbackOk(i)
    BY DEF JobInv
  <2>3. Earned(i)' <=> Earned(i)
    BY <2>1 DEF Earned
  <2>4. TrackOk(i)'
    BY <2>1, <2>2 DEF TrackOk
  <2>5. VerdictOk(i)'
    BY <2>1, <2>2, <2>3 DEF VerdictOk
  <2>6. CallbackOk(i)'
    BY <2>1, <2>2 DEF CallbackOk
  <2> QED BY <2>4, <2>5, <2>6
<1> QED BY <1>1, <1>2 DEF JobInv

\* Nothing the tracks have found is changed, and the page is not looked at.
TracksKept(j) ==
    /\ job'[j].track1 = job[j].track1 /\ job'[j].track2 = job[j].track2
    /\ job'[j].done = job[j].done /\ job'[j].shown = job[j].shown

LEMMA GoJob ==
    ASSUME JobTypes, NEW j \in Jobs, NEW loc \in JobPlaces, Go(j, loc)
    PROVE  /\ job' \in [Jobs -> JobType] /\ \A i \in Jobs : i # j => job'[i] = job[i]
           /\ job'[j].at = loc /\ job'[j].spec = job[j].spec /\ TracksKept(j)
           /\ job'[j].verdict = job[j].verdict /\ job'[j].raised = job[j].raised
<1>1. [job[j] EXCEPT !.at = loc] \in JobType
  BY JobUpdates DEF JobTypes
<1> QED BY <1>1 DEF JobTypes, JobType, Go, TracksKept

LEMMA RaiseJob ==
    ASSUME JobTypes, NEW j \in Jobs, Raise(j)
    PROVE  /\ job' \in [Jobs -> JobType] /\ \A i \in Jobs : i # j => job'[i] = job[i]
           /\ job'[j].at = "apologise" /\ job'[j].spec = job[j].spec /\ TracksKept(j)
           /\ job'[j].verdict = job[j].verdict /\ (job'[j].raised <=> job[j].at = "post")
           /\ row' \in [Jobs -> RowType]
           /\ \A i \in Jobs : i # j => row'[i] = row[i]
           /\ row'[j].status = "failed"
<1>1. [job[j] EXCEPT !.at = "apologise"] \in JobType
  BY JobUpdates DEF JobTypes, JobPlaces
<1>2. [[job[j] EXCEPT !.at = "apologise"] EXCEPT !.raised = (job[j].at = "post")] \in JobType
  BY <1>1, JobUpdates
<1>3. job' = [job EXCEPT ![j].at = "apologise", ![j].raised = (job[j].at = "post")]
  BY DEF Raise
<1>4. job' \in [Jobs -> JobType] /\ job'[j] = [job[j] EXCEPT !.at = "apologise", !.raised = (job[j].at = "post")]
  BY <1>2, <1>3 DEF JobTypes
<1>5. job[j] \in JobType
  BY DEF JobTypes
<1>6. /\ job'[j].at = "apologise" /\ job'[j].spec = job[j].spec /\ TracksKept(j)
      /\ job'[j].verdict = job[j].verdict /\ (job'[j].raised <=> job[j].at = "post")
  BY <1>4, <1>5 DEF JobType, TracksKept
<1>7. /\ row' \in [Jobs -> RowType]
      /\ \A i \in Jobs : i # j => row'[i] = row[i]
      /\ row'[j].status = "failed"
  BY DEF Raise, JobTypes, RowType, Verdicts
<1> QED BY <1>3, <1>4, <1>6, <1>7 DEF JobTypes

\* The steps before the tracks, and the browser's: a place is all that changes.
LEMMA BeginStep ==
    ASSUME JobInv, NEW j \in Jobs, Begin(j)
    PROVE  JobInv'
<1> USE DEF JobInv
<1>1. job[j].at = "begin" /\ UNCHANGED <<artifact, served, received>>
  BY DEF Begin, SameWorld
<1>2. CASE Raise(j)
  <2>1. OnlyJob(j)
    BY <1>1, <1>2, RaiseJob DEF OnlyJob, JobTypes
  <2>2. TrackOk(j)' /\ VerdictOk(j)' /\ CallbackOk(j)'
    BY <1>1, <1>2, RaiseJob DEF TrackOk, VerdictOk, CallbackOk, TracksKept, Earned
  <2> QED BY <2>1, <2>2, JobFrame
<1>3. CASE Go(j, "hash") /\ row' = [row EXCEPT ![j].status = "running"]
  <2>1. row' \in [Jobs -> RowType] /\ row'[j].status = "running" /\ \A i \in Jobs : i # j => row'[i] = row[i]
    BY <1>3 DEF JobTypes, RowType
  <2>2. /\ job' \in [Jobs -> JobType] /\ \A i \in Jobs : i # j => job'[i] = job[i]
        /\ job'[j].at = "hash" /\ job'[j].spec = job[j].spec /\ TracksKept(j)
        /\ job'[j].verdict = job[j].verdict /\ job'[j].raised = job[j].raised
    BY <1>3, GoJob DEF JobPlaces
  <2>3. OnlyJob(j)
    BY <1>1, <2>1, <2>2 DEF OnlyJob, JobTypes
  <2>4. TrackOk(j)' /\ VerdictOk(j)' /\ CallbackOk(j)'
    BY <1>1, <2>1, <2>2 DEF TrackOk, VerdictOk, CallbackOk, TracksKept, Earned
  <2> QED BY <2>3, <2>4, JobFrame
<1> QED BY <1>2, <1>3 DEF Begin

\* Up to the verdict the marketplace has heard nothing.
LEMMA Unheard ==
    ASSUME JobInv, NEW j \in Jobs, OnlyJob(j), job[j].at \notin {"idle", "post", "apologise", "over"},
           job'[j].at \notin {"post", "apologise", "over"},
           job'[j].verdict = job[j].verdict, job'[j].raised = job[j].raised,
           UNCHANGED <<row, received>>
    PROVE  VerdictOk(j)' /\ CallbackOk(j)'
BY DEF JobInv, VerdictOk, CallbackOk

LEMMA HashStep ==
    ASSUME JobInv, NEW j \in Jobs, Hash(j)
    PROVE  JobInv'
<1> USE DEF JobInv
<1>1. PICK fetched \in BOOLEAN :
        job' = [job EXCEPT ![j].at = "rubric",
                    ![j].track1 = IF job[j].spec.hash THEN HashOutcome(j, fetched) ELSE "unset"]
  BY DEF Hash
<1>2. job[j].at = "hash" /\ UNCHANGED <<artifact, served, received, row>>
  BY DEF Hash, SameWorld
<1> DEFINE found == IF job[j].spec.hash THEN HashOutcome(j, fetched) ELSE "unset"
<1>3. /\ found \in Tracks /\ (found # "unset" <=> job[j].spec.hash)
      /\ found = "pass" => artifact = Agreed
  BY DEF HashOutcome, Tracks
<1> HIDE DEF found
<1>4. [[job[j] EXCEPT !.at = "rubric"] EXCEPT !.track1 = found] \in JobType
  <2>1. [job[j] EXCEPT !.at = "rubric"] \in JobType
    BY JobUpdates DEF JobTypes, JobPlaces
  <2> QED BY <1>3, <2>1, JobUpdates
<1>5. job' = [job EXCEPT ![j].at = "rubric", ![j].track1 = found]
  BY <1>1 DEF found
<1>6. /\ job' \in [Jobs -> JobType] /\ \A i \in Jobs : i # j => job'[i] = job[i]
      /\ job'[j].at = "rubric" /\ job'[j].spec = job[j].spec /\ job'[j].track1 = found
      /\ job'[j].track2 = job[j].track2 /\ job'[j].done = job[j].done
      /\ job'[j].verdict = job[j].verdict /\ job'[j].raised = job[j].raised
  BY <1>4, <1>5 DEF JobTypes, JobType
<1>7. OnlyJob(j)
  BY <1>2, <1>6 DEF OnlyJob, JobTypes
<1>8. TrackOk(j)'
  BY <1>2, <1>3, <1>6 DEF TrackOk
<1> QED BY <1>2, <1>6, <1>7, <1>8, Unheard, JobFrame

LEMMA RubricStep ==
    ASSUME JobInv, NEW j \in Jobs, Rubric(j)
    PROVE  JobInv'
<1> USE DEF JobInv
<1>1. job[j].at = "rubric" /\ UNCHANGED <<artifact, served, received, row>>
  BY DEF Rubric, SameWorld
<1>2. PICK loc \in {"judge", "launch"}, page \in Versions \cup {"nothing"}, found \in Tracks :
        /\ job' = [job EXCEPT ![j].at = loc, ![j].shown = page, ![j].track2 = found]
        /\ job[j].spec.inline <=> loc = "judge"
        /\ page = IF job[j].spec.inline THEN artifact ELSE job[j].shown
        /\ found # "unset" <=> RubricAsked(job[j].spec)
        /\ found = "pass" => artifact = Agreed /\ job[j].spec.rubric = "committed"
  <2>1. PICK fetched \in BOOLEAN :
          job' = [job EXCEPT
             ![j].at = IF job[j].spec.inline THEN "judge" ELSE "launch",
             ![j].shown = IF job[j].spec.inline THEN artifact ELSE @,
             ![j].track2 = IF RubricAsked(job[j].spec) THEN RubricOutcome(j, fetched) ELSE "unset"]
    BY DEF Rubric
  <2> DEFINE loc == IF job[j].spec.inline THEN "judge" ELSE "launch"
             page == IF job[j].spec.inline THEN artifact ELSE job[j].shown
             found == IF RubricAsked(job[j].spec) THEN RubricOutcome(j, fetched) ELSE "unset"
  <2>2. job' = [job EXCEPT ![j].at = loc, ![j].shown = page, ![j].track2 = found]
    BY <2>1
  <2>3. /\ loc \in {"judge", "launch"} /\ page \in Versions \cup {"nothing"} /\ found \in Tracks
        /\ job[j].spec.inline <=> loc = "judge"
        /\ found # "unset" <=> RubricAsked(job[j].spec)
        /\ found = "pass" => artifact = Agreed /\ job[j].spec.rubric = "committed"
    BY DEF RubricOutcome, Tracks, JobTypes, JobType
  <2>4. page = IF job[j].spec.inline THEN artifact ELSE job[j].shown
    OBVIOUS
  <2> HIDE DEF loc, page, found
  <2> QED BY <2>2, <2>3, <2>4
<1>3. [[[job[j] EXCEPT !.at = loc] EXCEPT !.shown = page] EXCEPT !.track2 = found] \in JobType
  <2>1. [job[j] EXCEPT !.at = loc] \in JobType
    BY JobUpdates DEF JobTypes, JobPlaces
  <2>2. [[job[j] EXCEPT !.at = loc] EXCEPT !.shown = page] \in JobType
    BY <2>1, JobUpdates
  <2> QED BY <2>2, JobUpdates
<1>4. /\ job' \in [Jobs -> JobType] /\ \A i \in Jobs : i # j => job'[i] = job[i]
      /\ job'[j].at = loc /\ job'[j].spec = job[j].spec /\ job'[j].track1 = job[j].track1
      /\ job'[j].track2 = found /\ job'[j].done = job[j].done /\ job'[j].shown = page
      /\ job'[j].verdict = job[j].verdict /\ job'[j].raised = job[j].raised
  BY <1>2, <1>3 DEF JobTypes, JobType
<1>5. OnlyJob(j)
  BY <1>1, <1>4 DEF OnlyJob, JobTypes
<1>6. TrackOk(j)'
  BY <1>1, <1>2, <1>4 DEF TrackOk
<1> QED BY <1>1, <1>2, <1>4, <1>5, <1>6, Unheard, JobFrame

LEMMA LaunchStep ==
    ASSUME JobInv, NEW j \in Jobs, LaunchBrowser(j) \/ CloseBrowser(j)
    PROVE  JobInv'
<1> USE DEF JobInv
<1>1. job[j].at \in {"launch", "act"} /\ UNCHANGED <<artifact, served, received>>
  BY DEF LaunchBrowser, CloseBrowser, SameWorld
<1>2. CASE Raise(j)
  <2>1. OnlyJob(j)
    BY <1>1, <1>2, RaiseJob DEF OnlyJob, JobTypes
  <2>2. TrackOk(j)' /\ VerdictOk(j)' /\ CallbackOk(j)'
    BY <1>1, <1>2, RaiseJob DEF TrackOk, VerdictOk, CallbackOk, TracksKept, Earned
  <2> QED BY <2>1, <2>2, JobFrame
<1>3. ASSUME NEW loc \in {"act", "judge"}, Go(j, loc), UNCHANGED row PROVE JobInv'
  <2>1. /\ job' \in [Jobs -> JobType] /\ \A i \in Jobs : i # j => job'[i] = job[i]
        /\ job'[j].at = loc /\ job'[j].spec = job[j].spec /\ TracksKept(j)
        /\ job'[j].verdict = job[j].verdict /\ job'[j].raised = job[j].raised
    BY <1>3, GoJob DEF JobPlaces
  <2>2. OnlyJob(j)
    BY <1>1, <1>3, <2>1 DEF OnlyJob, JobTypes
  <2>3. TrackOk(j)'
    BY <1>1, <1>3, <2>1 DEF TrackOk, TracksKept
  <2> QED BY <1>1, <1>3, <2>1, <2>2, <2>3, Unheard, JobFrame
<1> QED BY <1>2, <1>3 DEF LaunchBrowser, CloseBrowser

LEMMA ActStep ==
    ASSUME JobInv, NEW j \in Jobs, Act(j)
    PROVE  JobInv'
<1> USE DEF JobInv
<1>1. job[j].at = "act" /\ UNCHANGED <<artifact, served, received, row>>
  BY DEF Act, SameWorld
<1>2. PICK did \in SUBSET Counted, page \in Versions \cup {"nothing"} :
        /\ job' = [job EXCEPT ![j].step = @ + 1, ![j].done = did, ![j].shown = page]
        /\ \/ "NAVIGATE" \in did <=> "NAVIGATE" \in job[j].done
              /\ page = job[j].shown
           \/ page = artifact
  <2> DEFINE action == Plan[job[j].step + 1]
  <2>1. PICK success \in BOOLEAN :
          job' = [job EXCEPT ![j].step = @ + 1,
                 ![j].done = IF success THEN @ \cup ({action} \cap Counted) ELSE @,
                 ![j].shown = IF success /\ action = "NAVIGATE" THEN artifact ELSE @]
    BY DEF Act
  <2> DEFINE did == IF success THEN job[j].done \cup ({action} \cap Counted) ELSE job[j].done
             page == IF success /\ action = "NAVIGATE" THEN artifact ELSE job[j].shown
  <2>2. job' = [job EXCEPT ![j].step = @ + 1, ![j].done = did, ![j].shown = page]
    BY <2>1
  <2> HIDE DEF action
  <2>3. job[j].done \in SUBSET Counted /\ job[j].shown \in Versions \cup {"nothing"} /\ artifact \in Versions
    BY DEF JobTypes, JobType
  <2>4. did \in SUBSET Counted /\ page \in Versions \cup {"nothing"}
    BY <2>3
  <2>5. \/ ("NAVIGATE" \in did <=> "NAVIGATE" \in job[j].done) /\ page = job[j].shown
        \/ page = artifact
    BY DEF Counted
  <2> HIDE DEF did, page
  <2> QED BY <2>2, <2>4, <2>5
<1>3. [[[job[j] EXCEPT !.step = job[j].step + 1] EXCEPT !.done = did] EXCEPT !.shown = page] \in JobType
  <2>1. job[j].step + 1 \in Nat
    BY DEF JobTypes, JobType
  <2>2. [job[j] EXCEPT !.step = job[j].step + 1] \in JobType
    BY <2>1, JobUpdates DEF JobTypes
  <2>3. [[job[j] EXCEPT !.step = job[j].step + 1] EXCEPT !.done = did] \in JobType
    BY <2>2, JobUpdates
  <2> QED BY <2>3, JobUpdates
<1>4. /\ job' \in [Jobs -> JobType] /\ \A i \in Jobs : i # j => job'[i] = job[i]
      /\ job'[j].at = job[j].at /\ job'[j].spec = job[j].spec /\ job'[j].track1 = job[j].track1
      /\ job'[j].track2 = job[j].track2 /\ job'[j].done = did /\ job'[j].shown = page
      /\ job'[j].verdict = job[j].verdict /\ job'[j].raised = job[j].raised
  BY <1>2, <1>3 DEF JobTypes, JobType
<1>5. OnlyJob(j)
  BY <1>1, <1>4 DEF OnlyJob, JobTypes
<1>6. TrackOk(j)'
  BY <1>1, <1>2, <1>4 DEF TrackOk
<1> QED BY <1>1, <1>4, <1>5, <1>6, Unheard, JobFrame

\* The heart of it: a pass is decided by a track that was asked for, or by the page
\* if none was.
LEMMA PassedIsEarned ==
    ASSUME JobTypes, NEW j \in Jobs, TrackOk(j), job[j].at = "judge"
    PROVE  /\ Bundle(j).passed \in {"pass", "fail"}
           /\ Bundle(j).passed = "pass" => Earned(j)
<1> DEFINE spec == job[j].spec
<1>1. Bundle(j).passed = Outcome(j)
  BY DEF Bundle
<1>2. job[j].track1 \in {"unset", "pass", "fail"} /\ job[j].track2 \in {"unset", "pass", "fail"}
  BY DEF JobTypes, JobType, Tracks
<1>3. PageOutcome(j) \in {"pass", "fail"}
  BY DEF PageOutcome
<1>4. CASE job[j].track1 # "unset"
  <2>1. Outcome(j) = job[j].track1
    BY <1>4 DEF Outcome
  <2> QED BY <1>1, <1>2, <1>4, <2>1 DEF TrackOk, Earned
<1>5. CASE job[j].track1 = "unset" /\ job[j].track2 # "unset"
  <2>1. Outcome(j) = job[j].track2
    BY <1>5 DEF Outcome
  <2>2. job[j].track2 = "pass" => Agreed \in served[j] /\ spec.rubric = "committed"
    BY DEF TrackOk
  <2> QED BY <1>1, <1>2, <1>5, <2>1, <2>2 DEF Earned, RubricAsked
<1>6. CASE job[j].track1 = "unset" /\ job[j].track2 = "unset"
  <2>1. Outcome(j) = PageOutcome(j)
    BY <1>6 DEF Outcome
  <2>2. ~spec.hash /\ ~RubricAsked(spec)
    BY <1>6 DEF TrackOk
  <2>3. ASSUME PageOutcome(j) = "pass"
        PROVE  /\ spec.inline \/ "NAVIGATE" \in job[j].done
               /\ spec.content => job[j].shown = Agreed
    BY <2>3 DEF PageOutcome
  <2> QED BY <1>1, <1>3, <2>1, <2>2, <2>3 DEF TrackOk, Earned
<1> QED BY <1>2, <1>4, <1>5, <1>6

LEMMA JudgeStep ==
    ASSUME JobInv, NEW j \in Jobs, Judge(j)
    PROVE  JobInv'
<1> USE DEF JobInv
<1> DEFINE passed == Bundle(j).passed
<1>1. /\ job[j].at = "judge" /\ UNCHANGED <<artifact, served, received>>
      /\ job' = [job EXCEPT ![j].at = "post", ![j].verdict = passed]
      /\ row' = [row EXCEPT ![j] = [status |-> "completed", result |-> passed]]
  BY DEF Judge, SameWorld
<1>2. passed \in {"pass", "fail"} /\ (passed = "pass" => Earned(j))
  BY <1>1, PassedIsEarned
<1> HIDE DEF passed
<1>3. [[job[j] EXCEPT !.at = "post"] EXCEPT !.verdict = passed] \in JobType
  <2>1. [job[j] EXCEPT !.at = "post"] \in JobType
    BY JobUpdates DEF JobTypes, JobPlaces
  <2> QED BY <1>2, <2>1, JobUpdates DEF Verdicts
<1>4. /\ job' \in [Jobs -> JobType] /\ \A i \in Jobs : i # j => job'[i] = job[i]
      /\ job'[j].at = "post" /\ job'[j].spec = job[j].spec /\ TracksKept(j)
      /\ job'[j].verdict = passed /\ job'[j].raised = job[j].raised
  BY <1>1, <1>3 DEF JobTypes, JobType, TracksKept
<1>5. /\ row' \in [Jobs -> RowType] /\ \A i \in Jobs : i # j => row'[i] = row[i]
      /\ row'[j].status = "completed" /\ row'[j].result = passed
  BY <1>1, <1>2 DEF JobTypes, RowType, Verdicts
<1>6. OnlyJob(j)
  BY <1>1, <1>4, <1>5 DEF OnlyJob, JobTypes
<1>7. Earned(j)' <=> Earned(j)
  BY <1>1, <1>4 DEF Earned, TracksKept
<1>8. TrackOk(j)'
  BY <1>1, <1>4 DEF TrackOk, TracksKept
<1>9. VerdictOk(j)' /\ CallbackOk(j)'
  BY <1>1, <1>2, <1>4, <1>5, <1>7 DEF VerdictOk, CallbackOk
<1> QED BY <1>6, <1>8, <1>9, JobFrame

\* What an answer does to the verdicts of job j: one more, or none.
LEMMA RecordOne ==
    ASSUME JobTypes, NEW j \in Jobs, NEW v \in {"pass", "fail"}, Record(j, v) \/ UNCHANGED received
    PROVE  /\ received' \in [Jobs -> Seq({"pass", "fail"})]
           /\ \A i \in Jobs : i # j => received'[i] = received[i]
           /\ received'[j] \in {received[j], Append(received[j], v)}
<1>1. received[j] \in Seq({"pass", "fail"}) /\ received \in [Jobs -> Seq({"pass", "fail"})]
  BY DEF JobTypes
<1>2. Append(received[j], v) \in Seq({"pass", "fail"})
  BY <1>1
<1>3. received' = received \/ received' = [received EXCEPT ![j] = Append(received[j], v)]
  BY DEF Record
<1> QED BY <1>1, <1>2, <1>3

LEMMA PostStep ==
    ASSUME JobInv, NEW j \in Jobs, Post(j) \/ PostRefused(j) \/ PostRaises(j)
    PROVE  JobInv'
<1> USE DEF JobInv
<1> DEFINE v == job[j].verdict
<1>1. /\ job[j].at = "post" /\ UNCHANGED <<artifact, served>>
      /\ Record(j, v) \/ UNCHANGED received
  BY DEF Post, PostRefused, PostRaises, SameWorld
<1>2. received[j] = <<>> /\ v \in {"pass", "fail"} /\ (v = "pass" => Earned(j)) /\ ~job[j].raised
  BY <1>1 DEF CallbackOk, VerdictOk
<1> HIDE DEF v
<1>3. /\ received' \in [Jobs -> Seq({"pass", "fail"})]
      /\ \A i \in Jobs : i # j => received'[i] = received[i]
      /\ received'[j] \in {<<>>, <<v>>}
  <2>1. /\ received' \in [Jobs -> Seq({"pass", "fail"})]
        /\ \A i \in Jobs : i # j => received'[i] = received[i]
        /\ received'[j] \in {received[j], Append(received[j], v)}
    BY <1>1, <1>2, RecordOne
  <2>2. Append(<<>>, v) = <<v>>
    OBVIOUS
  <2> QED BY <1>2, <2>1, <2>2
<1>4. /\ Len(received'[j]) <= 1
      /\ \A i \in DOMAIN received'[j] : received'[j][i] = v
  <2>1. CASE received'[j] = <<>>
    BY <2>1
  <2>2. CASE received'[j] = <<v>>
    BY <2>2
  <2> QED BY <1>3, <2>1, <2>2
<1>5. CASE Go(j, "over") /\ UNCHANGED row
  <2>1. /\ job' \in [Jobs -> JobType] /\ \A i \in Jobs : i # j => job'[i] = job[i]
        /\ job'[j].at = "over" /\ job'[j].spec = job[j].spec /\ TracksKept(j)
        /\ job'[j].verdict = job[j].verdict /\ job'[j].raised = job[j].raised
    BY <1>5, GoJob DEF JobPlaces
  <2>2. OnlyJob(j)
    BY <1>1, <1>3, <1>5, <2>1 DEF OnlyJob, JobTypes
  <2>3. TrackOk(j)' /\ (Earned(j)' <=> Earned(j))
    BY <1>1, <2>1 DEF TrackOk, TracksKept, Earned
  <2>4. VerdictOk(j)'
    BY <1>2, <1>4, <2>1, <2>3 DEF VerdictOk, v
  <2>5. CallbackOk(j)'
    BY <1>1, <1>2, <1>4, <1>5, <2>1 DEF CallbackOk, v
  <2> QED BY <2>2, <2>3, <2>4, <2>5, JobFrame
<1>6. CASE Raise(j)
  <2>1. OnlyJob(j)
    BY <1>1, <1>3, <1>6, RaiseJob DEF OnlyJob, JobTypes
  <2>2. /\ job'[j].at = "apologise" /\ job'[j].spec = job[j].spec /\ TracksKept(j)
        /\ job'[j].verdict = v /\ job'[j].raised /\ row'[j].status = "failed"
    BY <1>1, <1>6, RaiseJob DEF v
  <2>3. TrackOk(j)' /\ (Earned(j)' <=> Earned(j))
    BY <1>1, <2>1, <2>2 DEF TrackOk, TracksKept, Earned, OnlyJob
  <2>4. VerdictOk(j)'
    BY <1>2, <1>4, <2>2, <2>3 DEF VerdictOk
  <2>5. CallbackOk(j)'
    BY <1>4, <2>2 DEF CallbackOk
  <2> QED BY <2>1, <2>3, <2>4, <2>5, JobFrame
<1> QED BY <1>5, <1>6 DEF Post, PostRefused, PostRaises

LEMMA ApologiseStep ==
    ASSUME JobInv, NEW j \in Jobs, Apologise(j)
    PROVE  JobInv'
<1> USE DEF JobInv
<1>1. /\ job[j].at = "apologise" /\ UNCHANGED <<artifact, served, row>> /\ Go(j, "over")
      /\ Record(j, "fail") \/ UNCHANGED received
  BY DEF Apologise, SameWorld
<1>2. /\ received' \in [Jobs -> Seq({"pass", "fail"})]
      /\ \A i \in Jobs : i # j => received'[i] = received[i]
      /\ received'[j] \in {received[j], Append(received[j], "fail")}
  BY <1>1, RecordOne
<1>3. /\ received[j] \in Seq({"pass", "fail"})
      /\ Len(received[j]) <= (IF job[j].raised THEN 1 ELSE 0) /\ row[j].status = "failed"
  BY <1>1 DEF CallbackOk, JobTypes
<1>4. /\ Len(received'[j]) <= (IF job[j].raised THEN 2 ELSE 1)
      /\ Len(received'[j]) = 2 => received'[j][2] = "fail"
      /\ \A i \in DOMAIN received'[j] :
            received'[j][i] = "fail" \/ (i \in DOMAIN received[j] /\ received'[j][i] = received[j][i])
  BY <1>2, <1>3
<1>5. /\ job' \in [Jobs -> JobType] /\ \A i \in Jobs : i # j => job'[i] = job[i]
      /\ job'[j].at = "over" /\ job'[j].spec = job[j].spec /\ TracksKept(j)
      /\ job'[j].verdict = job[j].verdict /\ job'[j].raised = job[j].raised
  BY <1>1, GoJob DEF JobPlaces
<1>6. OnlyJob(j)
  BY <1>1, <1>2, <1>5 DEF OnlyJob, JobTypes
<1>7. TrackOk(j)' /\ (Earned(j)' <=> Earned(j))
  BY <1>1, <1>5 DEF TrackOk, TracksKept, Earned
<1>8. VerdictOk(j)'
  BY <1>4, <1>5, <1>7 DEF VerdictOk
<1>9. CallbackOk(j)'
  BY <1>1, <1>3, <1>4, <1>5 DEF CallbackOk
<1> QED BY <1>6, <1>7, <1>8, <1>9, JobFrame

\* A new job: one that was forgotten by a restart keeps no verdict, because its
\* coroutine never began.
LEMMA StartStep ==
    ASSUME JobInv, NEW j \in Jobs, NEW kind \in {"plain", "arbitrage"}, NEW spec \in Specs,
           StartVerification(j, kind, spec)
    PROVE  JobInv'
<1> USE DEF JobInv
<1>1. /\ job[j].at = "idle" /\ UNCHANGED <<artifact, received>>
      /\ row' = [row EXCEPT ![j] = [status |-> "pending", result |-> "none"]]
      /\ served' = [served EXCEPT ![j] = {artifact}]
      /\ job' = [job EXCEPT ![j] = [NoJob EXCEPT !.at = "begin", !.kind = kind, !.spec = spec]]
  BY DEF StartVerification
<1> DEFINE new == [NoJob EXCEPT !.at = "begin", !.kind = kind, !.spec = spec]
<1>2. NoJob \in JobType
  BY DEF NoJob, JobType, JobPlaces, Tracks, Verdicts
<1>3. new \in JobType
  <2>1. [NoJob EXCEPT !.at = "begin"] \in JobType
    BY <1>2, JobUpdates DEF JobPlaces
  <2>2. [[NoJob EXCEPT !.at = "begin"] EXCEPT !.kind = kind] \in JobType
    BY <2>1, JobUpdates
  <2> QED BY <2>2, JobUpdates
<1>4. /\ new.at = "begin" /\ new.spec = spec /\ new.track1 = "unset" /\ new.track2 = "unset"
      /\ new.done = {} /\ new.verdict = "none" /\ new.raised = FALSE
  <2>1. /\ NoJob.track1 = "unset" /\ NoJob.track2 = "unset" /\ NoJob.done = {}
        /\ NoJob.verdict = "none" /\ NoJob.raised = FALSE
    BY DEF NoJob
  <2> QED BY <1>2, <2>1 DEF JobType
<1>5. job' = [job EXCEPT ![j] = new]
  BY <1>1
<1> HIDE DEF new
<1>6. received[j] = <<>>
  BY <1>1 DEF CallbackOk
<1>7. JobTypes'
  BY <1>1, <1>3, <1>4, <1>5 DEF JobTypes, RowType, Verdicts
<1>8. TrackOk(j)' /\ VerdictOk(j)' /\ CallbackOk(j)'
  <2>1. job'[j] = new /\ row'[j].status = "pending" /\ served'[j] = {artifact}
    BY <1>1, <1>5 DEF JobTypes
  <2>2. received'[j] = <<>> /\ artifact' = artifact
    BY <1>1, <1>6
  <2>3. TrackOk(j)'
    BY <1>4, <2>1, <2>2 DEF TrackOk
  <2>4. VerdictOk(j)'
    BY <1>4, <2>1, <2>2 DEF VerdictOk
  <2>5. CallbackOk(j)'
    BY <1>4, <2>1, <2>2 DEF CallbackOk
  <2> QED BY <2>3, <2>4, <2>5
<1>9. ASSUME NEW i \in Jobs, i # j PROVE TrackOk(i)' /\ VerdictOk(i)' /\ CallbackOk(i)'
  <2>1. /\ job'[i] = job[i] /\ row'[i] = row[i] /\ received'[i] = received[i]
        /\ served'[i] = served[i] /\ artifact' = artifact
    BY <1>1, <1>5, <1>9 DEF JobTypes
  <2>2. Earned(i)' <=> Earned(i)
    BY <2>1 DEF Earned
  <2> QED BY <2>1, <2>2 DEF TrackOk, VerdictOk, CallbackOk
<1> QED BY <1>7, <1>8, <1>9

\* The owner publishes another version: the jobs under way may see it from now on.
LEMMA PublishStep ==
    ASSUME JobInv, NEW v \in Versions, Publish(v)
    PROVE  JobInv'
<1> USE DEF JobInv
<1>1. UNCHANGED <<job, row, received>> /\ artifact' = v
  BY DEF Publish
<1>2. /\ served' \in [Jobs -> SUBSET Versions]
      /\ \A j \in Jobs : /\ served[j] \subseteq served'[j]
                         /\ job[j].at \notin {"idle", "over"} => v \in served'[j]
  BY DEF Publish, JobTypes, Running
<1>3. JobTypes'
  BY <1>1, <1>2 DEF JobTypes
<1>4. ASSUME NEW j \in Jobs PROVE TrackOk(j)' /\ VerdictOk(j)' /\ CallbackOk(j)'
  <2>1. served[j] \subseteq served'[j] /\ (job[j].at \notin {"idle", "over"} => v \in served'[j])
    BY <1>2
  <2>2. Earned(j) => Earned(j)'
    BY <1>1, <2>1 DEF Earned
  <2>3. TrackOk(j)'
    BY <1>1, <2>1 DEF TrackOk
  <2>4. VerdictOk(j)'
    BY <1>1, <2>2 DEF VerdictOk
  <2>5. CallbackOk(j)'
    BY <1>1 DEF CallbackOk
  <2> QED BY <2>3, <2>4, <2>5
<1> QED BY <1>3, <1>4

\* A restart takes the rows and the coroutines; what was recorded stays recorded.
LEMMA RestartStep ==
    ASSUME JobInv, Restart
    PROVE  JobInv'
<1> USE DEF JobInv
<1>1. /\ UNCHANGED <<artifact, received, served>>
      /\ job' = [j \in Jobs |-> IF job[j].at = "idle" THEN NoJob ELSE [job[j] EXCEPT !.at = "over"]]
      /\ row' = [j \in Jobs |-> NoRow]
  BY DEF Restart
<1>2. /\ NoJob \in JobType /\ NoJob.at = "idle" /\ NoJob.verdict = "none" /\ ~NoJob.raised
      /\ NoJob.track1 = "unset" /\ NoJob.track2 = "unset"
  BY DEF NoJob, JobType, JobPlaces, Tracks, Verdicts
<1>3. \A j \in Jobs : [job[j] EXCEPT !.at = "over"] \in JobType
  BY JobUpdates DEF JobTypes, JobPlaces
<1>4. JobTypes'
  <2>1. job' \in [Jobs -> JobType]
    BY <1>1, <1>2, <1>3
  <2>2. \A j \in Jobs : job'[j].at # "idle" => job'[j].spec \in Specs
    <3>1. SUFFICES ASSUME NEW j \in Jobs, job'[j].at # "idle" PROVE job'[j].spec \in Specs
      OBVIOUS
    <3>2. job[j].at # "idle" /\ job'[j] = [job[j] EXCEPT !.at = "over"] /\ job[j] \in JobType
      BY <1>1, <1>2, <3>1 DEF JobTypes
    <3>3. job'[j].spec = job[j].spec
      BY <3>2 DEF JobType
    <3> QED BY <3>2, <3>3 DEF JobTypes
  <2>3. row' \in [Jobs -> RowType]
    BY <1>1 DEF NoRow, RowType, Verdicts
  <2> QED BY <1>1, <2>1, <2>2, <2>3 DEF JobTypes
<1>5. ASSUME NEW j \in Jobs PROVE TrackOk(j)' /\ VerdictOk(j)' /\ CallbackOk(j)'
  <2>1. row'[j].status = "none"
    BY <1>1 DEF NoRow
  <2>2. CASE job[j].at = "idle"
    <3>1. job'[j] = NoJob /\ received'[j] = <<>>
      BY <1>1, <2>2 DEF CallbackOk
    <3> QED BY <1>2, <2>1, <3>1 DEF TrackOk, VerdictOk, CallbackOk
  <2>3. CASE job[j].at # "idle"
    <3>1. job'[j] = [job[j] EXCEPT !.at = "over"] /\ job[j] \in JobType
      BY <1>1, <2>3 DEF JobTypes
    <3>2. /\ job'[j].at = "over" /\ job'[j].spec = job[j].spec /\ TracksKept(j)
          /\ job'[j].verdict = job[j].verdict /\ (job'[j].raised <=> job[j].raised)
      BY <3>1 DEF JobType, TracksKept
    <3>3. Earned(j)' <=> Earned(j)
      BY <1>1, <3>2 DEF Earned, TracksKept
    <3>4. TrackOk(j)'
      BY <1>1, <3>2 DEF TrackOk, TracksKept
    <3>5. VerdictOk(j)'
      BY <1>1, <3>2, <3>3 DEF VerdictOk
    <3>6. Len(received[j]) <= (IF job[j].raised THEN 2 ELSE 1)
      BY <2>3 DEF CallbackOk, JobTypes
    <3>7. CallbackOk(j)'
      BY <1>1, <2>1, <3>2, <3>6 DEF CallbackOk
    <3> QED BY <3>4, <3>5, <3>7
  <2> QED BY <2>2, <2>3
<1> QED BY <1>4, <1>5

-----------------------------------------------------------------------------
(* Whole steps                                                             *)

LEMMA JobStepKeeps ==
    ASSUME JobInv, NEW j \in Jobs, JobStep(j)
    PROVE  JobInv'
<1>1. CASE PostRaises(j) \/ PostRefused(j) \/ Post(j)
  BY <1>1, PostStep
<1>2. CASE ~(PostRaises(j) \/ PostRefused(j) \/ Post(j))
  BY <1>2, BeginStep, HashStep, RubricStep, LaunchStep, ActStep, JudgeStep, ApologiseStep
     DEF JobStep
<1> QED BY <1>1, <1>2

LEMMA JobQuiet ==
    ASSUME JobInv, UNCHANGED verifyVars
    PROVE  JobInv'
<1>1. UNCHANGED <<artifact, job, row, received, served>>
  BY DEF verifyVars
<1> QED BY <1>1 DEF JobInv, JobTypes, TrackOk, VerdictOk, CallbackOk, Earned

LEMMA JobInvInit == Init => JobInv
<1> SUFFICES ASSUME Init PROVE JobInv
  OBVIOUS
<1>1. /\ NoJob \in JobType /\ NoJob.at = "idle" /\ NoJob.verdict = "none" /\ NoJob.raised = FALSE
      /\ NoJob.track1 = "unset" /\ NoJob.track2 = "unset"
  BY DEF NoJob, JobType, JobPlaces, Tracks, Verdicts
<1>2. /\ artifact \in Versions /\ job = [j \in Jobs |-> NoJob] /\ row = [j \in Jobs |-> NoRow]
      /\ received = [j \in Jobs |-> <<>>] /\ served = [j \in Jobs |-> {}]
  BY DEF Init
<1>3. JobTypes
  <2>1. row \in [Jobs -> RowType]
    BY <1>2 DEF NoRow, RowType, Verdicts
  <2> QED BY <1>1, <1>2, <2>1 DEF JobTypes
<1>4. ASSUME NEW j \in Jobs PROVE TrackOk(j) /\ VerdictOk(j) /\ CallbackOk(j)
  <2>1. job[j] = NoJob /\ received[j] = <<>> /\ row[j].status = "none"
    BY <1>2 DEF NoRow
  <2>2. TrackOk(j)
    BY <1>1, <2>1 DEF TrackOk
  <2>3. VerdictOk(j)
    BY <1>1, <2>1 DEF VerdictOk
  <2>4. CallbackOk(j)
    BY <1>1, <2>1 DEF CallbackOk
  <2> QED BY <2>2, <2>3, <2>4
<1> QED BY <1>3, <1>4 DEF JobInv

LEMMA JobInvStep == JobInv /\ [Next]_vars => JobInv'
<1> SUFFICES ASSUME JobInv, [Next]_vars PROVE JobInv'
  OBVIOUS
<1>1. ASSUME NEW r \in Runs, RunStep(r) \/ RunFault(r) \/ StoreSession(r), UNCHANGED verifyVars
      PROVE  JobInv'
  BY <1>1, JobQuiet
<1>2. ASSUME NEW j \in Jobs, NEW kind \in {"plain", "arbitrage"}, NEW spec \in Specs,
             StartVerification(j, kind, spec)
      PROVE  JobInv'
  BY <1>2, StartStep
<1>3. ASSUME NEW j \in Jobs, JobStep(j) PROVE JobInv'
  BY <1>3, JobStepKeeps
<1>4. ASSUME NEW v \in Versions, Publish(v) PROVE JobInv'
  BY <1>4, PublishStep
<1>5. CASE Restart
  BY <1>5, RestartStep
<1>6. CASE Over \/ UNCHANGED vars
  BY <1>6, JobQuiet DEF Over, vars
<1> QED BY <1>1, <1>2, <1>3, <1>4, <1>5, <1>6 DEF Next

\* The invariant of the verification jobs holds in every reachable state.
THEOREM JobSafety == Spec => []JobInv
BY JobInvInit, JobInvStep, PTL DEF Spec

\* run_verification and evaluate_result: whatever the owner of the deliverable
\* publishes while the job runs, and whichever fetch fails, a pass that the
\* marketplace records was decided on the agreed artifact.
THEOREM PassesAreEarned == Spec => []PassIsEarned
<1>1. JobInv => PassIsEarned
  BY DEF JobInv, VerdictOk, PassIsEarned
<1> QED BY <1>1, JobSafety, PTL

\* _run_and_callback: the marketplace has one verdict of a job, the one the row
\* answers; only a POST that raised may be followed by a negative one.
THEOREM MarketplaceAgrees == Spec => []VerdictsAgree
<1>1. ASSUME JobInv, NEW j \in Jobs
      PROVE  /\ ~job[j].raised => Len(received[j]) <= 1
             /\ Len(received[j]) = 2 => received[j][2] = "fail"
             /\ StatusAnswer(j).status = "completed" =>
                   \A i \in DOMAIN received[j] : received[j][i] = StatusAnswer(j).result
  <2>1. CallbackOk(j) /\ received[j] \in Seq({"pass", "fail"}) /\ job[j].at \in JobPlaces
    BY <1>1 DEF JobInv, JobTypes, JobType
  <2>2. ~job[j].raised => Len(received[j]) <= 1
    BY <2>1 DEF CallbackOk, JobPlaces
  <2>3. StatusAnswer(j).status = "completed" => row[j].status = "completed" /\ StatusAnswer(j) = row[j]
    BY DEF StatusAnswer
  <2>4. row[j].status = "completed" => \A i \in DOMAIN received[j] : received[j][i] = row[j].result
    BY <2>1 DEF CallbackOk
  <2> QED BY <2>1, <2>2, <2>3, <2>4 DEF CallbackOk
<1>2. JobInv => VerdictsAgree
  BY <1>1 DEF VerdictsAgree
<1> QED BY <1>2, JobSafety, PTL

-----------------------------------------------------------------------------
(* The bridge                                                              *)

BridgeAll == BridgeTypes /\ BridgeInv /\ SessionsCleared

LEMMA BridgeQuiet ==
    ASSUME BridgeAll, UNCHANGED <<run, vault, kept>>
    PROVE  BridgeAll'
BY DEF BridgeAll, BridgeTypes, BridgeInv, SessionsCleared

LEMMA BridgeAllInit == Init => BridgeAll
BY DEF Init, BridgeInit, NoBridge, BridgeAll, BridgeTypes, BridgeInv, SessionsCleared, RunType,
     RunPlaces

LEMMA BridgeAllStep == BridgeAll /\ [Next]_vars => BridgeAll'
<1> SUFFICES ASSUME BridgeAll, [Next]_vars PROVE BridgeAll'
  OBVIOUS
<1>1. ASSUME NEW r \in Runs, RunStep(r) \/ RunFault(r) \/ StoreSession(r) PROVE BridgeAll'
  BY <1>1, BridgeStep DEF BridgeAll
<1>2. ASSUME NEW j \in Jobs, NEW kind \in {"plain", "arbitrage"}, NEW spec \in Specs,
             StartVerification(j, kind, spec)
      PROVE  BridgeAll'
  BY <1>2, BridgeQuiet DEF StartVerification, bridgeVars
<1>3. ASSUME NEW j \in Jobs, JobStep(j) PROVE BridgeAll'
  <2>1. SameWorld
    BY <1>3 DEF JobStep, Begin, Hash, Rubric, LaunchBrowser, Act, CloseBrowser, Judge, Post,
         PostRefused, PostRaises, Apologise
  <2> QED BY <2>1, BridgeQuiet DEF SameWorld
<1>4. ASSUME NEW v \in Versions, Publish(v) PROVE BridgeAll'
  BY <1>4, BridgeQuiet DEF Publish, bridgeVars
<1>5. CASE Restart
  <2>1. /\ run' = [r \in Runs |-> IF run[r].at \in {"idle"} \cup Ended THEN run[r]
                                   ELSE [NoBridge EXCEPT !.at = "dead"]]
        /\ UNCHANGED <<vault, kept>>
    BY <1>5 DEF Restart, RunsRestart
  <2> DEFINE dead == [NoBridge EXCEPT !.at = "dead"]
  <2>2. dead \in RunType /\ dead.at = "dead" /\ ~dead.held /\ ~dead.page
    BY DEF NoBridge, RunType, RunPlaces
  <2>3. run' = [r \in Runs |-> IF run[r].at \in {"idle"} \cup Ended THEN run[r] ELSE dead]
    BY <2>1
  <2> HIDE DEF dead
  <2> QED BY <2>1, <2>2, <2>3 DEF BridgeAll, BridgeTypes, BridgeInv, SessionsCleared, Ended
<1>6. CASE Over \/ UNCHANGED vars
  BY <1>6, BridgeQuiet DEF Over, vars, bridgeVars
<1> QED BY <1>1, <1>2, <1>3, <1>4, <1>5, <1>6 DEF Next

\* The invariant of the browsers and their sessions holds in every reachable state.
THEOREM BridgeSafety == Spec => []BridgeAll
BY BridgeAllInit, BridgeAllStep, PTL DEF Spec

\* _execute_agent_inner: however a run ends, a session file that was stored before
\* its end is gone unless its deletion itself failed.
THEOREM NoSessionLeft == Spec => []SessionsCleared
<1>1. BridgeAll => SessionsCleared
  BY DEF BridgeAll
<1> QED BY <1>1, BridgeSafety, PTL

-----------------------------------------------------------------------------
(* The browsers                                                            *)

LEMMA BrowserInit ==
    Init => BrowserInv
<1> SUFFICES ASSUME Init PROVE BrowserInv
  OBVIOUS
<1>1. Holders = {} /\ Strays = {} /\ Acting = {}
  BY DEF Init, BridgeInit, NoBridge, NoJob, Holders, Strays, Stray, Acting
<1> QED BY <1>1, FS_EmptySet DEF Init, BridgeInit, BrowserInv

\* A step of a job starts or ends the browser of its own page.
LEMMA BrowserJobStep ==
    ASSUME JobInv, BrowserInv, NEW j \in Jobs, JobStep(j)
    PROVE  BrowserInv'
<1>0. /\ Cardinality(Acting) \in Nat
      /\ Cardinality(Holders) \in Nat /\ Cardinality(Strays) \in Nat
  BY FS_CardinalityType DEF BrowserInv
<1>1. UNCHANGED <<run, strikes>>
  BY DEF JobStep, SameWorld, Begin, Hash, Rubric, LaunchBrowser, Act, CloseBrowser, Judge, Post,
       PostRefused, PostRaises, Apologise
<1>2. Holders' = Holders /\ Strays' = Strays
  BY <1>1 DEF Holders, Strays, Stray
<1>3. JobTypes
  BY DEF JobInv
<1>4. ASSUME job'[j].at = "act" <=> job[j].at = "act",
             \A i \in Jobs : i # j => job'[i] = job[i], UNCHANGED chromes
      PROVE  BrowserInv'
  <2>1. Acting' = Acting
    BY <1>4, Zenon DEF Acting
  <2> QED BY <1>1, <1>2, <1>4, <2>1 DEF BrowserInv
<1>5. CASE LaunchBrowser(j)
  <2>1. CASE Raise(j) /\ UNCHANGED chromes
    BY <1>3, <1>4, <1>5, <2>1, RaiseJob DEF LaunchBrowser
  <2>2. CASE Go(j, "act") /\ chromes' = chromes + 1
    <3>1. job[j].at = "launch" /\ job'[j].at = "act" /\ \A i \in Jobs : i # j => job'[i] = job[i]
      BY <1>3, <1>5, <2>2, GoJob DEF LaunchBrowser, JobPlaces
    <3>2. Acting' = Acting \cup {j} /\ j \notin Acting
      BY <3>1 DEF Acting
    <3>3. IsFiniteSet(Acting') /\ Cardinality(Acting') = Cardinality(Acting) + 1
      BY <3>2, OneMoreOneLess DEF BrowserInv
    <3> QED BY <1>0, <1>1, <1>2, <2>2, <3>3 DEF BrowserInv
  <2> QED BY <1>5, <2>1, <2>2 DEF LaunchBrowser
<1>6. CASE CloseBrowser(j)
  <2>1. job[j].at = "act" /\ job'[j].at # "act" /\ \A i \in Jobs : i # j => job'[i] = job[i]
    BY <1>3, <1>6, GoJob, RaiseJob DEF CloseBrowser, JobPlaces
  <2>2. Acting' = Acting \ {j} /\ j \in Acting
    BY <2>1 DEF Acting
  <2>3. IsFiniteSet(Acting') /\ Cardinality(Acting') = Cardinality(Acting) - 1
    BY <2>2, OneMoreOneLess DEF BrowserInv
  <2>4. chromes' = chromes - 1
    BY <1>6 DEF CloseBrowser
  <2> QED BY <1>0, <1>1, <1>2, <2>3, <2>4 DEF BrowserInv
<1>7. CASE Begin(j) \/ PostRaises(j)
  <2>1. job[j].at \in {"begin", "post"} /\ UNCHANGED chromes /\ (Raise(j) \/ Go(j, "hash"))
    BY <1>7 DEF Begin, PostRaises
  <2>2. job'[j].at # "act" /\ \A i \in Jobs : i # j => job'[i] = job[i]
    BY <1>3, <2>1, GoJob, RaiseJob DEF JobPlaces
  <2> QED BY <1>4, <2>1, <2>2
<1>8. CASE Post(j) \/ PostRefused(j) \/ Apologise(j)
  <2>1. job[j].at \in {"post", "apologise"} /\ UNCHANGED chromes /\ Go(j, "over")
    BY <1>8 DEF Post, PostRefused, Apologise
  <2>2. job'[j].at # "act" /\ \A i \in Jobs : i # j => job'[i] = job[i]
    BY <1>3, <2>1, GoJob DEF JobPlaces
  <2> QED BY <1>4, <2>1, <2>2
<1>9. CASE Hash(j) \/ Rubric(j) \/ Act(j) \/ Judge(j)
  <2>1. /\ job \in [Jobs -> JobType] /\ job[j] \in JobType
    BY <1>3 DEF JobTypes
  <2>2. UNCHANGED chromes /\ \A i \in Jobs : i # j => job'[i] = job[i]
    BY <1>9, <2>1 DEF Hash, Rubric, Act, Judge
  <2>3. job'[j].at = "act" <=> job[j].at = "act"
    <3>1. CASE Hash(j)
      BY <2>1, <3>1 DEF Hash, JobType
    <3>2. CASE Rubric(j)
      BY <2>1, <3>2 DEF Rubric, JobType
    <3>3. CASE Act(j)
      BY <2>1, <3>3 DEF Act, JobType
    <3>4. CASE Judge(j)
      BY <2>1, <3>4 DEF Judge, JobType
    <3> QED BY <1>9, <3>1, <3>2, <3>3, <3>4
  <2> QED BY <1>4, <2>2, <2>3
<1> QED BY <1>5, <1>6, <1>7, <1>8, <1>9 DEF JobStep

LEMMA BrowserStep ==
    BrowserInv /\ JobInv /\ BridgeAll /\ [Next]_vars => BrowserInv'
<1> SUFFICES ASSUME BrowserInv, JobInv, BridgeAll, [Next]_vars PROVE BrowserInv'
  OBVIOUS
<1>1. ASSUME NEW r \in Runs, RunStep(r) \/ RunFault(r) \/ StoreSession(r), UNCHANGED verifyVars
      PROVE  BrowserInv'
  BY <1>1, BrowserRunStep DEF BridgeAll, verifyVars
<1>2. ASSUME NEW j \in Jobs, NEW kind \in {"plain", "arbitrage"}, NEW spec \in Specs,
             StartVerification(j, kind, spec)
      PROVE  BrowserInv'
  <2>1. UNCHANGED <<run, chromes, strikes>> /\ job[j].at = "idle" /\ job \in [Jobs -> JobType]
    BY <1>2 DEF StartVerification, bridgeVars, JobInv, JobTypes
  <2>2. job'[j].at = "begin" /\ \A i \in Jobs : i # j => job'[i] = job[i]
    BY <1>2, <2>1 DEF StartVerification, NoJob
  <2>3. Acting' = Acting
    BY <2>1, <2>2 DEF Acting
  <2>4. Holders' = Holders /\ Strays' = Strays
    BY <2>1 DEF Holders, Strays, Stray
  <2> QED BY <2>1, <2>3, <2>4 DEF BrowserInv
<1>3. ASSUME NEW j \in Jobs, JobStep(j) PROVE BrowserInv'
  BY <1>3, BrowserJobStep
<1>4. CASE UNCHANGED <<run, chromes, strikes, job>>
  BY <1>4 DEF BrowserInv, Holders, Strays, Stray, Acting
<1>5. CASE Restart
  <2>1. /\ run' = [r \in Runs |-> IF run[r].at \in {"idle"} \cup Ended THEN run[r]
                                   ELSE [NoBridge EXCEPT !.at = "dead"]]
        /\ chromes' = 0 /\ strikes' = 0
        /\ job' = [j \in Jobs |-> IF job[j].at = "idle" THEN NoJob ELSE [job[j] EXCEPT !.at = "over"]]
    BY <1>5 DEF Restart, RunsRestart
  <2>2. Holders' = {} /\ Strays' = {}
    <3>1. \A r \in Runs : ~run'[r].held
      BY <2>1 DEF BridgeAll, BridgeInv, NoBridge, Ended
    <3> QED BY <3>1 DEF Holders, Strays, Stray
  <2>3. Acting' = {}
    <3>1. \A j \in Jobs : job'[j].at # "act"
      BY <2>1 DEF JobInv, JobTypes, JobType, NoJob
    <3> QED BY <3>1 DEF Acting
  <2> QED BY <2>1, <2>2, <2>3, FS_EmptySet DEF BrowserInv
<1>6. (Over \/ UNCHANGED vars \/ \E v \in Versions : Publish(v)) => UNCHANGED <<run, chromes, strikes, job>>
  BY DEF Over, vars, bridgeVars, verifyVars, Publish
<1> QED BY <1>1, <1>2, <1>3, <1>4, <1>5, <1>6 DEF Next

\* _run_browser_session and ConduitBridge.stop: every Chromium alive is held by a
\* bridge or a verification job, or was left by a start or a stop that failed.
THEOREM NoBrowserForgotten == Spec => []BrowsersAccounted
<1>1. Spec => []BrowserInv
  BY BrowserInit, BrowserStep, JobSafety, BridgeSafety, PTL DEF Spec
<1>2. BrowserInv => BrowsersAccounted
  BY FS_CardinalityType DEF BrowserInv, BrowsersAccounted, Acting
<1> QED BY <1>1, <1>2, PTL
=============================================================================
