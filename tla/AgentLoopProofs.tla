--------------------------- MODULE AgentLoopProofs --------------------------
(***************************************************************************)
(* What holds of every tree of agent runs, whatever the tables of tools,   *)
(* risks and delegation targets say and however deep the tree may grow:    *)
(* delegation never comes back, effects are announced, a run that ends ok  *)
(* has evidence, and a grant allows one deployment.                        *)
(*                                                                         *)
(* A step changes the stack in one of four ways: the first run starts, the *)
(* top run becomes another frame of the same run, the top run leaves and   *)
(* its parent is resumed, or a child is put on top.                        *)
(***************************************************************************)
EXTENDS AgentLoop, SequenceTheorems, TLAPS

-----------------------------------------------------------------------------
(* The inductive invariant                                                 *)

\* What a frame says of the tool call it is at, and of the authorization it keeps.
FrameOk(f) ==
    /\ f.pc \in {"tools", "running", "child"} => f.asked > 0
    /\ f.pc = "running" /\ f.tool = "file_write" => f.files < MaxFiles
    /\ f.auth # "unbound" => "deployment" \in Allowed[f.agent] /\ "deployment" \in f.risks

\* Every run but the top one waits for a child.
PlacesOk ==
    \A i \in 1 .. Len(stack) :
        FrameOk(stack[i]) /\ (stack[i].pc = "child" <=> i < Len(stack))

\* The runs of the stack are different runs under way, and no other run was started.
RunsOk ==
    /\ \A i \in 1 .. Len(stack) :
          /\ stack[i].run <= runs
          /\ who[stack[i].run] = stack[i].agent
          /\ result[stack[i].run] = "none"
    /\ \A i, j \in 1 .. Len(stack) : i # j => stack[i].run # stack[j].run
    /\ \A r \in RunIds : r > runs => result[r] = "none"

\* A successful call in a run's trace has its event in the audit chain.
EvidenceOk ==
    \A i \in 1 .. Len(stack) : stack[i].oks > 0 => tally[stack[i].run].events > 0

LoopTypes ==
    /\ stack \in Seq(Frame) /\ runs \in 0 .. MaxRuns
    /\ who \in [RunIds -> Agents \cup {NoAgent}]
    /\ result \in [RunIds -> {"none", "ok", "failed", "raised", "rejected"}]
    /\ tally \in [RunIds -> [intents : Nat, effects : Nat, events : Nat]]

LoopInv ==
    /\ LoopTypes /\ ChainSound /\ PlacesOk /\ RunsOk
    /\ EffectsAnnounced /\ EvidenceOk /\ OkHasEvidence

\* What the durable session of run r must come to say.
Final(r) == IF result[r] = "ok" THEN "COMPLETED" ELSE "FAILED"

\* The end of a run is still to be written, as the last write of that run, or it was
\* written.
OutcomeOnItsWay(r) ==
    \/ \E k \in 1 .. Len(writes) :
          /\ writes[k] = <<r, Final(r)>>
          /\ \A m \in 1 .. Len(writes) : m > k => writes[m][1] # r
    \/ /\ \A m \in 1 .. Len(writes) : writes[m][1] # r
       /\ sessions[r] \in {"NONE", Final(r)}

SessionsInv ==
    /\ sessions \in [RunIds -> Status \cup {"NONE"}]
    /\ writes \in Seq(RunIds \X Status) /\ lost \subseteq RunIds
    /\ \A r \in RunIds :
          r \notin lost /\ result[r] \in {"ok", "failed", "raised"} => OutcomeOnItsWay(r)

\* The rest of the type invariant.
SideTypes ==
    /\ grant \in {"none", "unused", "spent"} /\ deploys \in Nat
    /\ vault \in BOOLEAN /\ faults \in 0 .. MaxFaults

-----------------------------------------------------------------------------
(* Frames                                                                  *)

LEMMA FrameUpdates ==
    ASSUME NEW f \in Frame
    PROVE  /\ \A v \in {"enter", "loop", "llm", "tools", "running", "child"} :
                [f EXCEPT !.pc = v] \in Frame
           /\ \A v \in 0 .. MaxTurns : [f EXCEPT !.turn = v] \in Frame
           /\ \A v \in Nat : [f EXCEPT !.calls = v] \in Frame
           /\ \A v \in 0 .. MaxTokens : [f EXCEPT !.tokens = v] \in Frame
           /\ \A v \in 0 .. MaxFiles : [f EXCEPT !.files = v] \in Frame
           /\ \A v \in Nat : [f EXCEPT !.asked = v] \in Frame
           /\ \A v \in Nat : [f EXCEPT !.oks = v] \in Frame
           /\ \A v \in Auths : [f EXCEPT !.auth = v] \in Frame
           /\ \A v \in Tools \cup {"none"} : [f EXCEPT !.tool = v] \in Frame
    BY DEF Frame

\* Two frames of one call of execute_agent.
Same(f, g) ==
    /\ f.run = g.run /\ f.agent = g.agent /\ f.chain = g.chain
    /\ f.depth = g.depth /\ f.risks = g.risks

\* A call of a tool that is over: one fewer asked for, and what it was worth.
LEMMA RecordedFrame ==
    ASSUME NEW f \in Frame, f.asked > 0, NEW ok \in BOOLEAN
    PROVE  /\ Recorded(f, ok) \in Frame /\ Same(Recorded(f, ok), f)
           /\ Recorded(f, ok).pc \in {"loop", "tools"}
           /\ Recorded(f, ok).pc = "tools" => Recorded(f, ok).asked > 0
           /\ Recorded(f, ok).auth = f.auth
           /\ Recorded(f, ok).oks = IF ok THEN f.oks + 1 ELSE f.oks
<1> DEFINE oks == IF ok THEN f.oks + 1 ELSE f.oks
           pc == IF f.asked = 1 THEN "loop" ELSE "tools"
<1>1. f.asked - 1 \in Nat /\ oks \in Nat /\ pc \in {"loop", "tools"}
  BY DEF Frame
<1>2. pc = "tools" => f.asked - 1 > 0
  BY DEF Frame
<1>3. Recorded(f, ok) = [f EXCEPT !.asked = @ - 1, !.oks = IF ok THEN @ + 1 ELSE @,
                                  !.tool = "none", !.pc = pc]
  BY DEF Recorded
<1>4. Recorded(f, ok) = [f EXCEPT !.asked = f.asked - 1, !.oks = oks, !.tool = "none", !.pc = pc]
  BY <1>3 DEF Frame
<1> HIDE DEF oks, pc
<1>5. [f EXCEPT !.asked = f.asked - 1] \in Frame
  BY <1>1, FrameUpdates
<1>6. [[f EXCEPT !.asked = f.asked - 1] EXCEPT !.oks = oks] \in Frame
  BY <1>1, <1>5, FrameUpdates
<1>7. [[[f EXCEPT !.asked = f.asked - 1] EXCEPT !.oks = oks] EXCEPT !.tool = "none"] \in Frame
  BY <1>6, FrameUpdates
<1>8. Recorded(f, ok) \in Frame
  BY <1>1, <1>4, <1>7, FrameUpdates
<1>9. /\ Same(Recorded(f, ok), f) /\ Recorded(f, ok).pc = pc
      /\ Recorded(f, ok).asked = f.asked - 1 /\ Recorded(f, ok).auth = f.auth
      /\ Recorded(f, ok).oks = oks
  BY <1>4 DEF Frame, Same
<1> QED BY <1>1, <1>2, <1>8, <1>9 DEF oks

LEMMA TopFrame ==
    ASSUME LoopInv, stack # <<>>
    PROVE  /\ Len(stack) \in Nat \ {0} /\ Len(stack) \in 1 .. Len(stack)
           /\ Top \in Frame /\ Top = stack[Len(stack)]
           /\ FrameOk(Top) /\ Top.pc # "child"
           /\ Top.run \in RunIds /\ Top.run <= runs /\ result[Top.run] = "none"
           /\ who[Top.run] = Top.agent
<1>1. stack \in Seq(Frame)
  BY DEF LoopInv, LoopTypes
<1>2. Len(stack) \in Nat \ {0} /\ Len(stack) \in 1 .. Len(stack)
  BY <1>1, EmptySeq
<1>3. Top \in Frame /\ Top = stack[Len(stack)]
  BY <1>1, <1>2 DEF Top
<1> QED BY <1>2, <1>3 DEF LoopInv, PlacesOk, RunsOk, Frame

-----------------------------------------------------------------------------
(* The four effects of a step                                              *)

TallyGrows ==
    /\ tally' \in [RunIds -> [intents : Nat, effects : Nat, events : Nat]]
    /\ \A r \in RunIds : /\ tally[r].events <= tally'[r].events
                         /\ tally'[r].effects <= tally'[r].intents

\* The stack is cut to its first m runs, and the last of these becomes f.
Settles(m, f) ==
    /\ m \in 1 .. Len(stack)
    /\ stack' \in Seq(Frame) /\ Len(stack') = m
    /\ \A i \in 1 .. m : i < m => stack'[i] = stack[i]
    /\ stack'[m] = f
    /\ f \in Frame /\ Same(f, stack[m]) /\ FrameOk(f) /\ f.pc # "child"
    /\ f.oks > 0 => stack[m].oks > 0 \/ tally'[f.run].events > 0

Stays ==
    /\ \E f \in Frame : Settles(Len(stack), f)
    /\ TallyGrows
    /\ UNCHANGED <<runs, who, result>>

Leaves(outcome) ==
    /\ \/ Len(stack) = 1 /\ stack' = <<>>
       \/ /\ Len(stack) > 1
          /\ \E f \in Frame : Settles(Len(stack) - 1, f)
    /\ TallyGrows
    /\ result' = [result EXCEPT ![Top.run] = outcome]
    /\ outcome = "ok" /\ Advertised[Top.agent] # {} => tally[Top.run].events > 0
    /\ UNCHANGED <<runs, who>>

Grows(f, g) ==
    /\ stack' \in Seq(Frame) /\ Len(stack') = Len(stack) + 1
    /\ \A i \in 1 .. Len(stack) : i < Len(stack) => stack'[i] = stack[i]
    /\ stack'[Len(stack)] = f /\ stack'[Len(stack) + 1] = g
    /\ f \in Frame /\ Same(f, Top) /\ FrameOk(f) /\ f.pc = "child"
    /\ f.oks = Top.oks
    /\ g \in Frame /\ g.run = runs + 1 /\ FrameOk(g) /\ g.pc # "child" /\ g.oks = 0
    /\ g.chain = Top.chain \cup {Top.agent} /\ g.agent \notin g.chain
    /\ g.depth = Top.depth + 1
    /\ runs < MaxRuns /\ runs' = runs + 1
    /\ who' = [who EXCEPT ![runs + 1] = g.agent]
    /\ TallyGrows
    /\ UNCHANGED <<result>>

-----------------------------------------------------------------------------
(* Each effect keeps the invariant                                         *)

\* A stack that only lost runs, whose other runs are the same calls.
LEMMA CutStack ==
    ASSUME LoopInv, stack # <<>>, NEW m \in 1 .. Len(stack), NEW f \in Frame, Settles(m, f)
    PROVE  /\ ChainSound' /\ PlacesOk'
           /\ \A i \in 1 .. m : Same(stack'[i], stack[i]) /\ stack[i] \in Frame
           /\ TallyGrows => EvidenceOk'
<1>1. /\ stack \in Seq(Frame) /\ Len(stack) \in Nat /\ m \in Nat
      /\ stack' \in Seq(Frame) /\ Len(stack') = m
  BY DEF LoopInv, LoopTypes, Settles
<1>2. \A i \in 1 .. m : Same(stack'[i], stack[i]) /\ stack[i] \in Frame
  <2>1. SUFFICES ASSUME NEW i \in 1 .. m PROVE Same(stack'[i], stack[i]) /\ stack[i] \in Frame
    OBVIOUS
  <2>2. stack[i] \in Frame
    BY <1>1
  <2>3. CASE i = m
    BY <2>2, <2>3 DEF Settles
  <2>4. CASE i # m
    BY <1>1, <2>2, <2>4 DEF Settles, Same
  <2> QED BY <2>3, <2>4
<1>3. ChainSound'
  <2>1. SUFFICES ASSUME NEW i \in 1 .. m
                 PROVE  /\ stack'[i].depth = i - 1
                        /\ stack'[i].chain = {stack'[j].agent : j \in 1 .. i - 1}
                        /\ stack'[i].agent \notin stack'[i].chain
    BY <1>1 DEF ChainSound
  <2>2. /\ stack[i].depth = i - 1
        /\ stack[i].chain = {stack[j].agent : j \in 1 .. i - 1}
        /\ stack[i].agent \notin stack[i].chain
    BY <1>1 DEF LoopInv, ChainSound
  <2>3. \A j \in 1 .. i - 1 : stack'[j].agent = stack[j].agent
    BY <1>1, <1>2 DEF Same
  <2>4. {stack'[j].agent : j \in 1 .. i - 1} = {stack[j].agent : j \in 1 .. i - 1}
    BY <2>3
  <2> QED BY <1>2, <2>2, <2>4 DEF Same
<1>4. PlacesOk'
  <2>1. SUFFICES ASSUME NEW i \in 1 .. m
                 PROVE  FrameOk(stack'[i]) /\ (stack'[i].pc = "child" <=> i < m)
    BY <1>1 DEF PlacesOk, FrameOk
  <2>2. CASE i = m
    BY <2>2 DEF Settles
  <2>3. CASE i # m
    <3>1. stack'[i] = stack[i] /\ i < m /\ i < Len(stack) /\ i \in 1 .. Len(stack)
      BY <1>1, <2>3 DEF Settles
    <3>2. FrameOk(stack[i]) /\ stack[i].pc = "child"
      BY <3>1 DEF LoopInv, PlacesOk
    <3> QED BY <3>1, <3>2
  <2> QED BY <2>2, <2>3
<1>5. ASSUME TallyGrows PROVE EvidenceOk'
  <2>1. SUFFICES ASSUME NEW i \in 1 .. m, stack'[i].oks > 0
                 PROVE  tally'[stack'[i].run].events > 0
    BY <1>1 DEF EvidenceOk
  <2>2. stack'[i].run = stack[i].run /\ stack[i].run \in RunIds /\ i \in 1 .. Len(stack)
    <3>1. Same(stack'[i], stack[i]) /\ stack[i] \in Frame /\ i \in 1 .. Len(stack)
      BY <1>1, <1>2
    <3>2. \A g \in Frame : g.run \in RunIds
      BY DEF Frame
    <3> QED BY <3>1, <3>2 DEF Same
  <2>3. stack[i].oks > 0 => tally[stack[i].run].events > 0
    BY <2>2 DEF LoopInv, EvidenceOk
  <2>4. tally'[stack[i].run].events \in Nat /\ tally[stack[i].run].events \in Nat
    BY <1>5, <2>2 DEF TallyGrows, LoopInv, LoopTypes
  <2>5. tally[stack[i].run].events <= tally'[stack[i].run].events
    BY <1>5, <2>2 DEF TallyGrows
  <2>6. CASE stack[i].oks > 0
    BY <2>2, <2>3, <2>4, <2>5, <2>6
  <2>7. CASE ~(stack[i].oks > 0)
    <3>1. i = m
      BY <1>1, <2>1, <2>7 DEF Settles
    <3> QED BY <2>1, <2>2, <2>7, <3>1 DEF Settles
  <2> QED BY <2>6, <2>7
<1> QED BY <1>2, <1>3, <1>4, <1>5

LEMMA StayKeeps ==
    ASSUME LoopInv, stack # <<>>, Stays
    PROVE  LoopInv'
<1>1. PICK f \in Frame : Settles(Len(stack), f)
  BY DEF Stays
<1>2. /\ UNCHANGED <<runs, who, result>> /\ TallyGrows
      /\ Len(stack) \in 1 .. Len(stack) /\ Len(stack) \in Nat
  BY TopFrame DEF Stays
<1>3. /\ ChainSound' /\ PlacesOk' /\ EvidenceOk'
      /\ \A i \in 1 .. Len(stack) : Same(stack'[i], stack[i]) /\ stack[i] \in Frame
  BY <1>1, <1>2, CutStack
<1>4. stack' \in Seq(Frame) /\ Len(stack') = Len(stack)
  BY <1>1 DEF Settles
<1>5. LoopTypes'
  BY <1>2, <1>4 DEF LoopInv, LoopTypes, TallyGrows
<1>6. RunsOk'
  <2>1. \A i \in 1 .. Len(stack) : stack'[i].run = stack[i].run /\ stack'[i].agent = stack[i].agent
    BY <1>3 DEF Same
  <2> QED BY <1>2, <1>4, <2>1 DEF LoopInv, RunsOk
<1>7. EffectsAnnounced'
  BY <1>2 DEF TallyGrows, EffectsAnnounced
<1>8. OkHasEvidence'
  <2>1. SUFFICES ASSUME NEW r \in RunIds, result[r] = "ok", Advertised[who[r]] # {}
                 PROVE  tally'[r].events > 0
    BY <1>2 DEF OkHasEvidence
  <2>2. tally[r].events > 0 /\ tally[r].events <= tally'[r].events
    BY <1>2, <2>1 DEF LoopInv, OkHasEvidence, TallyGrows
  <2>3. tally[r].events \in Nat /\ tally'[r].events \in Nat
    BY <1>2 DEF LoopInv, LoopTypes, TallyGrows
  <2> QED BY <2>2, <2>3
<1> QED BY <1>3, <1>5, <1>6, <1>7, <1>8 DEF LoopInv

LEMMA LeaveKeeps ==
    ASSUME LoopInv, stack # <<>>, NEW outcome \in {"ok", "failed", "raised", "rejected"},
           Leaves(outcome)
    PROVE  LoopInv'
<1>1. /\ UNCHANGED <<runs, who>> /\ TallyGrows
      /\ result' = [result EXCEPT ![Top.run] = outcome]
      /\ outcome = "ok" /\ Advertised[Top.agent] # {} => tally[Top.run].events > 0
  BY DEF Leaves
<1>2. /\ Len(stack) \in Nat \ {0} /\ Top = stack[Len(stack)]
      /\ Top.run \in RunIds /\ Top.run <= runs /\ who[Top.run] = Top.agent
  BY TopFrame
<1>3. EffectsAnnounced'
  BY <1>1 DEF TallyGrows, EffectsAnnounced
<1>4. OkHasEvidence'
  <2>1. SUFFICES ASSUME NEW r \in RunIds, result'[r] = "ok", Advertised[who[r]] # {}
                 PROVE  tally'[r].events > 0
    BY <1>1 DEF OkHasEvidence
  <2>2. tally[r].events > 0
    <3>1. CASE r = Top.run
      BY <1>1, <1>2, <2>1, <3>1 DEF LoopInv, LoopTypes
    <3>2. CASE r # Top.run
      BY <1>1, <2>1, <3>2 DEF LoopInv, LoopTypes, OkHasEvidence
    <3> QED BY <3>1, <3>2
  <2>3. /\ tally[r].events \in Nat /\ tally'[r].events \in Nat
        /\ tally[r].events <= tally'[r].events
    BY <1>1 DEF LoopInv, LoopTypes, TallyGrows
  <2> QED BY <2>2, <2>3
<1>5. \A r \in RunIds : r > runs => result'[r] = "none"
  BY <1>1, <1>2 DEF LoopInv, LoopTypes, RunsOk, RunIds
<1>6. /\ runs' \in 0 .. MaxRuns
      /\ who' \in [RunIds -> Agents \cup {NoAgent}]
      /\ result' \in [RunIds -> {"none", "ok", "failed", "raised", "rejected"}]
      /\ tally' \in [RunIds -> [intents : Nat, effects : Nat, events : Nat]]
  BY <1>1 DEF LoopInv, LoopTypes, TallyGrows
<1>7. CASE Len(stack) = 1 /\ stack' = <<>>
  <2>1. stack' \in Seq(Frame) /\ Len(stack') = 0
    BY <1>7
  <2>2. LoopTypes'
    BY <1>1, <1>6, <2>1 DEF LoopTypes
  <2>3. ChainSound' /\ PlacesOk' /\ EvidenceOk'
    BY <2>1 DEF ChainSound, PlacesOk, EvidenceOk
  <2>4. RunsOk'
    BY <1>1, <1>5, <2>1 DEF RunsOk
  <2> QED BY <1>3, <1>4, <2>2, <2>3, <2>4 DEF LoopInv
<1>8. CASE Len(stack) > 1
  <2> DEFINE m == Len(stack) - 1
  <2>1. /\ m \in 1 .. Len(stack) /\ m \in Nat /\ m < Len(stack)
    BY <1>2, <1>8
  <2>2. PICK f \in Frame : Settles(m, f)
    <3>1. Len(stack) # 1
      BY <1>2, <1>8
    <3> QED BY <3>1 DEF Leaves
  <2> HIDE DEF m
  <2>4. /\ ChainSound' /\ PlacesOk' /\ EvidenceOk'
        /\ \A i \in 1 .. m : Same(stack'[i], stack[i]) /\ stack[i] \in Frame
    BY <1>1, <2>1, <2>2, CutStack
  <2>5. stack' \in Seq(Frame) /\ Len(stack') = m
    BY <2>2 DEF Settles
  <2>6. LoopTypes'
    BY <1>1, <1>6, <2>5 DEF LoopTypes
  <2>7. \A i \in 1 .. m : /\ i \in 1 .. Len(stack) /\ i # Len(stack)
                         /\ stack'[i].run = stack[i].run /\ stack'[i].agent = stack[i].agent
    BY <1>2, <2>1, <2>4 DEF Same
  <2>8. RunsOk'
    <3>1. ASSUME NEW i \in 1 .. m
          PROVE  /\ stack'[i].run <= runs' /\ who'[stack'[i].run] = stack'[i].agent
                 /\ result'[stack'[i].run] = "none"
      <4>1. /\ stack[i].run <= runs /\ who[stack[i].run] = stack[i].agent
            /\ result[stack[i].run] = "none" /\ stack[i].run # Top.run
        BY <1>2, <2>7 DEF LoopInv, RunsOk
      <4> QED BY <1>1, <2>7, <4>1 DEF LoopInv, LoopTypes
    <3>2. \A i, j \in 1 .. m : i # j => stack'[i].run # stack'[j].run
      BY <2>7 DEF LoopInv, RunsOk
    <3> QED BY <1>1, <1>5, <2>5, <3>1, <3>2 DEF RunsOk
  <2> QED BY <1>3, <1>4, <2>4, <2>6, <2>8 DEF LoopInv
<1> QED BY <1>2, <1>7, <1>8 DEF Leaves

LEMMA GrowKeeps ==
    ASSUME LoopInv, stack # <<>>, NEW f \in Frame, NEW g \in Frame, Grows(f, g)
    PROVE  LoopInv'
<1> DEFINE n == Len(stack)
<1>1. /\ n \in Nat \ {0} /\ n \in 1 .. n /\ n + 1 \in 1 .. n + 1 /\ Top = stack[n] /\ Top \in Frame
      /\ Top.run \in RunIds /\ Top.run <= runs /\ stack \in Seq(Frame)
  BY TopFrame DEF LoopInv, LoopTypes
<1>2. /\ stack' \in Seq(Frame) /\ Len(stack') = n + 1
      /\ \A i \in 1 .. n : i < n => stack'[i] = stack[i]
      /\ stack'[n] = f /\ stack'[n + 1] = g
  BY DEF Grows
<1>3. /\ Same(f, Top) /\ FrameOk(f) /\ f.pc = "child"
      /\ f.oks = Top.oks
      /\ g.run = runs + 1 /\ FrameOk(g) /\ g.pc # "child" /\ g.oks = 0
      /\ g.chain = Top.chain \cup {Top.agent} /\ g.agent \notin g.chain
      /\ g.depth = Top.depth + 1
  BY DEF Grows
<1>4. /\ runs < MaxRuns /\ runs' = runs + 1 /\ who' = [who EXCEPT ![runs + 1] = g.agent]
      /\ TallyGrows /\ UNCHANGED <<result>>
  BY DEF Grows
<1> HIDE DEF n
<1>5. \A h \in Frame : h.run \in RunIds /\ h.agent \in Agents
  BY DEF Frame
<1>6. \A i \in 1 .. n : /\ Same(stack'[i], stack[i]) /\ stack[i] \in Frame
                       /\ stack'[i].oks = stack[i].oks
  <2>1. SUFFICES ASSUME NEW i \in 1 .. n
                 PROVE  /\ Same(stack'[i], stack[i]) /\ stack[i] \in Frame
                        /\ stack'[i].oks = stack[i].oks
    OBVIOUS
  <2>2. CASE i = n
    BY <1>1, <1>2, <1>3, <2>2
  <2>3. CASE i # n
    <3>1. stack'[i] = stack[i] /\ stack[i] \in Frame
      BY <1>1, <1>2, <2>3 DEF n
    <3> QED BY <3>1 DEF Same
  <2> QED BY <2>2, <2>3
<1>7. runs + 1 \in RunIds /\ runs \in Nat /\ MaxRuns \in Nat
  BY <1>4, LimitsAssumption DEF LoopInv, LoopTypes, RunIds
<1>8. LoopTypes'
  BY <1>2, <1>4, <1>5, <1>7 DEF LoopInv, LoopTypes, TallyGrows
<1>9. ChainSound'
  <2>1. \A i \in 1 .. n : /\ stack[i].depth = i - 1
                         /\ stack[i].chain = {stack[j].agent : j \in 1 .. i - 1}
                         /\ stack[i].agent \notin stack[i].chain
    BY DEF LoopInv, ChainSound, n
  <2>2. ASSUME NEW i \in 1 .. n + 1
        PROVE  /\ stack'[i].depth = i - 1
               /\ stack'[i].chain = {stack'[j].agent : j \in 1 .. i - 1}
               /\ stack'[i].agent \notin stack'[i].chain
    <3>1. \A j \in 1 .. i - 1 : j \in 1 .. n /\ stack'[j].agent = stack[j].agent
      BY <1>1, <1>6 DEF Same
    <3>2. {stack'[j].agent : j \in 1 .. i - 1} = {stack[j].agent : j \in 1 .. i - 1}
      BY <3>1
    <3>3. CASE i = n + 1
      <4>1. {stack[j].agent : j \in 1 .. n} = {stack[j].agent : j \in 1 .. n - 1} \cup {stack[n].agent}
        BY <1>1
      <4>2. i - 1 = n /\ stack'[i] = g
        BY <1>1, <1>2, <3>3
      <4>3. g.chain = {stack[j].agent : j \in 1 .. n} /\ g.depth = n
        BY <1>1, <1>3, <2>1, <4>1
      <4> QED BY <1>3, <3>2, <4>2, <4>3
    <3>4. CASE i # n + 1
      <4>1. i \in 1 .. n
        BY <1>1, <3>4
      <4> QED BY <1>6, <2>1, <3>2, <4>1 DEF Same
    <3> QED BY <3>3, <3>4
  <2> QED BY <1>2, <2>2 DEF ChainSound
<1>10. PlacesOk'
  <2>1. ASSUME NEW i \in 1 .. n + 1
        PROVE  FrameOk(stack'[i]) /\ (stack'[i].pc = "child" <=> i < n + 1)
    <3>1. CASE i = n + 1
      BY <1>1, <1>2, <1>3, <3>1
    <3>2. CASE i = n
      BY <1>1, <1>2, <1>3, <3>2
    <3>3. CASE i # n + 1 /\ i # n
      <4>1. i \in 1 .. n /\ i < n /\ i < n + 1 /\ stack'[i] = stack[i]
        BY <1>1, <1>2, <3>3
      <4> QED BY <4>1 DEF LoopInv, PlacesOk, n
    <3> QED BY <3>1, <3>2, <3>3
  <2> QED BY <1>2, <2>1 DEF PlacesOk, FrameOk
<1>11. RunsOk'
  <2>1. \A i \in 1 .. n : /\ stack'[i].run = stack[i].run /\ stack'[i].agent = stack[i].agent
                         /\ stack[i].run \in RunIds
                         /\ stack[i].run <= runs /\ who[stack[i].run] = stack[i].agent
                         /\ result[stack[i].run] = "none"
    BY <1>5, <1>6 DEF Same, LoopInv, RunsOk, n
  <2>2. \A i \in 1 .. n + 1 : i # n + 1 => i \in 1 .. n
    BY <1>1
  <2>3. ASSUME NEW i \in 1 .. n + 1
        PROVE  /\ stack'[i].run <= runs + 1 /\ who'[stack'[i].run] = stack'[i].agent
               /\ result[stack'[i].run] = "none"
    <3>1. CASE i = n + 1
      BY <1>2, <1>3, <1>4, <1>7, <3>1 DEF LoopInv, LoopTypes, RunsOk
    <3>2. CASE i # n + 1
      <4>1. /\ stack'[i].run = stack[i].run /\ stack[i].run \in RunIds /\ stack[i].run <= runs
            /\ who[stack[i].run] = stack'[i].agent /\ result[stack[i].run] = "none"
        BY <2>1, <2>2, <3>2
      <4>2. stack[i].run <= runs + 1 /\ stack[i].run # runs + 1
        BY <1>7, <4>1 DEF RunIds
      <4> QED BY <1>4, <4>1, <4>2 DEF LoopInv, LoopTypes
    <3> QED BY <3>1, <3>2
  <2>4. ASSUME NEW i \in 1 .. n + 1, NEW j \in 1 .. n + 1, i # j
        PROVE  stack'[i].run # stack'[j].run
    <3>1. stack'[n + 1].run = runs + 1 /\ \A k \in 1 .. n : stack'[k].run < runs + 1
      BY <1>2, <1>3, <1>7, <2>1 DEF RunIds
    <3>2. \A k, l \in 1 .. n : k # l => stack'[k].run # stack'[l].run
      BY <2>1 DEF LoopInv, RunsOk, n
    <3>3. CASE i = n + 1
      BY <1>7, <2>1, <2>2, <2>4, <3>1, <3>3 DEF RunIds
    <3>4. CASE j = n + 1
      BY <1>7, <2>1, <2>2, <2>4, <3>1, <3>4 DEF RunIds
    <3>5. CASE i # n + 1 /\ j # n + 1
      BY <2>2, <2>4, <3>2, <3>5
    <3> QED BY <3>3, <3>4, <3>5
  <2>5. \A r \in RunIds : r > runs + 1 => result[r] = "none"
    BY <1>7 DEF LoopInv, RunsOk, RunIds
  <2> QED BY <1>2, <1>4, <2>3, <2>4, <2>5 DEF RunsOk
<1>12. EffectsAnnounced'
  BY <1>4 DEF TallyGrows, EffectsAnnounced
<1>13. \A r \in RunIds : /\ tally[r].events \in Nat /\ tally'[r].events \in Nat
                        /\ tally[r].events <= tally'[r].events
  BY <1>4 DEF TallyGrows, LoopInv, LoopTypes
<1>14. EvidenceOk'
  <2>1. SUFFICES ASSUME NEW i \in 1 .. n + 1, stack'[i].oks > 0
                 PROVE  tally'[stack'[i].run].events > 0
    BY <1>2 DEF EvidenceOk
  <2>2. i \in 1 .. n
    BY <1>1, <1>2, <1>3, <2>1
  <2>3. stack[i].oks > 0 /\ stack'[i].run = stack[i].run /\ stack[i].run \in RunIds
    BY <1>5, <1>6, <2>1, <2>2 DEF Same
  <2>4. tally[stack[i].run].events > 0
    BY <2>2, <2>3 DEF LoopInv, EvidenceOk, n
  <2> QED BY <1>13, <2>3, <2>4
<1>15. OkHasEvidence'
  <2>1. SUFFICES ASSUME NEW r \in RunIds, result[r] = "ok", Advertised[who'[r]] # {}
                 PROVE  tally'[r].events > 0
    BY <1>4 DEF OkHasEvidence
  <2>2. r # runs + 1
    BY <1>7, <2>1 DEF LoopInv, RunsOk
  <2>3. who'[r] = who[r]
    BY <1>4, <2>2 DEF LoopInv, LoopTypes
  <2> QED BY <1>13, <2>1, <2>3 DEF LoopInv, OkHasEvidence
<1> QED BY <1>8, <1>9, <1>10, <1>11, <1>12, <1>14, <1>15 DEF LoopInv

-----------------------------------------------------------------------------
(* The audit rows                                                          *)

LEMMA TallyKept ==
    ASSUME LoopInv, UNCHANGED tally
    PROVE  TallyGrows
BY DEF LoopInv, LoopTypes, EffectsAnnounced, TallyGrows

LEMMA TallyAudited ==
    ASSUME LoopInv, NEW f, f.run \in RunIds, NEW ok \in BOOLEAN, NEW logged \in BOOLEAN,
           Audited(f, ok, logged)
    PROVE  TallyGrows /\ (ok /\ logged => tally'[f.run].events > 0)
<1> DEFINE row == tally[f.run]
           new == [row EXCEPT !.events = IF ok /\ logged THEN row.events + 1 ELSE row.events]
<1>1. row \in [intents : Nat, effects : Nat, events : Nat] /\ row.effects <= row.intents
  BY DEF LoopInv, LoopTypes, EffectsAnnounced
<1>2. tally' = [tally EXCEPT ![f.run] = new]
  BY DEF Audited, LoopInv, LoopTypes
<1> HIDE DEF row
<1>3. /\ new \in [intents : Nat, effects : Nat, events : Nat]
      /\ new.effects = row.effects /\ new.intents = row.intents
      /\ new.events = IF ok /\ logged THEN row.events + 1 ELSE row.events
  BY <1>1
<1> HIDE DEF new
<1>4. row.events <= new.events /\ (ok /\ logged => new.events > 0) /\ new.effects <= new.intents
  BY <1>1, <1>3
<1>5. tally' \in [RunIds -> [intents : Nat, effects : Nat, events : Nat]]
  BY <1>2, <1>3 DEF LoopInv, LoopTypes
<1>6. tally'[f.run] = new /\ \A r \in RunIds : r # f.run => tally'[r] = tally[r]
  BY <1>2 DEF LoopInv, LoopTypes
<1>7. ASSUME NEW r \in RunIds
      PROVE  tally[r].events <= tally'[r].events /\ tally'[r].effects <= tally'[r].intents
  <2>1. CASE r = f.run
    BY <1>4, <1>6, <2>1 DEF row
  <2>2. CASE r # f.run
    BY <1>6, <2>2 DEF LoopInv, LoopTypes, EffectsAnnounced
  <2> QED BY <2>1, <2>2
<1> QED BY <1>4, <1>5, <1>6, <1>7 DEF TallyGrows

LEMMA TallyRan ==
    ASSUME LoopInv, NEW r \in RunIds, NEW t,
           tally' = [tally EXCEPT ![r] = Ran(t, Announce(t, @))]
    PROVE  TallyGrows
<1> DEFINE row == tally[r]
           new == Ran(t, Announce(t, row))
<1>1. row \in [intents : Nat, effects : Nat, events : Nat] /\ row.effects <= row.intents
  BY DEF LoopInv, LoopTypes, EffectsAnnounced
<1>2. tally' = [tally EXCEPT ![r] = new]
  BY DEF LoopInv, LoopTypes
<1> HIDE DEF row
<1>3. /\ new \in [intents : Nat, effects : Nat, events : Nat]
      /\ new.events = row.events /\ new.effects <= new.intents
  <2>1. CASE Risk[t] # "read_only"
    <3>1. Announce(t, row) = [row EXCEPT !.intents = row.intents + 1]
      BY <1>1, <2>1 DEF Announce
    <3> DEFINE mid == [row EXCEPT !.intents = row.intents + 1]
    <3>2. /\ mid \in [intents : Nat, effects : Nat, events : Nat]
          /\ mid.intents = row.intents + 1 /\ mid.effects = row.effects /\ mid.events = row.events
      BY <1>1
    <3> HIDE DEF mid
    <3>3. new = [mid EXCEPT !.effects = mid.effects + 1]
      BY <2>1, <3>1, <3>2 DEF Ran, mid
    <3> HIDE DEF new
    <3> QED BY <1>1, <3>2, <3>3
  <2>2. CASE ~(Risk[t] # "read_only")
    <3>1. Announce(t, row) = row
      BY <1>1, <2>2 DEF Announce
    <3>2. new = row
      BY <1>1, <2>2, <3>1 DEF Ran
    <3> HIDE DEF new
    <3> QED BY <1>1, <3>2
  <2> QED BY <2>1, <2>2
<1> HIDE DEF new
<1>4. tally' \in [RunIds -> [intents : Nat, effects : Nat, events : Nat]]
  BY <1>2, <1>3 DEF LoopInv, LoopTypes
<1>5. tally'[r] = new /\ \A q \in RunIds : q # r => tally'[q] = tally[q]
  BY <1>2 DEF LoopInv, LoopTypes
<1>6. ASSUME NEW q \in RunIds
      PROVE  tally[q].events <= tally'[q].events /\ tally'[q].effects <= tally'[q].intents
  <2>1. CASE q = r
    BY <1>1, <1>3, <1>5, <2>1 DEF row
  <2>2. CASE q # r
    BY <1>5, <2>2 DEF LoopInv, LoopTypes, EffectsAnnounced
  <2> QED BY <2>1, <2>2
<1> QED BY <1>4, <1>6 DEF TallyGrows

-----------------------------------------------------------------------------
(* The steps that leave the stack as high as it is                         *)

LEMMA PutSettles ==
    ASSUME LoopInv, stack # <<>>, NEW f \in Frame, stack' = Put(f),
           Same(f, Top), FrameOk(f), f.pc # "child",
           f.oks > 0 => Top.oks > 0 \/ tally'[Top.run].events > 0
    PROVE  Settles(Len(stack), f)
<1>1. stack \in Seq(Frame)
  BY DEF LoopInv, LoopTypes
<1>2. stack' \in Seq(Frame) /\ Len(stack') = Len(stack) /\ stack'[Len(stack)] = f
      /\ \A i \in 1 .. Len(stack) : i < Len(stack) => stack'[i] = stack[i]
  BY <1>1, TopFrame, ExceptSeq DEF Put
<1> QED BY <1>2, TopFrame DEF Settles, Same

\* A call that is over, with f as the frame that called.
LEMMA RecordSettles ==
    ASSUME LoopInv, stack # <<>>, NEW f \in Frame, NEW ok \in BOOLEAN,
           stack' = Put(Recorded(f, ok)), Same(f, Top), f.asked > 0, f.oks = Top.oks,
           f.auth # "unbound" => "deployment" \in Allowed[Top.agent] /\ "deployment" \in Top.risks,
           ok => tally'[Top.run].events > 0
    PROVE  Settles(Len(stack), Recorded(f, ok)) /\ Recorded(f, ok) \in Frame
<1>1. /\ Recorded(f, ok) \in Frame /\ Same(Recorded(f, ok), f)
      /\ Recorded(f, ok).pc \in {"loop", "tools"}
      /\ Recorded(f, ok).pc = "tools" => Recorded(f, ok).asked > 0
      /\ Recorded(f, ok).auth = f.auth
      /\ Recorded(f, ok).oks = IF ok THEN f.oks + 1 ELSE f.oks
  BY RecordedFrame
<1>2. Same(Recorded(f, ok), Top)
  BY <1>1 DEF Same
<1>3. FrameOk(Recorded(f, ok))
  BY <1>1, <1>2 DEF FrameOk, Same
<1>4. Recorded(f, ok).oks > 0 => Top.oks > 0 \/ tally'[Top.run].events > 0
  BY <1>1
<1> QED BY <1>1, <1>2, <1>3, <1>4, PutSettles

\* Whoever was authorized once may deploy as far as the policy goes.
LEMMA AuthorizedMayDeploy ==
    ASSUME NEW f, FrameOk(f), NEW t, NEW auth, Authorize(f, t, auth)
    PROVE  auth # "unbound" => "deployment" \in Allowed[f.agent] /\ "deployment" \in f.risks
BY DEF Authorize, Denied, PolicyOk, FrameOk

LEMMA AuthFrame ==
    ASSUME NEW f \in Frame, NEW auth \in Auths
    PROVE  /\ [f EXCEPT !.auth = auth] \in Frame /\ Same([f EXCEPT !.auth = auth], f)
           /\ [f EXCEPT !.auth = auth].asked = f.asked /\ [f EXCEPT !.auth = auth].oks = f.oks
           /\ [f EXCEPT !.auth = auth].auth = auth
<1>1. [f EXCEPT !.auth = auth] \in Frame
  BY FrameUpdates
<1> QED BY <1>1 DEF Frame, Same

\* Refusing a call, for whatever reason.
LEMMA SkipStays ==
    ASSUME LoopInv, At("tools"), NEW auth \in Auths,
           \/ Skip(Top) \/ Skip([Top EXCEPT !.auth = auth]),
           auth # "unbound" => "deployment" \in Allowed[Top.agent] /\ "deployment" \in Top.risks,
           TallyGrows
    PROVE  Stays
<1>1. stack # <<>> /\ Top \in Frame /\ Top.asked > 0 /\ FrameOk(Top)
  BY TopFrame DEF At, FrameOk
<1>2. UNCHANGED <<runs, who, result>>
  BY DEF Skip
<1>3. CASE Skip(Top)
  <2>1. stack' = Put(Recorded(Top, FALSE)) /\ Same(Top, Top)
    BY <1>3 DEF Skip, Same
  <2> QED BY <1>1, <1>2, <2>1, RecordSettles DEF Stays, FrameOk
<1>4. CASE Skip([Top EXCEPT !.auth = auth])
  <2>1. stack' = Put(Recorded([Top EXCEPT !.auth = auth], FALSE))
    BY <1>4 DEF Skip
  <2> DEFINE f == [Top EXCEPT !.auth = auth]
  <2>2. f \in Frame /\ Same(f, Top) /\ f.asked > 0 /\ f.oks = Top.oks /\ f.auth = auth
    BY <1>1, AuthFrame
  <2> HIDE DEF f
  <2>3. stack' = Put(Recorded(f, FALSE))
    BY <2>1 DEF f
  <2>4. Settles(Len(stack), Recorded(f, FALSE)) /\ Recorded(f, FALSE) \in Frame
    BY <1>1, <2>2, <2>3, RecordSettles
  <2> QED BY <1>2, <2>4 DEF Stays
<1> QED BY <1>3, <1>4

LEMMA LoopStays ==
    ASSUME LoopInv, EnterLoop \/ CallLlm
    PROVE  Stays
<1>1. /\ stack # <<>> /\ Top \in Frame /\ FrameOk(Top)
      /\ UNCHANGED <<runs, who, result, tally>>
  BY TopFrame DEF EnterLoop, CallLlm, At
<1>2. PICK f \in Frame : /\ stack' = Put(f) /\ Same(f, Top) /\ f.pc \in {"loop", "llm"}
                         /\ f.auth = Top.auth /\ f.oks = Top.oks
  <2>1. CASE EnterLoop
    <3> DEFINE f == [Top EXCEPT !.pc = "loop"]
    <3>1. f \in Frame
      BY <1>1, FrameUpdates
    <3>2. Same(f, Top) /\ f.pc = "loop" /\ f.auth = Top.auth /\ f.oks = Top.oks
      BY <1>1 DEF Frame, Same
    <3>3. stack' = Put(f)
      BY <2>1 DEF EnterLoop
    <3> HIDE DEF f
    <3> QED BY <3>1, <3>2, <3>3
  <2>2. CASE CallLlm
    <3> DEFINE f == [Top EXCEPT !.pc = "llm", !.turn = @ + 1]
    <3>1. Top.turn + 1 \in 0 .. MaxTurns
      BY <1>1, <2>2, LimitsAssumption DEF CallLlm, Frame
    <3>2. [Top EXCEPT !.pc = "llm"] \in Frame
      BY <1>1, FrameUpdates
    <3>3. [[Top EXCEPT !.pc = "llm"] EXCEPT !.turn = Top.turn + 1] \in Frame
      BY <3>1, <3>2, FrameUpdates
    <3>4. f \in Frame
      BY <1>1, <3>3 DEF Frame
    <3>5. Same(f, Top) /\ f.pc = "llm" /\ f.auth = Top.auth /\ f.oks = Top.oks
      BY <1>1 DEF Frame, Same
    <3>6. stack' = Put(f)
      BY <2>2 DEF CallLlm
    <3> HIDE DEF f
    <3> QED BY <3>4, <3>5, <3>6
  <2> QED BY <2>1, <2>2
<1>3. FrameOk(f) /\ f.pc # "child"
  BY <1>1, <1>2 DEF FrameOk, Same
<1>4. Settles(Len(stack), f)
  BY <1>1, <1>2, <1>3, PutSettles
<1>5. TallyGrows
  BY <1>1, TallyKept
<1> QED BY <1>1, <1>4, <1>5 DEF Stays

LEMMA AskingStays ==
    ASSUME LoopInv, NEW t \in 0 .. MaxUsage, NEW n \in 1 .. MaxAsked, AsksForTools(t, n)
    PROVE  Stays
<1>1. /\ stack # <<>> /\ Top \in Frame /\ FrameOk(Top) /\ t \in Nat /\ n \in Nat /\ n > 0
      /\ UNCHANGED <<runs, who, result, tally>>
  BY TopFrame, LimitsAssumption DEF AsksForTools, At
<1> DEFINE f == [Answered(t) EXCEPT !.pc = "tools", !.asked = n]
<1>2. Top.calls + 1 \in Nat /\ Top.tokens + t \in Nat
  BY <1>1 DEF Frame
<1>3. [Top EXCEPT !.calls = Top.calls + 1] \in Frame
  BY <1>1, <1>2, FrameUpdates
<1>4. /\ Answered(t) = [[Top EXCEPT !.calls = Top.calls + 1] EXCEPT !.tokens = Top.tokens + t]
      /\ Answered(t).tokens = Top.tokens + t
  BY <1>1 DEF Answered, Frame
<1>5. Top.tokens + t \in 0 .. MaxTokens
  BY <1>2, <1>4, LimitsAssumption DEF AsksForTools
<1>6. Answered(t) \in Frame
  BY <1>3, <1>4, <1>5, FrameUpdates
<1>7. Same(Answered(t), Top) /\ Answered(t).auth = Top.auth /\ Answered(t).oks = Top.oks
  BY <1>1 DEF Answered, Frame, Same
<1>8. [Answered(t) EXCEPT !.pc = "tools"] \in Frame
  BY <1>6, FrameUpdates
<1>9. f \in Frame
  BY <1>1, <1>8, FrameUpdates
<1>10. /\ Same(f, Answered(t)) /\ f.auth = Answered(t).auth /\ f.oks = Answered(t).oks
       /\ f.pc = "tools" /\ f.asked = n
  BY <1>6 DEF Frame, Same
<1>11. stack' = Put(f)
  BY DEF AsksForTools
<1> HIDE DEF f
<1>12. Same(f, Top) /\ f.oks = Top.oks /\ f.auth = Top.auth
  BY <1>7, <1>10 DEF Same
<1>13. FrameOk(f)
  BY <1>1, <1>10, <1>12 DEF FrameOk, Same
<1>14. Settles(Len(stack), f)
  BY <1>1, <1>9, <1>10, <1>11, <1>12, <1>13, PutSettles
<1>15. TallyGrows
  BY <1>1, TallyKept
<1> QED BY <1>1, <1>9, <1>14, <1>15 DEF Stays

\* A call that is refused, blocked or not announced.
LEMMA RefusalStays ==
    ASSUME LoopInv, NEW c \in Call, NEW auth \in Auths,
           RefuseCall(c) \/ BlockCall(c, auth) \/ PreflightFails(c, auth)
    PROVE  Stays
<1>1. At("tools") /\ UNCHANGED tally
  BY DEF RefuseCall, BlockCall, PreflightFails
<1>2. TallyGrows /\ FrameOk(Top)
  BY <1>1, TallyKept, TopFrame DEF At
<1>3. CASE RefuseCall(c)
  <2>1. Skip(Top) /\ "unbound" \in Auths
    BY <1>3 DEF RefuseCall, Auths
  <2> QED BY <1>1, <1>2, <2>1, SkipStays
<1>4. CASE BlockCall(c, auth) \/ PreflightFails(c, auth)
  <2>1. Skip([Top EXCEPT !.auth = auth]) /\ Authorize(Top, c.tool, auth)
    BY <1>4 DEF BlockCall, PreflightFails, Runs
  <2> QED BY <1>1, <1>2, <2>1, SkipStays, AuthorizedMayDeploy
<1> QED BY <1>3, <1>4

LEMMA CallRefusedStays ==
    ASSUME LoopInv, NEW c \in Call, NEW auth \in Auths, NEW logged \in BOOLEAN,
           CallRefused(c, auth, logged)
    PROVE  Stays
<1>1. /\ At("tools") /\ Skip([Top EXCEPT !.auth = auth]) /\ Authorize(Top, c.tool, auth)
      /\ tally' = [tally EXCEPT ![Top.run] = Ran(c.tool, Announce(c.tool, @))]
  BY DEF CallRefused, CallsAgent, Runs
<1>2. FrameOk(Top) /\ Top.run \in RunIds
  BY <1>1, TopFrame DEF At
<1>3. TallyGrows
  BY <1>1, <1>2, TallyRan
<1> QED BY <1>1, <1>2, <1>3, SkipStays, AuthorizedMayDeploy

\* The frame of a call that was let through.
Calling(f, auth, t, pc) == [f EXCEPT !.auth = auth, !.tool = t, !.pc = pc]

LEMMA CallingFrame ==
    ASSUME NEW f \in Frame, NEW auth \in Auths, NEW t \in Tools, NEW pc \in {"running", "child"}
    PROVE  /\ Calling(f, auth, t, pc) \in Frame /\ Same(Calling(f, auth, t, pc), f)
           /\ Calling(f, auth, t, pc).auth = auth /\ Calling(f, auth, t, pc).tool = t
           /\ Calling(f, auth, t, pc).pc = pc /\ Calling(f, auth, t, pc).asked = f.asked
           /\ Calling(f, auth, t, pc).oks = f.oks /\ Calling(f, auth, t, pc).files = f.files
           /\ Calling(f, auth, t, pc).tokens = f.tokens
<1>1. [f EXCEPT !.auth = auth] \in Frame
  BY FrameUpdates
<1>2. [[f EXCEPT !.auth = auth] EXCEPT !.tool = t] \in Frame
  BY <1>1, FrameUpdates
<1>3. [[[f EXCEPT !.auth = auth] EXCEPT !.tool = t] EXCEPT !.pc = pc] \in Frame
  BY <1>2, FrameUpdates
<1>4. Calling(f, auth, t, pc) \in Frame
  BY <1>3 DEF Calling
<1> QED BY <1>4 DEF Frame, Same, Calling

LEMMA RunToolStays ==
    ASSUME LoopInv, NEW c \in Call, NEW auth \in Auths, RunTool(c, auth)
    PROVE  Stays
<1>1. /\ stack # <<>> /\ Top \in Frame /\ FrameOk(Top) /\ Top.pc = "tools" /\ Top.run \in RunIds
      /\ UNCHANGED <<runs, who, result>>
      /\ Authorize(Top, c.tool, auth) /\ ~OverQuota(Top, c.tool)
      /\ tally' = [tally EXCEPT ![Top.run] = Ran(c.tool, Announce(c.tool, @))]
  BY TopFrame DEF RunTool, At, Runs
<1>2. c.tool \in Tools
  BY DEF Call
<1> DEFINE f == Calling(Top, auth, c.tool, "running")
<1>3. /\ f \in Frame /\ Same(f, Top) /\ f.auth = auth /\ f.tool = c.tool /\ f.pc = "running"
      /\ f.asked = Top.asked /\ f.oks = Top.oks /\ f.files = Top.files
  BY <1>1, <1>2, CallingFrame
<1>4. stack' = Put(f)
  BY DEF RunTool, Calling
<1> HIDE DEF f
<1>5. f.tool = "file_write" => f.files < MaxFiles
  BY <1>1, <1>3, LimitsAssumption DEF OverQuota, Frame
<1>6. FrameOk(f)
  BY <1>1, <1>3, <1>5, AuthorizedMayDeploy DEF FrameOk, Same
<1>7. Settles(Len(stack), f)
  BY <1>1, <1>3, <1>4, <1>6, PutSettles
<1>8. TallyGrows
  BY <1>1, TallyRan
<1> QED BY <1>1, <1>3, <1>7, <1>8 DEF Stays

LEMMA ToolReturnsStays ==
    ASSUME LoopInv, NEW ok \in BOOLEAN, NEW logged \in BOOLEAN, ToolReturns(ok, logged)
    PROVE  Stays
<1>1. /\ stack # <<>> /\ Top \in Frame /\ FrameOk(Top) /\ Top.pc = "running" /\ Top.run \in RunIds
      /\ UNCHANGED <<runs, who, result>>
      /\ Audited(Top, ok, logged)
  BY TopFrame DEF ToolReturns, At
<1> DEFINE files == IF ok /\ Top.tool = "file_write" THEN Top.files + 1 ELSE Top.files
           f == [Top EXCEPT !.files = files]
<1>2. files \in 0 .. MaxFiles
  BY <1>1, LimitsAssumption DEF Frame, FrameOk
<1>3. stack' = Put(Recorded(f, ok /\ logged))
  BY <1>1 DEF ToolReturns, Frame
<1> HIDE DEF files
<1>4. f \in Frame
  BY <1>1, <1>2, FrameUpdates
<1>5. Same(f, Top) /\ f.asked = Top.asked /\ f.oks = Top.oks /\ f.auth = Top.auth
  BY <1>1 DEF Frame, Same
<1> HIDE DEF f
<1>6. Top.asked > 0
  BY <1>1 DEF FrameOk
<1>7. TallyGrows /\ (ok /\ logged => tally'[Top.run].events > 0)
  BY <1>1, TallyAudited
<1> DEFINE good == ok /\ logged
<1>8. good \in BOOLEAN /\ (good => tally'[Top.run].events > 0)
  BY <1>7
<1>9. stack' = Put(Recorded(f, good))
  BY <1>3
<1> HIDE DEF good
<1>10. Settles(Len(stack), Recorded(f, good)) /\ Recorded(f, good) \in Frame
  BY <1>1, <1>4, <1>5, <1>6, <1>8, <1>9, RecordSettles DEF FrameOk
<1> QED BY <1>1, <1>7, <1>10 DEF Stays

-----------------------------------------------------------------------------
(* The steps that end a run, and the one that starts a child               *)

LEMMA Leaving ==
    ASSUME LoopInv, stack # <<>>, NEW f, f.run = Top.run,
           NEW outcome \in {"ok", "failed", "raised", "rejected"}, 
           outcome = "ok" /\ Advertised[Top.agent] # {} => Top.oks > 0,
           Leave(f, outcome)
    PROVE  Leaves(outcome)
<1>1. /\ Len(stack) \in Nat \ {0} /\ Len(stack) \in 1 .. Len(stack) /\ Top = stack[Len(stack)]
      /\ Top \in Frame /\ Top.run \in RunIds
  BY TopFrame
<1>2. outcome = "ok" /\ Advertised[Top.agent] # {} => tally[Top.run].events > 0
  BY <1>1 DEF LoopInv, EvidenceOk
<1>3. UNCHANGED <<runs, who>> /\ result' = [result EXCEPT ![Top.run] = outcome]
  BY DEF Leave
<1>4. CASE Len(stack) = 1
  <2>1. stack' = <<>> /\ UNCHANGED <<tally>>
    BY <1>4 DEF Leave
  <2>2. TallyGrows
    BY <2>1, TallyKept
  <2> QED BY <1>2, <1>3, <1>4, <2>1, <2>2 DEF Leaves
<1>5. CASE Len(stack) # 1
  <2>0. Len(stack) > 1
    <3> DEFINE n == Len(stack)
    <3>1. n \in Nat \ {0} /\ n # 1
      BY <1>1, <1>5
    <3> HIDE DEF n
    <3>2. n > 1
      BY <3>1
    <3> QED BY <3>2 DEF n
  <2> DEFINE m == Len(stack) - 1
             parent == stack[m]
  <2>1. /\ Len(stack) > 1 /\ m \in 1 .. Len(stack) /\ m < Len(stack) /\ m \in Nat
        /\ Len(stack) - 2 = m - 1
    BY <1>1, <2>0
  <2>2. PICK logged \in BOOLEAN :
            /\ Audited(parent, outcome # "raised", logged)
            /\ stack' = Append(SubSeq(stack, 1, Len(stack) - 2),
                               Resume(parent, outcome # "raised" /\ logged))
    BY <1>5 DEF Leave
  <2>3. parent \in Frame /\ FrameOk(parent) /\ parent.pc = "child"
    BY <2>1 DEF LoopInv, LoopTypes, PlacesOk
  <2> DEFINE good == outcome # "raised" /\ logged
             returned == outcome # "raised"
  <2>4. good \in BOOLEAN /\ returned \in BOOLEAN
    OBVIOUS
  <2>5. parent.run \in RunIds /\ parent.asked > 0
    BY <2>3 DEF FrameOk, Frame
  <2>6. TallyGrows /\ (good => tally'[parent.run].events > 0)
    BY <2>2, <2>4, <2>5, TallyAudited
  <2>7. stack' = Append(SubSeq(stack, 1, m - 1), Recorded(parent, good))
    BY <2>1, <2>2 DEF Resume
  <2> HIDE DEF good, returned, m, parent
  <2>8. /\ Recorded(parent, good) \in Frame /\ Same(Recorded(parent, good), parent)
        /\ Recorded(parent, good).pc \in {"loop", "tools"}
        /\ Recorded(parent, good).pc = "tools" => Recorded(parent, good).asked > 0
        /\ Recorded(parent, good).auth = parent.auth
        /\ Recorded(parent, good).oks = IF good THEN parent.oks + 1 ELSE parent.oks
    BY <2>3, <2>4, <2>5, RecordedFrame
  <2>9. /\ stack' \in Seq(Frame) /\ Len(stack') = m
        /\ \A i \in 1 .. m : i < m => stack'[i] = stack[i]
        /\ stack'[m] = Recorded(parent, good)
    <3>1. /\ SubSeq(stack, 1, m - 1) \in Seq(Frame) /\ Len(SubSeq(stack, 1, m - 1)) = m - 1
          /\ \A i \in 1 .. m - 1 : SubSeq(stack, 1, m - 1)[i] = stack[i]
      <4>1. m - 1 \in Int /\ 1 \in Int /\ \A i \in 1 .. m - 1 : stack[i] \in Frame
        BY <2>1 DEF LoopInv, LoopTypes
      <4>2. /\ SubSeq(stack, 1, m - 1) \in Seq(Frame)
            /\ Len(SubSeq(stack, 1, m - 1)) = IF 1 <= m - 1 THEN m - 1 - 1 + 1 ELSE 0
            /\ \A i \in 1 .. m - 1 - 1 + 1 : SubSeq(stack, 1, m - 1)[i] = stack[1 + i - 1]
        BY <4>1, SubSeqProperties, SMT
      <4> QED BY <2>1, <4>2
    <3> DEFINE rest == SubSeq(stack, 1, m - 1)
    <3> HIDE DEF rest
    <3>2. /\ rest \in Seq(Frame) /\ Len(rest) = m - 1 /\ \A i \in 1 .. m - 1 : rest[i] = stack[i]
      BY <3>1 DEF rest
    <3>3. stack' = Append(rest, Recorded(parent, good))
      BY <2>7 DEF rest
    <3> QED BY <2>1, <2>8, <3>2, <3>3, AppendProperties
  <2>10. FrameOk(Recorded(parent, good))
    BY <2>3, <2>8 DEF FrameOk, Same
  <2>11. Settles(m, Recorded(parent, good))
    BY <2>1, <2>6, <2>8, <2>9, <2>10 DEF Settles, Same, parent
  <2> QED BY <1>2, <1>3, <2>1, <2>6, <2>8, <2>11 DEF Leaves, parent, m
<1> QED BY <1>4, <1>5

\* Each of them, with what it returns.
LEMMA EndsLeave ==
    ASSUME LoopInv,
           \/ EntityLoadFails \/ RefuseBuyerSession \/ TurnsUsed \/ TurnRefused \/ LlmFails
           \/ \E t \in 0 .. MaxUsage :
                \/ AnswerRefused(t) \/ AnswerMalformed(t)
                \/ \E met \in BOOLEAN : FinalAnswer(t, met)
           \/ \E c \in Call : ReadUnbound(c)
    PROVE  \E outcome \in {"ok", "failed", "raised", "rejected"} : Leaves(outcome)
<1>1. stack # <<>> /\ Top \in Frame
  BY TopFrame DEF At, EntityLoadFails, RefuseBuyerSession, TurnsUsed, TurnRefused, LlmFails,
     AnswerRefused, AnswerMalformed, FinalAnswer, ReadUnbound
<1>2. Top.turn \in Nat /\ Top.calls \in Nat
  BY <1>1, LimitsAssumption DEF Frame
<1>3. \A t \in 0 .. MaxUsage : Answered(t).run = Top.run
  BY <1>1, <1>2, LimitsAssumption DEF Answered, Frame
<1>4. [Top EXCEPT !.turn = @ + 1].run = Top.run
  BY <1>1 DEF Frame
<1>5. CASE EntityLoadFails \/ RefuseBuyerSession
  <2>1. Leave(Top, "rejected")
    BY <1>5 DEF EntityLoadFails, RefuseBuyerSession
  <2> QED BY <1>1, <1>2, <2>1, Leaving
<1>6. CASE TurnsUsed \/ LlmFails \/ \E c \in Call : ReadUnbound(c)
  <2>1. \E outcome \in {"failed", "raised"} : Leave(Top, outcome)
    BY <1>6 DEF TurnsUsed, LlmFails, ReadUnbound, EndLoop
  <2> QED BY <1>1, <1>2, <2>1, Leaving
<1>7. CASE TurnRefused
  <2>1. Leave([Top EXCEPT !.turn = @ + 1], "failed")
    BY <1>7 DEF TurnRefused, EndLoop
  <2> DEFINE f == [Top EXCEPT !.turn = @ + 1]
  <2>2. f.run = Top.run
    BY <1>2, <1>4
  <2> HIDE DEF f
  <2>3. Leave(f, "failed")
    BY <2>1 DEF f
  <2> QED BY <1>1, <2>2, <2>3, Leaving
<1>8. CASE \E t \in 0 .. MaxUsage : AnswerRefused(t) \/ AnswerMalformed(t)
  <2>1. PICK t \in 0 .. MaxUsage : AnswerRefused(t) \/ AnswerMalformed(t)
    BY <1>8
  <2>2. \/ \E outcome \in {"failed", "raised"} : Leave(Answered(t), outcome)
        \/ Leave(Top, "raised")
    BY <2>1 DEF AnswerRefused, AnswerMalformed, EndLoop
  <2> QED BY <1>1, <1>2, <1>3, <2>2, Leaving
<1>9. CASE \E t \in 0 .. MaxUsage, met \in BOOLEAN : FinalAnswer(t, met)
  <2>1. PICK t \in 0 .. MaxUsage, met \in BOOLEAN : FinalAnswer(t, met)
    BY <1>9
  <2>2. PICK outcome \in {"ok", "failed"} :
            /\ outcome = "ok" => CriteriaMet(Top, met)
            /\ Leave(Answered(t), outcome)
    <3>1. CASE CriteriaMet(Top, met)
      BY <2>1, <3>1 DEF FinalAnswer, EndLoop
    <3>2. CASE ~CriteriaMet(Top, met)
      BY <2>1, <3>2 DEF FinalAnswer, EndLoop
    <3> QED BY <3>1, <3>2
  <2>3. outcome = "ok" /\ Advertised[Top.agent] # {} => Top.oks > 0
    BY <2>2 DEF CriteriaMet
  <2> QED BY <1>1, <1>3, <2>2, <2>3, Leaving
<1> QED BY <1>5, <1>6, <1>7, <1>8, <1>9

LEMMA CallGrows ==
    ASSUME LoopInv, NEW c \in Call, NEW auth \in Auths, CallAgent(c, auth)
    PROVE  \E f \in Frame, g \in Frame : Grows(f, g)
<1>1. /\ stack # <<>> /\ Top \in Frame /\ FrameOk(Top) /\ Top.pc = "tools" /\ Top.run \in RunIds
      /\ Len(stack) \in Nat \ {0} /\ Len(stack) \in 1 .. Len(stack) /\ stack \in Seq(Frame)
      /\ UNCHANGED <<result>> /\ runs < MaxRuns /\ runs' = runs + 1
      /\ who' = [who EXCEPT ![runs + 1] = c.target]
      /\ Authorize(Top, c.tool, auth) /\ MayCall(Top, c.target) /\ c.tool = "genesis_call"
      /\ tally' = [tally EXCEPT ![Top.run] = Ran(c.tool, Announce(c.tool, @))]
  BY TopFrame DEF CallAgent, CallsAgent, Runs, At, LoopInv, LoopTypes
<1>2. c.tool \in Tools /\ c.target \in Agents
  BY <1>1 DEF Call
<1> DEFINE f == Calling(Top, auth, c.tool, "child")
           chain == Top.chain \cup {Top.agent}
           g == NewRun(c.target, chain, Top.depth + 1, Allowed[Top.agent])
<1>3. /\ f \in Frame /\ Same(f, Top) /\ f.auth = auth /\ f.pc = "child"
      /\ f.asked = Top.asked /\ f.oks = Top.oks
  BY <1>1, <1>2, CallingFrame
<1>4. stack' = Append(Put(f), g)
  BY DEF CallAgent, Calling
<1>5. /\ Top.tokens \in Nat /\ Top.chain \subseteq Agents /\ Top.agent \in Agents
      /\ Top.depth \in 0 .. MaxDepth
  BY <1>1, LimitsAssumption DEF Frame
<1>6. Allowed[Top.agent] \subseteq STRING
  BY <1>1, <1>2, <1>5, TablesAssumption DEF LoopInv, LoopTypes
<1>8. runs + 1 \in RunIds /\ Top.depth + 1 \in 0 .. MaxDepth /\ chain \subseteq Agents
      /\ c.target \notin chain
  <2>1. runs + 1 \in RunIds
    BY <1>1, LimitsAssumption DEF RunIds, LoopInv, LoopTypes
  <2>2. Top.depth + 1 \in 0 .. MaxDepth /\ c.target \notin chain
    BY <1>1, <1>5, LimitsAssumption DEF MayCall
  <2> QED BY <1>5, <2>1, <2>2
<1> HIDE DEF f, chain
<1>9. /\ g.run = runs + 1 /\ g.agent = c.target /\ g.chain = chain /\ g.depth = Top.depth + 1
      /\ g.pc = "enter" /\ g.auth = "unbound" /\ g.oks = 0
  BY DEF NewRun
<1>10. g \in Frame
  BY <1>2, <1>6, <1>8, LimitsAssumption DEF NewRun, Frame, Auths
<1> HIDE DEF g
<1>11. FrameOk(g) /\ FrameOk(f)
  BY <1>1, <1>3, <1>9, AuthorizedMayDeploy DEF FrameOk, Same
<1>12. /\ stack' \in Seq(Frame) /\ Len(stack') = Len(stack) + 1
       /\ \A i \in 1 .. Len(stack) : i < Len(stack) => stack'[i] = stack[i]
       /\ stack'[Len(stack)] = f /\ stack'[Len(stack) + 1] = g
  <2>1. /\ Put(f) \in Seq(Frame) /\ Len(Put(f)) = Len(stack)
        /\ \A i \in 1 .. Len(stack) : Put(f)[i] = IF i = Len(stack) THEN f ELSE stack[i]
    BY <1>1, <1>3, ExceptSeq DEF Put
  <2> DEFINE put == Put(f)
  <2> HIDE DEF put
  <2>2. /\ put \in Seq(Frame) /\ Len(put) = Len(stack)
        /\ \A i \in 1 .. Len(stack) : put[i] = IF i = Len(stack) THEN f ELSE stack[i]
    BY <2>1 DEF put
  <2>3. stack' = Append(put, g)
    BY <1>4 DEF put
  <2> QED BY <1>1, <1>10, <2>2, <2>3, AppendProperties
<1>13. TallyGrows
  BY <1>1, TallyRan
<1>15. g.chain = Top.chain \cup {Top.agent} /\ g.agent \notin g.chain
  BY <1>8, <1>9 DEF chain
<1>16. Grows(f, g)
  BY <1>1, <1>3, <1>9, <1>10, <1>11, <1>12, <1>13, <1>15 DEF Grows
<1> QED BY <1>3, <1>10, <1>16

LEMMA StartKeeps ==
    ASSUME LoopInv, NEW a \in Agents, Start(a)
    PROVE  LoopInv'
<1> DEFINE f == NewRun(a, {}, 0, Risks)
<1>1. /\ runs = 0 /\ runs' = 1 /\ who' = [who EXCEPT ![Root] = a] /\ stack' = <<f>>
      /\ UNCHANGED <<result, tally>>
  BY DEF Start
<1>2. Root \in RunIds /\ Root = 1 /\ Risks \subseteq STRING
  BY LimitsAssumption, TablesAssumption DEF Root, RunIds, Risks
<1>3. /\ f.run = 1 /\ f.agent = a /\ f.chain = {} /\ f.depth = 0 /\ f.pc = "enter"
      /\ f.auth = "unbound" /\ f.oks = 0
  BY <1>1 DEF NewRun
<1>4. f \in Frame
  BY <1>1, <1>2, LimitsAssumption DEF NewRun, Frame, Auths, Root
<1> HIDE DEF f
<1>5. /\ stack' \in Seq(Frame) /\ Len(stack') = 1 /\ stack'[1] = f
      /\ \A i \in 1 .. Len(stack') : i = 1
  BY <1>1, <1>4
<1>6. \A r \in RunIds : result[r] = "none"
  BY <1>1 DEF LoopInv, RunsOk, RunIds
<1>7. LoopTypes'
  BY <1>1, <1>2, <1>5, LimitsAssumption DEF LoopInv, LoopTypes
<1>8. ChainSound'
  BY <1>3, <1>5 DEF ChainSound
<1>9. PlacesOk'
  BY <1>3, <1>5 DEF PlacesOk, FrameOk
<1>10. RunsOk'
  BY <1>1, <1>2, <1>3, <1>5, <1>6 DEF RunsOk, LoopInv, LoopTypes
<1>11. EffectsAnnounced' /\ EvidenceOk'
  BY <1>1, <1>3, <1>5 DEF LoopInv, EffectsAnnounced, EvidenceOk
<1>12. OkHasEvidence'
  BY <1>1, <1>6 DEF OkHasEvidence
<1> QED BY <1>7, <1>8, <1>9, <1>10, <1>11, <1>12 DEF LoopInv

-----------------------------------------------------------------------------
(* The invariant of the stack                                              *)

LEMMA LoopInvInit == Init => LoopInv
<1> SUFFICES ASSUME Init PROVE LoopInv
  OBVIOUS
<1>1. /\ stack = <<>> /\ Len(stack) = 0 /\ stack \in Seq(Frame) /\ runs = 0
      /\ who = [r \in RunIds |-> NoAgent] /\ result = [r \in RunIds |-> "none"]
      /\ tally = [r \in RunIds |-> NoTally]
  BY DEF Init
<1>2. LoopTypes
  BY <1>1, LimitsAssumption DEF LoopTypes, NoTally
<1>3. ChainSound /\ PlacesOk /\ EvidenceOk
  BY <1>1 DEF ChainSound, PlacesOk, EvidenceOk
<1>4. RunsOk /\ OkHasEvidence
  BY <1>1 DEF RunsOk, OkHasEvidence
<1>5. EffectsAnnounced
  BY <1>1 DEF EffectsAnnounced, NoTally
<1> QED BY <1>2, <1>3, <1>4, <1>5 DEF LoopInv

LEMMA LoopQuiet ==
    ASSUME LoopInv, UNCHANGED loopVars
    PROVE  LoopInv'
<1>1. UNCHANGED <<stack, runs, who, result, tally>>
  BY DEF loopVars
<1> QED BY <1>1 DEF LoopInv, LoopTypes, ChainSound, PlacesOk, RunsOk, FrameOk, EffectsAnnounced,
          EvidenceOk, OkHasEvidence

LEMMA DispatchKeeps ==
    ASSUME LoopInv, Dispatch
    PROVE  LoopInv'
<1>1. PICK c \in Call :
        \/ RefuseCall(c) \/ ReadUnbound(c)
        \/ \E auth \in Auths :
              \/ BlockCall(c, auth) \/ PreflightFails(c, auth) \/ RunTool(c, auth)
              \/ CallAgent(c, auth) \/ \E logged \in BOOLEAN : CallRefused(c, auth, logged)
  BY DEF Dispatch
<1>2. stack # <<>>
  BY <1>1 DEF RefuseCall, ReadUnbound, BlockCall, PreflightFails, RunTool, CallAgent, CallRefused,
     CallsAgent, At
<1>3. CASE RefuseCall(c)
  <2>1. "yes" \in Auths
    BY DEF Auths
  <2>2. Stays
    BY <1>3, <2>1, RefusalStays
  <2> QED BY <1>2, <2>2, StayKeeps
<1>4. CASE ReadUnbound(c)
  <2>1. \E outcome \in {"ok", "failed", "raised", "rejected"} : Leaves(outcome)
    BY <1>4, EndsLeave
  <2> QED BY <1>2, <2>1, LeaveKeeps
<1>5. ASSUME NEW auth \in Auths,
             \/ BlockCall(c, auth) \/ PreflightFails(c, auth) \/ RunTool(c, auth)
             \/ \E logged \in BOOLEAN : CallRefused(c, auth, logged)
      PROVE  LoopInv'
  <2>1. Stays
    BY <1>5, RefusalStays, RunToolStays, CallRefusedStays
  <2> QED BY <1>2, <2>1, StayKeeps
<1>6. ASSUME NEW auth \in Auths, CallAgent(c, auth) PROVE LoopInv'
  BY <1>2, <1>6, CallGrows, GrowKeeps
<1> QED BY <1>1, <1>3, <1>4, <1>5, <1>6

LEMMA LoopInvStep == LoopInv /\ [Next]_vars => LoopInv'
<1> SUFFICES ASSUME LoopInv, [Next]_vars PROVE LoopInv'
  OBVIOUS
<1>1. ASSUME NEW a \in Agents, Start(a) PROVE LoopInv'
  BY <1>1, StartKeeps
<1>2. CASE \/ EntityLoadFails \/ RefuseBuyerSession \/ TurnsUsed \/ TurnRefused \/ LlmFails
           \/ \E t \in 0 .. MaxUsage :
                \/ AnswerRefused(t) \/ AnswerMalformed(t)
                \/ \E met \in BOOLEAN : FinalAnswer(t, met)
  <2>1. stack # <<>>
    BY <1>2 DEF At, EntityLoadFails, RefuseBuyerSession, TurnsUsed, TurnRefused, LlmFails,
       AnswerRefused, AnswerMalformed, FinalAnswer
  <2>2. \E outcome \in {"ok", "failed", "raised", "rejected"} : Leaves(outcome)
    BY <1>2, EndsLeave
  <2> QED BY <2>1, <2>2, LeaveKeeps
<1>3. CASE \/ EnterLoop \/ CallLlm
           \/ \E t \in 0 .. MaxUsage, n \in 1 .. MaxAsked : AsksForTools(t, n)
           \/ \E ok, logged \in BOOLEAN : ToolReturns(ok, logged)
  <2>1. stack # <<>>
    BY <1>3 DEF At, EnterLoop, CallLlm, AsksForTools, ToolReturns
  <2>2. Stays
    BY <1>3, LoopStays, AskingStays, ToolReturnsStays
  <2> QED BY <2>1, <2>2, StayKeeps
<1>4. CASE Dispatch
  BY <1>4, DispatchKeeps
<1>5. CASE Write \/ UNCHANGED vars
  <2>1. UNCHANGED loopVars
    BY <1>5 DEF Write, WriteSession, WriteFails, vars
  <2> QED BY <2>1, LoopQuiet
<1> QED BY <1>1, <1>2, <1>3, <1>4, <1>5 DEF Next, Step

\* The invariant of the agent loop holds in every reachable state.
THEOREM LoopSafety == Spec => []LoopInv
BY LoopInvInit, LoopInvStep, PTL DEF Spec

\* genesis_call: the agents that wait for each other
\* are distinct and each one carries exactly its ancestors, for every table of
\* delegation targets and every depth.
THEOREM DelegationNeverReturns == Spec => []ChainSound
<1>1. LoopInv => ChainSound
  BY DEF LoopInv
<1> QED BY <1>1, LoopSafety, PTL

\* append_tool_intent before a tool that is not read-only: whatever appends fail, no
\* more effects than announcements.
THEOREM NoSilentEffect == Spec => []EffectsAnnounced
<1>1. LoopInv => EffectsAnnounced
  BY DEF LoopInv
<1> QED BY <1>1, LoopSafety, PTL

\* _check_success_criteria: a run with tools that ends ok has a successful event in
\* the audit chain.
THEOREM SuccessLeavesEvidence == Spec => []OkHasEvidence
<1>1. LoopInv => OkHasEvidence
  BY DEF LoopInv
<1> QED BY <1>1, LoopSafety, PTL

-----------------------------------------------------------------------------
(* Deployments                                                             *)

\* A deployment that gets past the authorization has just used up the grant: a
\* run that may not deploy was never authorized, so it has nothing to reuse.
LEMMA AuthorizeGrant ==
    ASSUME SideTypes, DeploymentAuthorized, NEW f, FrameOk(f), NEW t \in Tools, NEW auth,
           Authorize(f, t, auth)
    PROVE  /\ grant' \in {"none", "unused", "spent"}
           /\ deploys <= (IF grant' = "spent" THEN 1 ELSE 0)
           /\ Risk[t] = "deployment" /\ Cleared(t, auth) => deploys = 0 /\ grant' = "spent"
<1>1. CASE ~Denied(f, t) /\ Risk[t] = "deployment"
  <2>1. ConsumeGrant(f, auth)
    BY <1>1 DEF Authorize
  <2> QED BY <1>1, <2>1 DEF ConsumeGrant, SideTypes, DeploymentAuthorized, Cleared
<1>2. CASE ~(~Denied(f, t) /\ Risk[t] = "deployment")
  <2>1. auth = f.auth /\ UNCHANGED grant
    BY <1>2 DEF Authorize
  <2>2. ASSUME Risk[t] = "deployment", Cleared(t, auth) PROVE FALSE
    <3>1. "deployment" \in Allowed[f.agent] /\ "deployment" \in f.risks
      BY <2>1, <2>2 DEF Cleared, FrameOk
    <3>2. t \notin HumanOnly
      BY <2>2, HumanOnlyAssumption
    <3> QED BY <1>2, <2>2, <3>1, <3>2 DEF Denied, PolicyOk
  <2> QED BY <2>1, <2>2 DEF SideTypes, DeploymentAuthorized
<1> QED BY <1>1, <1>2

LEMMA FaultsLeft ==
    ASSUME SideTypes, faults' = faults \/ (faults > 0 /\ faults' = faults - 1)
    PROVE  faults' \in 0 .. MaxFaults
BY LimitsAssumption DEF SideTypes

\* What a step that dispatches no tool call does to the grant.
LEMMA NoGrantTouched ==
    ASSUME SideTypes, DeploymentAuthorized, UNCHANGED <<grant, deploys>>, vault' \in BOOLEAN,
           faults' = faults \/ (faults > 0 /\ faults' = faults - 1)
    PROVE  SideTypes' /\ DeploymentAuthorized'
BY FaultsLeft DEF SideTypes, DeploymentAuthorized

LEMMA LeaveGrant ==
    ASSUME SideTypes, NEW f, NEW outcome, Leave(f, outcome)
    PROVE  /\ UNCHANGED <<grant, deploys>>
           /\ faults' = faults \/ (faults > 0 /\ faults' = faults - 1)
BY DEF Leave, Audited

LEMMA DispatchGrant ==
    ASSUME LoopInv, SideTypes, DeploymentAuthorized, Dispatch
    PROVE  SideTypes' /\ DeploymentAuthorized'
<1>1. PICK c \in Call :
        \/ RefuseCall(c) \/ ReadUnbound(c)
        \/ \E auth \in Auths :
              \/ BlockCall(c, auth) \/ PreflightFails(c, auth) \/ RunTool(c, auth)
              \/ CallAgent(c, auth) \/ \E logged \in BOOLEAN : CallRefused(c, auth, logged)
  BY DEF Dispatch
<1>2. c.tool \in Tools /\ vault \in BOOLEAN
  BY DEF Call, SideTypes
<1>3. FrameOk(Top)
  <2>1. stack # <<>>
    BY <1>1 DEF RefuseCall, ReadUnbound, BlockCall, PreflightFails, RunTool, CallAgent,
       CallRefused, CallsAgent, At
  <2> QED BY <2>1, TopFrame
<1>4. CASE RefuseCall(c)
  BY <1>2, <1>4, NoGrantTouched DEF RefuseCall, Skip
<1>5. CASE ReadUnbound(c)
  <2>1. EndLoop(Top, "raised")
    BY <1>5 DEF ReadUnbound
  <2>2. vault' \in BOOLEAN
    BY <1>2, <2>1 DEF EndLoop
  <2> QED BY <2>1, <2>2, LeaveGrant, NoGrantTouched DEF EndLoop
<1>6. ASSUME NEW auth \in Auths,
             \/ BlockCall(c, auth) \/ PreflightFails(c, auth) \/ RunTool(c, auth)
             \/ CallAgent(c, auth) \/ \E logged \in BOOLEAN : CallRefused(c, auth, logged)
      PROVE  SideTypes' /\ DeploymentAuthorized'
  <2>1. /\ Authorize(Top, c.tool, auth) /\ vault' = vault
        /\ faults' = faults \/ (faults > 0 /\ faults' = faults - 1)
    BY <1>6 DEF BlockCall, PreflightFails, RunTool, CallAgent, CallRefused, CallsAgent, Runs, Skip
  <2>2. /\ grant' \in {"none", "unused", "spent"}
        /\ deploys <= (IF grant' = "spent" THEN 1 ELSE 0)
        /\ Risk[c.tool] = "deployment" /\ Cleared(c.tool, auth) => deploys = 0 /\ grant' = "spent"
    BY <1>2, <1>3, <2>1, AuthorizeGrant
  <2>3. deploys' = deploys \/ (deploys' = deploys + 1 /\ Risk[c.tool] = "deployment"
                               /\ Cleared(c.tool, auth))
    BY <1>6 DEF BlockCall, PreflightFails, RunTool, CallAgent, CallRefused, CallsAgent, Runs, Skip
  <2>4. deploys' \in Nat /\ deploys' <= (IF grant' = "spent" THEN 1 ELSE 0)
    BY <2>2, <2>3 DEF SideTypes
  <2> QED BY <1>2, <2>1, <2>2, <2>4, FaultsLeft DEF SideTypes, DeploymentAuthorized
<1> QED BY <1>1, <1>4, <1>5, <1>6

LEMMA GrantStep ==
    LoopInv /\ SideTypes /\ DeploymentAuthorized /\ [Next]_vars
        => SideTypes' /\ DeploymentAuthorized'
<1> SUFFICES ASSUME LoopInv, SideTypes, DeploymentAuthorized, [Next]_vars
             PROVE  SideTypes' /\ DeploymentAuthorized'
  OBVIOUS
<1>0. vault \in BOOLEAN
  BY DEF SideTypes
<1>1. ASSUME NEW a \in Agents, Start(a) PROVE SideTypes' /\ DeploymentAuthorized'
  BY <1>0, <1>1, NoGrantTouched DEF Start
<1>2. CASE EntityLoadFails \/ RefuseBuyerSession
  <2>1. Leave(Top, "rejected") /\ vault' \in BOOLEAN
    BY <1>0, <1>2 DEF EntityLoadFails, RefuseBuyerSession
  <2> QED BY <2>1, LeaveGrant, NoGrantTouched
<1>3. CASE \/ TurnsUsed \/ TurnRefused \/ LlmFails
           \/ \E t \in 0 .. MaxUsage :
                \/ AnswerRefused(t) \/ AnswerMalformed(t)
                \/ \E met \in BOOLEAN : FinalAnswer(t, met)
  <2>1. \E f, outcome : EndLoop(f, outcome)
    BY <1>3 DEF TurnsUsed, TurnRefused, LlmFails, AnswerRefused, AnswerMalformed, FinalAnswer
  <2>2. PICK f, outcome : EndLoop(f, outcome)
    BY <2>1
  <2>3. Leave(f, outcome) /\ vault' \in BOOLEAN
    BY <1>0, <2>2 DEF EndLoop
  <2> QED BY <2>3, LeaveGrant, NoGrantTouched
<1>4. CASE \/ EnterLoop \/ CallLlm
           \/ \E t \in 0 .. MaxUsage, n \in 1 .. MaxAsked : AsksForTools(t, n)
           \/ \E ok, logged \in BOOLEAN : ToolReturns(ok, logged)
           \/ Write \/ UNCHANGED vars
  <2>1. UNCHANGED <<grant, deploys, vault>>
    BY <1>4 DEF EnterLoop, CallLlm, AsksForTools, ToolReturns, Write, WriteSession, WriteFails,
       loopVars, vars
  <2>2. faults' = faults \/ (faults > 0 /\ faults' = faults - 1)
    BY <1>4 DEF EnterLoop, CallLlm, AsksForTools, ToolReturns, Audited, Write, WriteSession,
       WriteFails, vars
  <2> QED BY <1>0, <2>1, <2>2, NoGrantTouched
<1>5. CASE Dispatch
  BY <1>5, DispatchGrant
<1> QED BY <1>1, <1>2, <1>3, <1>4, <1>5 DEF Next, Step

\* consume_action_grant and deployment_authorized: one grant lets one deployment tool
\* run. The variable that an earlier call of the run left behind authorizes nothing.
THEOREM GrantsDeployOnce == Spec => []DeploymentAuthorized
<1>1. Init => SideTypes /\ DeploymentAuthorized
  BY LimitsAssumption DEF Init, SideTypes, DeploymentAuthorized
<1> QED BY <1>1, GrantStep, LoopSafety, PTL DEF Spec

-----------------------------------------------------------------------------
(* The durable session row                                                 *)

\* Run r0 is still under way when a write of its own joins the queue.
LEMMA OwnWrite ==
    ASSUME SessionsInv, NEW r0 \in RunIds, NEW status \in Status,
           writes' = Append(writes, <<r0, status>>), UNCHANGED <<sessions, lost>>,
           \A r \in RunIds : r # r0 => result'[r] = result[r],
           result'[r0] \in {"ok", "failed", "raised"}
              => status = IF result'[r0] = "ok" THEN "COMPLETED" ELSE "FAILED"
    PROVE  SessionsInv'
<1>1. /\ writes \in Seq(RunIds \X Status) /\ <<r0, status>> \in RunIds \X Status
      /\ Len(writes) \in Nat
  BY DEF SessionsInv
<1> DEFINE new == <<r0, status>>
<1>2. new[1] = r0 /\ new = <<r0, status>>
  OBVIOUS
<1> HIDE DEF new
<1>3. /\ writes' \in Seq(RunIds \X Status) /\ Len(writes') = Len(writes) + 1
      /\ \A k \in 1 .. Len(writes) : writes'[k] = writes[k]
      /\ writes'[Len(writes) + 1] = new
  BY <1>1, <1>2, AppendProperties
<1> DEFINE n == Len(writes)
<1>a. \A m \in 1 .. n + 1 : m # n + 1 => m \in 1 .. n
  <2>1. n \in Nat
    BY <1>1
  <2> HIDE DEF n
  <2> QED BY <2>1
<1>b. \A m \in 1 .. Len(writes') : m # Len(writes) + 1 => m \in 1 .. Len(writes)
  BY <1>3, <1>a
<1> HIDE DEF n
<1>4. ASSUME NEW r \in RunIds, r \notin lost, result'[r] \in {"ok", "failed", "raised"}
      PROVE  OutcomeOnItsWay(r)'
  <2>1. CASE r = r0
    <3>1. writes'[Len(writes) + 1] = <<r, Final(r)'>>
      BY <1>2, <1>3, <1>4, <2>1 DEF Final
    <3>2. /\ Len(writes) + 1 \in 1 .. Len(writes')
          /\ \A m \in 1 .. Len(writes') : ~(m > Len(writes) + 1)
      BY <1>1, <1>3
    <3> QED BY <3>1, <3>2 DEF OutcomeOnItsWay
  <2>2. CASE r # r0
    <3>1. Final(r)' = Final(r) /\ result[r] = result'[r]
      BY <2>2 DEF Final
    <3>2. OutcomeOnItsWay(r)
      BY <1>4, <3>1 DEF SessionsInv
    <3>3. ASSUME NEW k \in 1 .. Len(writes), writes[k] = <<r, Final(r)>>,
                 \A m \in 1 .. Len(writes) : m > k => writes[m][1] # r
          PROVE  OutcomeOnItsWay(r)'
      <4>1. k \in 1 .. Len(writes') /\ writes'[k] = <<r, Final(r)'>>
        BY <1>1, <1>3, <3>1, <3>3
      <4>2. \A m \in 1 .. Len(writes') : m > k => writes'[m][1] # r
        <5>1. SUFFICES ASSUME NEW m \in 1 .. Len(writes'), m > k PROVE writes'[m][1] # r
          OBVIOUS
        <5>2. CASE m = Len(writes) + 1
          BY <1>2, <1>3, <2>2, <5>2
        <5>3. CASE m # Len(writes) + 1
          <6>1. m \in 1 .. Len(writes)
            BY <1>b, <5>3
          <6> QED BY <1>3, <3>3, <5>1, <6>1
        <5> QED BY <5>2, <5>3
      <4> QED BY <4>1, <4>2 DEF OutcomeOnItsWay
    <3>4. ASSUME \A m \in 1 .. Len(writes) : writes[m][1] # r, sessions[r] \in {"NONE", Final(r)}
          PROVE  OutcomeOnItsWay(r)'
      <4>1. \A m \in 1 .. Len(writes') : writes'[m][1] # r
        <5>1. SUFFICES ASSUME NEW m \in 1 .. Len(writes') PROVE writes'[m][1] # r
          OBVIOUS
        <5>2. CASE m = Len(writes) + 1
          BY <1>2, <1>3, <2>2, <5>2
        <5>3. CASE m # Len(writes) + 1
          <6>1. m \in 1 .. Len(writes)
            BY <1>b, <5>3
          <6> QED BY <1>3, <3>4, <6>1
        <5> QED BY <5>2, <5>3
      <4> QED BY <3>1, <3>4, <4>1 DEF OutcomeOnItsWay
    <3> QED BY <3>2, <3>3, <3>4 DEF OutcomeOnItsWay
  <2> QED BY <2>1, <2>2
<1> QED BY <1>3, <1>4 DEF SessionsInv

\* A step that writes nothing and ends no run in its loop.
LEMMA NoWrite ==
    ASSUME SessionsInv, UNCHANGED <<writes, sessions, lost>>,
           \A r \in RunIds : result'[r] = result[r] \/ result'[r] = "rejected"
    PROVE  SessionsInv'
<1>1. ASSUME NEW r \in RunIds, r \notin lost, result'[r] \in {"ok", "failed", "raised"}
      PROVE  OutcomeOnItsWay(r)'
  <2>1. result'[r] = result[r] /\ Final(r)' = Final(r)
    BY <1>1 DEF Final
  <2>2. OutcomeOnItsWay(r)
    BY <1>1, <2>1 DEF SessionsInv
  <2> QED BY <2>1, <2>2 DEF OutcomeOnItsWay
<1> QED BY <1>1 DEF SessionsInv

\* The writer thread takes the oldest write, and applies it or drops it.
LEMMA WriteKeeps ==
    ASSUME SessionsInv, Write
    PROVE  SessionsInv'
<1> DEFINE r0 == writes[1][1]
           status == writes[1][2]
<1>1. /\ writes \in Seq(RunIds \X Status) /\ writes # <<>> /\ UNCHANGED result
  BY DEF SessionsInv, Write, WriteSession, WriteFails, loopVars
<1>2. /\ Len(writes) \in Nat \ {0} /\ writes[1] \in RunIds \X Status
      /\ Head(writes) = writes[1]
  BY <1>1, EmptySeq
<1>3. r0 \in RunIds /\ status \in Status /\ writes[1] = <<r0, status>>
  BY <1>2
<1>4. \/ writes' = Tail(writes) /\ sessions' = Written(r0, status) /\ UNCHANGED lost
      \/ writes' = Tail(writes) /\ lost' = lost \cup {r0} /\ UNCHANGED sessions
  BY <1>2 DEF Write, WriteSession, WriteFails, Take
<1> HIDE DEF r0, status
<1>5. /\ writes' \in Seq(RunIds \X Status) /\ Len(writes') = Len(writes) - 1
      /\ \A k \in 1 .. Len(writes') : writes'[k] = writes[k + 1]
  BY <1>1, <1>2, <1>4, HeadTailProperties
<1>6. /\ sessions' \in [RunIds -> Status \cup {"NONE"}] /\ lost' \subseteq RunIds
      /\ \A r \in RunIds : r # r0 => sessions'[r] = sessions[r]
      /\ lost \subseteq lost' /\ (r0 \notin lost' => sessions' = Written(r0, status))
  BY <1>3, <1>4 DEF SessionsInv, Written, Status
<1>7. ASSUME NEW r \in RunIds, r \notin lost', result[r] \in {"ok", "failed", "raised"}
      PROVE  OutcomeOnItsWay(r)'
  <2>1. Final(r)' = Final(r) /\ OutcomeOnItsWay(r)
    BY <1>1, <1>6, <1>7 DEF Final, SessionsInv
  <2>2. ASSUME NEW k \in 1 .. Len(writes), writes[k] = <<r, Final(r)>>,
               \A m \in 1 .. Len(writes) : m > k => writes[m][1] # r
        PROVE  OutcomeOnItsWay(r)'
    <3>1. CASE k = 1
      <4>1. r = r0 /\ status = Final(r)
        BY <1>3, <2>2, <3>1
      <4>2. sessions'[r] \in {"NONE", Final(r)}
        <5>1. sessions' = Written(r0, status) /\ status # "ACTIVE" /\ sessions[r] \in Status \cup {"NONE"}
          BY <1>6, <1>7, <4>1 DEF Final, SessionsInv
        <5> QED BY <4>1, <5>1 DEF Written, SessionsInv
      <4>3. \A m \in 1 .. Len(writes') : writes'[m][1] # r
        BY <1>2, <1>5, <2>2, <3>1
      <4> QED BY <2>1, <4>2, <4>3 DEF OutcomeOnItsWay
    <3>2. CASE k # 1
      <4>1. /\ k - 1 \in 1 .. Len(writes') /\ writes'[k - 1] = <<r, Final(r)>>
        BY <1>2, <1>5, <2>2, <3>2
      <4>2. \A m \in 1 .. Len(writes') : m > k - 1 => writes'[m][1] # r
        BY <1>2, <1>5, <2>2
      <4> QED BY <2>1, <4>1, <4>2 DEF OutcomeOnItsWay
    <3> QED BY <3>1, <3>2
  <2>3. ASSUME \A m \in 1 .. Len(writes) : writes[m][1] # r, sessions[r] \in {"NONE", Final(r)}
        PROVE  OutcomeOnItsWay(r)'
    <3>1. r # r0
      BY <1>2, <2>3 DEF r0
    <3>2. \A m \in 1 .. Len(writes') : writes'[m][1] # r
      BY <1>2, <1>5, <2>3
    <3> QED BY <1>6, <2>1, <2>3, <3>1, <3>2 DEF OutcomeOnItsWay
  <2> QED BY <2>1, <2>2, <2>3 DEF OutcomeOnItsWay
<1> QED BY <1>1, <1>5, <1>6, <1>7 DEF SessionsInv

\* _run_loop is left with an outcome, and the finally clause queues session_finish.
LEMMA EndLoopWrites ==
    ASSUME LoopInv, SessionsInv, stack # <<>>, NEW f, f.run = Top.run,
           NEW outcome \in {"ok", "failed", "raised"}, EndLoop(f, outcome)
    PROVE  SessionsInv'
<1>1. Top.run \in RunIds /\ result \in [RunIds -> {"none", "ok", "failed", "raised", "rejected"}]
  BY TopFrame DEF LoopInv, LoopTypes
<1>2. /\ result' = [result EXCEPT ![Top.run] = outcome] /\ UNCHANGED <<sessions, lost>>
      /\ writes' = Append(writes, <<Top.run, IF outcome = "ok" THEN "COMPLETED" ELSE "FAILED">>)
  BY DEF EndLoop, Leave, Finish
<1> DEFINE status == IF outcome = "ok" THEN "COMPLETED" ELSE "FAILED"
<1>3. status \in Status
  BY DEF Status
<1>4. /\ \A r \in RunIds : r # Top.run => result'[r] = result[r]
      /\ result'[Top.run] \in {"ok", "failed", "raised"}
            => status = IF result'[Top.run] = "ok" THEN "COMPLETED" ELSE "FAILED"
  BY <1>1, <1>2
<1> HIDE DEF status
<1>5. writes' = Append(writes, <<Top.run, status>>)
  BY <1>2 DEF status
<1> QED BY <1>1, <1>2, <1>3, <1>4, <1>5, OwnWrite

LEMMA SessionsStep == LoopInv /\ SessionsInv /\ [Next]_vars => SessionsInv'
<1> SUFFICES ASSUME LoopInv, SessionsInv, [Next]_vars PROVE SessionsInv'
  OBVIOUS
<1>0. /\ result \in [RunIds -> {"none", "ok", "failed", "raised", "rejected"}]
      /\ stack # <<>> => Top \in Frame /\ Top.run \in RunIds /\ result[Top.run] = "none"
  BY TopFrame DEF LoopInv, LoopTypes
<1>1. CASE \/ (\E a \in Agents : Start(a)) \/ CallLlm
           \/ \E t \in 0 .. MaxUsage, n \in 1 .. MaxAsked : AsksForTools(t, n)
           \/ \E ok, logged \in BOOLEAN : ToolReturns(ok, logged)
           \/ UNCHANGED vars
  <2>1. UNCHANGED <<writes, sessions, lost, result>>
    BY <1>1 DEF Start, CallLlm, AsksForTools, ToolReturns, loopVars, vars
  <2> QED BY <2>1, NoWrite
<1>2. CASE EntityLoadFails
  <2>1. stack # <<>> /\ Leave(Top, "rejected") /\ UNCHANGED writes
    BY <1>2 DEF EntityLoadFails, At
  <2>2. result' = [result EXCEPT ![Top.run] = "rejected"] /\ UNCHANGED <<sessions, lost>>
    BY <2>1 DEF Leave
  <2>3. \A r \in RunIds : result'[r] = result[r] \/ result'[r] = "rejected"
    BY <1>0, <2>2
  <2> QED BY <2>1, <2>2, <2>3, NoWrite
<1>3. CASE RefuseBuyerSession
  <2>1. /\ stack # <<>> /\ Leave(Top, "rejected")
        /\ writes' = Append(writes, <<Top.run, "ACTIVE">>)
    BY <1>3 DEF RefuseBuyerSession, At
  <2>2. result' = [result EXCEPT ![Top.run] = "rejected"] /\ UNCHANGED <<sessions, lost>>
    BY <2>1 DEF Leave
  <2>3. /\ \A r \in RunIds : r # Top.run => result'[r] = result[r]
        /\ result'[Top.run] = "rejected" /\ Top.run \in RunIds /\ "ACTIVE" \in Status
    BY <1>0, <2>1, <2>2 DEF Status
  <2> QED BY <2>1, <2>2, <2>3, OwnWrite
<1>4. CASE EnterLoop
  <2>1. /\ stack # <<>> /\ writes' = Append(writes, <<Top.run, "ACTIVE">>)
        /\ UNCHANGED <<result, sessions, lost>>
    BY <1>4 DEF EnterLoop, At
  <2>2. result'[Top.run] = "none" /\ Top.run \in RunIds /\ "ACTIVE" \in Status
    BY <1>0, <2>1 DEF Status
  <2> QED BY <2>1, <2>2, OwnWrite
<1>5. CASE \/ TurnsUsed \/ TurnRefused \/ LlmFails
           \/ \E t \in 0 .. MaxUsage :
                \/ AnswerRefused(t) \/ AnswerMalformed(t)
                \/ \E met \in BOOLEAN : FinalAnswer(t, met)
           \/ \E c \in Call : ReadUnbound(c)
  <2>1. stack # <<>>
    BY <1>5 DEF At, TurnsUsed, TurnRefused, LlmFails, AnswerRefused, AnswerMalformed, FinalAnswer,
       ReadUnbound
  <2>2. /\ \A t \in 0 .. MaxUsage : Answered(t).run = Top.run
        /\ [Top EXCEPT !.turn = @ + 1].run = Top.run
    BY <1>0, <2>1 DEF Answered, Frame
  <2>3. CASE TurnsUsed \/ LlmFails \/ \E c \in Call : ReadUnbound(c)
    <3>1. \E outcome \in {"ok", "failed", "raised"} :
            EndLoop(Top, outcome)
      BY <2>3 DEF TurnsUsed, LlmFails, ReadUnbound
    <3> QED BY <2>1, <3>1, EndLoopWrites
  <2>4. CASE TurnRefused
    <3> DEFINE f == [Top EXCEPT !.turn = @ + 1]
    <3>1. EndLoop(f, "failed") /\ f.run = Top.run
      BY <2>2, <2>4 DEF TurnRefused
    <3> HIDE DEF f
    <3> QED BY <2>1, <3>1, EndLoopWrites
  <2>5. ASSUME NEW t \in 0 .. MaxUsage, AnswerRefused(t) \/ AnswerMalformed(t)
        PROVE  SessionsInv'
    <3>1. \/ \E outcome \in {"ok", "failed", "raised"} : EndLoop(Answered(t), outcome)
          \/ EndLoop(Top, "raised")
      BY <2>5 DEF AnswerRefused, AnswerMalformed
    <3> QED BY <2>1, <2>2, <3>1, EndLoopWrites
  <2>6. ASSUME NEW t \in 0 .. MaxUsage, NEW met \in BOOLEAN, FinalAnswer(t, met)
        PROVE  SessionsInv'
    <3> DEFINE outcome == IF CriteriaMet(Top, met) THEN "ok" ELSE "failed"
    <3>1. EndLoop(Answered(t), outcome) /\ outcome \in {"ok", "failed", "raised"}
      BY <2>6 DEF FinalAnswer
    <3> HIDE DEF outcome
    <3> QED BY <2>1, <2>2, <3>1, EndLoopWrites
  <2> QED BY <1>5, <2>3, <2>4, <2>5, <2>6
<1>6. CASE Dispatch /\ ~(\E c \in Call : ReadUnbound(c))
  <2>1. UNCHANGED <<writes, sessions, lost, result>>
    BY <1>6 DEF Dispatch, RefuseCall, BlockCall, PreflightFails, RunTool, CallAgent, CallRefused,
       CallsAgent, Skip
  <2> QED BY <2>1, NoWrite
<1>7. CASE Write
  BY <1>7, WriteKeeps
<1> QED BY <1>1, <1>2, <1>3, <1>4, <1>5, <1>6, <1>7 DEF Next, Step, Dispatch

\* The invariant of the session rows and their write queue holds in every reachable state.
THEOREM SessionsSafety == Spec => []SessionsInv
<1>1. Init => SessionsInv
  BY DEF Init, SessionsInv
<1> QED BY <1>1, SessionsStep, LoopSafety, PTL DEF Spec

\* session_create, session_finish and the writer thread: once the queue is empty the
\* row of a run says how its loop ended, however the writes of other runs lie between.
THEOREM SessionRowsTell == Spec => []SessionTellsOutcome
<1>1. SessionsInv => SessionTellsOutcome
  <2> SUFFICES ASSUME SessionsInv, NEW r \in RunIds, writes = <<>>, r \notin lost,
                      sessions[r] # "NONE", result[r] \in {"ok", "failed", "raised"}
               PROVE  sessions[r] = Final(r)
    BY DEF SessionTellsOutcome, Final
  <2>1. OutcomeOnItsWay(r)
    BY DEF SessionsInv
  <2> QED BY <2>1 DEF OutcomeOnItsWay
<1> QED BY <1>1, SessionsSafety, PTL

\* Every variable keeps its type, and no frame gets past MAX_TURNS,
\* MAX_TOKENS_PER_JOB, MAX_FILES_WRITTEN or MAX_DELEGATION_DEPTH.
THEOREM LoopTyped == Spec => []TypeOK
<1>1. Init => SideTypes /\ DeploymentAuthorized
  BY LimitsAssumption DEF Init, SideTypes, DeploymentAuthorized
<1>2. LoopInv /\ SideTypes /\ SessionsInv => TypeOK
  BY DEF LoopInv, LoopTypes, SideTypes, SessionsInv, TypeOK
<1> QED BY <1>1, <1>2, GrantStep, LoopSafety, SessionsSafety, PTL DEF Spec
=============================================================================
