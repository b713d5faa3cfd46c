----------------------- MODULE MigrationRunnerProofs -----------------------
(***************************************************************************)
(* What the lock, the ledger's key and reconcile() guarantee for every     *)
(* number of runners and migrations.                                       *)
(***************************************************************************)
EXTENDS MigrationRunner, TLAPS

Working == {"read", "next", "apply"}
Indices == 1 .. Len(schema)

\* The part of the state that decides what is applied next.
Typed == TypeOK /\ \A r \in Runners : todo[r] \subseteq On(r)

\* The ledger records what was executed, and nothing was executed twice.
Recorded ==
    /\ Applied = {schema[i] : i \in Indices}
    /\ AppliedOnce

-----------------------------------------------------------------------------
LEMMA TypedInit == Init => Typed
    BY FilesAssumption, FaultsAssumption DEF Init, Typed, TypeOK

\* Steps that leave the ledger and the schema alone.
LEMMA TypedQuiet ==
    ASSUME Typed, NEW r \in Runners,
           \/ Begin(r) \/ TakeLock(r) \/ ReadLedger(r) \/ Refuse(r) \/ Finish(r)
           \/ AssertLockAlive(r) \/ ApplyConflicts(r) \/ Fail(r) \/ LoseLock(r)
    PROVE  Typed' /\ UNCHANGED <<ledger, schema>>
<1> USE FilesAssumption DEF Typed, TypeOK
<1>1. CASE Begin(r)
  BY <1>1 DEF Begin
<1>2. CASE TakeLock(r)
  BY <1>2 DEF TakeLock
<1>3. CASE ReadLedger(r)
  <2>1. Pending(r) \subseteq On(r) /\ On(r) \subseteq Files
    BY DiskAssumption DEF Pending
  <2> QED BY <1>3, <2>1 DEF ReadLedger
<1>4. CASE Refuse(r)
  BY <1>4 DEF Refuse, End, ReleaseLock
<1>5. CASE Finish(r)
  BY <1>5 DEF Finish, End, ReleaseLock
<1>6. CASE AssertLockAlive(r)
  BY <1>6 DEF AssertLockAlive, End, ReleaseLock
<1>7. CASE ApplyConflicts(r)
  BY <1>7 DEF ApplyConflicts, End, ReleaseLock
<1>8. CASE Fail(r)
  BY <1>8, FaultsAssumption DEF Fail, End, ReleaseLock
<1>9. CASE LoseLock(r)
  BY <1>9, FaultsAssumption DEF LoseLock
<1> QED BY <1>1, <1>2, <1>3, <1>4, <1>5, <1>6, <1>7, <1>8, <1>9

\* A migration that is applied: the least pending file, not recorded before.
Applies(r, f) ==
    /\ f \in todo[r] /\ f \in Files /\ Disk[r][f] \in Contents
    /\ \A g \in todo[r] : f <= g
    /\ f \notin Applied
    /\ schema' = Append(schema, f)
    /\ ledger' = [ledger EXCEPT ![f] = Disk[r][f]]
    /\ todo' = [todo EXCEPT ![r] = @ \ {f}]

LEMMA ApplyStep ==
    ASSUME Typed, NEW r \in Runners, ApplyOne(r)
    PROVE  \E f \in todo[r] : Applies(r, f)
<1>1. PICK f \in todo[r] :
        /\ NextFile(r, f) /\ InsertAllowed(r, f)
        /\ schema' = Append(schema, f)
        /\ ledger' = [ledger EXCEPT ![f] = Disk[r][f]]
        /\ todo' = [todo EXCEPT ![r] = @ \ {f}]
  BY DEF ApplyOne
<1>2. f \in On(r) /\ On(r) \subseteq Files /\ Disk[r] \in [On(r) -> Contents]
  BY DiskAssumption DEF Typed
<1>3. f \notin Applied /\ \A g \in todo[r] : f <= g
  BY <1>1 DEF InsertAllowed, NextFile, Applied
<1> QED BY <1>1, <1>2, <1>3 DEF Applies

LEMMA TypedApply ==
    ASSUME Typed, NEW r \in Runners, ApplyOne(r)
    PROVE  Typed'
<1>1. PICK f \in todo[r] : Applies(r, f)
  BY ApplyStep
<1>2. schema' \in Seq(Files) /\ ledger' \in [Files -> Contents \cup {NoRow}]
  BY <1>1 DEF Applies, Typed, TypeOK
<1>3. todo' \in [Runners -> SUBSET Files] /\ \A s \in Runners : todo'[s] \subseteq On(s)
  BY <1>1 DEF Applies, Typed, TypeOK
<1> QED BY <1>2, <1>3, FilesAssumption DEF ApplyOne, Typed, TypeOK

\* What an applied migration adds.
LEMMA ApplyAdds ==
    ASSUME Typed, Recorded, NEW r \in Runners, NEW f \in todo[r], Applies(r, f)
    PROVE  /\ Applied' = Applied \cup {f}
           /\ Len(schema') = Len(schema) + 1 /\ schema'[Len(schema) + 1] = f
           /\ \A i \in Indices : schema'[i] = schema[i] /\ schema[i] \in Applied
           /\ Recorded'
<1>1. /\ Len(schema) \in Nat /\ Len(schema') = Len(schema) + 1
      /\ schema'[Len(schema) + 1] = f
      /\ \A i \in Indices : schema'[i] = schema[i]
  BY DEF Applies, Typed, TypeOK, Indices
<1>2. Applied' = Applied \cup {f}
  BY FilesAssumption DEF Applies, Typed, TypeOK, Applied
<1>3. \A i \in Indices : schema[i] \in Applied
  BY DEF Recorded
<1>4. Indices' = Indices \cup {Len(schema) + 1}
  BY <1>1 DEF Indices
<1>5. Applied' = {schema'[i] : i \in Indices'}
  BY <1>1, <1>2, <1>4 DEF Recorded
<1>6. AppliedOnce'
  <2> SUFFICES ASSUME NEW i \in Indices', NEW j \in Indices', schema'[i] = schema'[j]
               PROVE  i = j
    BY DEF AppliedOnce, Indices
  <2>1. CASE i \in Indices /\ j \in Indices
    BY <1>1, <2>1 DEF Recorded, AppliedOnce, Indices
  <2>2. CASE i \in Indices /\ j = Len(schema) + 1
    BY <1>1, <1>3, <2>2 DEF Applies
  <2>3. CASE j \in Indices /\ i = Len(schema) + 1
    BY <1>1, <1>3, <2>3 DEF Applies
  <2> QED BY <1>4, <2>1, <2>2, <2>3
<1> QED BY <1>1, <1>2, <1>3, <1>5, <1>6 DEF Recorded

LEMMA RecordedInit == Init => Recorded
<1> SUFFICES ASSUME Init PROVE Recorded
  OBVIOUS
<1>1. Len(schema) = 0 /\ Indices = {}
  BY DEF Init, Indices
<1>2. Applied = {}
  BY DEF Init, Applied
<1> QED BY <1>1, <1>2 DEF Recorded, AppliedOnce, Indices

LEMMA RecordedStep == Typed /\ Recorded /\ [Next]_vars => Typed' /\ Recorded'
<1> SUFFICES ASSUME Typed, Recorded, [Next]_vars PROVE Typed' /\ Recorded'
  OBVIOUS
<1>1. ASSUME UNCHANGED <<ledger, schema>> PROVE Recorded'
  BY <1>1 DEF Recorded, AppliedOnce, Applied, Indices
<1>2. CASE UNCHANGED vars
  BY <1>1, <1>2 DEF vars, Typed, TypeOK
<1>3. ASSUME NEW r \in Runners, ApplyOne(r) PROVE Typed' /\ Recorded'
  BY <1>3, ApplyStep, ApplyAdds, TypedApply
<1>4. ASSUME NEW r \in Runners, Begin(r) \/ Move(r) \/ Fail(r) \/ LoseLock(r), ~ApplyOne(r)
      PROVE  Typed' /\ Recorded'
  BY <1>1, <1>4, TypedQuiet DEF Move
<1> QED BY <1>2, <1>3, <1>4 DEF Next, Move

\* Types: every variable keeps its type, and a runner that has ended has given
\* the advisory lock back (the finally clause of _with_advisory_lock).
THEOREM MigrateTypeCorrect == Spec => []TypeOK
<1>1. Typed /\ Recorded => TypeOK
  BY DEF Typed
<1> QED BY <1>1, TypedInit, RecordedInit, RecordedStep, PTL DEF Spec

\* The ledger's primary key alone: whatever the runners' checkouts and however
\* often the lock is lost, no migration is executed twice (_apply_one).
THEOREM MigrationsApplyOnce == Spec => []AppliedOnce
<1>1. Typed /\ Recorded => AppliedOnce
  BY DEF Recorded
<1> QED BY <1>1, TypedInit, RecordedInit, RecordedStep, PTL DEF Spec

-----------------------------------------------------------------------------
(* The order of migrations                                                 *)

Increasing == \A i, j \in Indices : i < j => schema[i] < schema[j]

\* With one checkout: what is applied is an initial part of it, and a runner's
\* pending files leave out only what is applied.  Holds without the lock.
Shared ==
    /\ \A g \in Applied : Started # {}
    /\ \A r \in Started : \A g \in Applied : g \in On(r)
    /\ \A r \in Runners : pc[r] \in {"next", "apply"} =>
          \A f \in On(r) : f \in todo[r] \/ f \in Applied
    /\ \A r \in Started : \A f \in On(r), g \in Applied : f < g => f \in Applied

\* While no lock was lost: the runner at work is alone, and everything applied
\* comes before its pending files.
Alone ==
    /\ \A r \in Runners : pc[r] \in Working => lock = r
    /\ \A r \in Runners : pc[r] \in {"next", "apply"} =>
          \A f \in todo[r], g \in Applied : g < f

\* Both conditions, once broken, stay broken.
LEMMA Regress ==
    ASSUME Typed, [Next]_vars
    PROVE  /\ lost' = 0 => lost = 0
           /\ Started \subseteq Started'
           /\ OneCheckout' => OneCheckout
<1>1. ASSUME NEW r \in Runners, Begin(r) \/ Move(r) \/ Fail(r) \/ LoseLock(r)
      PROVE  (lost' = 0 => lost = 0) /\ Started \subseteq Started'
  <2>1. lost' = 0 => lost = 0
    BY <1>1 DEF Begin, Move, TakeLock, ReadLedger, Refuse, Finish, AssertLockAlive, ApplyOne,
                ApplyConflicts, Fail, LoseLock, Typed, TypeOK
  <2>2. Started \subseteq Started'
    BY <1>1 DEF Started, Begin, Move, TakeLock, ReadLedger, Refuse, Finish, AssertLockAlive,
                ApplyOne, ApplyConflicts, Fail, LoseLock, End, Typed, TypeOK
  <2> QED BY <2>1, <2>2
<1>2. (lost' = 0 => lost = 0) /\ Started \subseteq Started'
  BY <1>1 DEF Next, vars, Started
<1>3. OneCheckout' => OneCheckout
  BY <1>2 DEF OneCheckout, On
<1> QED BY <1>2, <1>3

LEMMA SharedStep ==
    ASSUME OneCheckout', OneCheckout, Typed, Recorded, Shared, [Next]_vars
    PROVE  Shared'
<1>1. ASSUME NEW r \in Runners, NEW f \in todo[r], Applies(r, f), ApplyOne(r)
      PROVE  Shared'
  <2>1. Applied' = Applied \cup {f}
    BY <1>1, ApplyAdds
  <2>0. r \in Started /\ Started' = Started
    BY <1>1 DEF ApplyOne, Started, Typed, TypeOK
  <2>2. \A s \in Started : f \in On(s)
    BY <1>1, <2>0 DEF Typed, OneCheckout
  <2>3. \A s \in Started : \A h \in On(s) : h < f => h \in Applied
    <3> SUFFICES ASSUME NEW s \in Started, NEW h \in On(s), h < f PROVE h \in Applied
      OBVIOUS
    <3>1. h \in On(r) /\ h \in Nat /\ f \in Nat
      BY <1>1, <2>0, DiskAssumption, FilesAssumption DEF OneCheckout, Applies
    <3>2. h \notin todo[r]
      BY <1>1, <3>1 DEF Applies
    <3> QED BY <1>1, <3>1, <3>2 DEF Shared, ApplyOne
  <2>4. \A s \in Runners : pc'[s] \in {"next", "apply"} =>
            \A h \in On(s) : h \in todo'[s] \/ h \in Applied'
    <3> SUFFICES ASSUME NEW s \in Runners, pc'[s] \in {"next", "apply"}, NEW h \in On(s)
                 PROVE  h \in todo'[s] \/ h \in Applied'
      OBVIOUS
    <3>1. pc[s] \in {"next", "apply"}
      BY <1>1 DEF ApplyOne, Typed, TypeOK
    <3>2. h \in todo[s] \/ h \in Applied
      BY <3>1 DEF Shared
    <3> QED BY <1>1, <2>1, <3>2 DEF Applies, Typed, TypeOK
  <2>5. \A s \in Started' : \A g \in Applied' : g \in On(s)
    BY <2>0, <2>1, <2>2 DEF Shared
  <2>6. \A s \in Started' : \A h \in On(s), g \in Applied' : h < g => h \in Applied'
    BY <2>0, <2>1, <2>3 DEF Shared
  <2> QED BY <2>0, <2>4, <2>5, <2>6 DEF Shared
<1>2. ASSUME NEW r \in Runners, ApplyOne(r) PROVE Shared'
  BY <1>1, <1>2, ApplyStep
<1>3. ASSUME NEW r \in Runners, ReadLedger(r) PROVE Shared'
  <2>1. Applied' = Applied
    BY <1>3 DEF ReadLedger, Applied
  <2>2. \A f \in On(r) : f \in todo'[r] \/ f \in Applied'
    BY <1>3, <2>1 DEF ReadLedger, Pending, Typed, TypeOK
  <2>3. Started' = Started
    BY <1>3 DEF ReadLedger, Started, Typed, TypeOK
  <2>4. \A s \in Runners : pc'[s] \in {"next", "apply"} =>
            \A f \in On(s) : f \in todo'[s] \/ f \in Applied'
    BY <1>3, <2>1, <2>2 DEF ReadLedger, Shared, Typed, TypeOK
  <2> QED BY <2>1, <2>3, <2>4 DEF Shared
<1>4. ASSUME UNCHANGED <<ledger, todo>>, Started \subseteq Started',
             \A s \in Runners : pc'[s] \in {"next", "apply"} => pc[s] \in {"next", "apply"}
      PROVE  Shared'
  <2>1. Applied' = Applied
    BY <1>4 DEF Applied
  <2>2. ASSUME NEW g \in Applied, NEW s \in Started'
        PROVE  \E q \in Started : On(q) = On(s)
    BY <1>4, <2>2 DEF Shared, OneCheckout, On
  <2>3. \A s \in Started' : \A g \in Applied : g \in On(s)
    BY <2>2 DEF Shared
  <2>4. \A s \in Started' : \A f \in On(s), g \in Applied : f < g => f \in Applied
    BY <2>2 DEF Shared
  <2>5. \A g \in Applied : Started' # {}
    BY <1>4 DEF Shared
  <2>6. \A s \in Runners : pc'[s] \in {"next", "apply"} =>
            \A f \in On(s) : f \in todo'[s] \/ f \in Applied'
    BY <1>4, <2>1 DEF Shared
  <2> QED BY <2>1, <2>3, <2>4, <2>5, <2>6 DEF Shared
<1>5. ASSUME NEW r \in Runners,
             \/ Begin(r) \/ TakeLock(r) \/ Refuse(r) \/ Finish(r) \/ AssertLockAlive(r)
             \/ ApplyConflicts(r) \/ Fail(r) \/ LoseLock(r)
      PROVE  Shared'
  <2>1. UNCHANGED <<ledger, todo>>
    BY <1>5 DEF Begin, TakeLock, Refuse, Finish, AssertLockAlive, ApplyConflicts, Fail, LoseLock
  <2>2. \A s \in Runners : pc'[s] \in {"next", "apply"} => pc[s] \in {"next", "apply"}
    BY <1>5 DEF Begin, TakeLock, Refuse, Finish, AssertLockAlive, ApplyConflicts, Fail,
                LoseLock, End, Typed, TypeOK
  <2> QED BY <2>1, <2>2, <1>4, Regress
<1>6. CASE UNCHANGED vars
  BY <1>4, <1>6, Regress DEF vars
<1> QED BY <1>2, <1>3, <1>5, <1>6 DEF Next, Move

LEMMA AloneStep ==
    ASSUME lost' = 0, Typed, Recorded, Alone, [Next]_vars
    PROVE  Alone'
<1> USE FilesAssumption DEF Working
<1>1. ASSUME NEW r \in Runners, NEW f \in todo[r], Applies(r, f), ApplyOne(r)
      PROVE  Alone'
  <2>1. Applied' = Applied \cup {f}
    BY <1>1, ApplyAdds
  <2>2. \A s \in Runners : pc'[s] \in Working => lock' = s
    BY <1>1 DEF ApplyOne, Alone, Typed, TypeOK
  <2>3. \A g \in todo'[r] : f < g
    <3> SUFFICES ASSUME NEW g \in todo'[r] PROVE f < g
      OBVIOUS
    <3>1. g \in todo[r] /\ g # f
      BY <1>1 DEF Applies, Typed, TypeOK
    <3>2. g \in Nat /\ f \in Nat
      BY <3>1, <1>1 DEF Applies, Typed, TypeOK
    <3>3. f <= g
      BY <3>1, <1>1 DEF Applies
    <3> QED BY <3>1, <3>2, <3>3
  <2>4. \A h \in todo'[r], g \in Applied : g < h
    BY <1>1 DEF Applies, ApplyOne, Alone, Typed, TypeOK
  <2>5. \A s \in Runners : pc'[s] \in {"next", "apply"} => s = r
    BY <1>1, <2>2 DEF ApplyOne, Alone
  <2>6. \A h \in todo'[r], g \in Applied' : g < h
    BY <2>1, <2>3, <2>4
  <2> QED BY <2>2, <2>5, <2>6 DEF Alone
<1>2. ASSUME NEW r \in Runners, ApplyOne(r) PROVE Alone'
  BY <1>1, <1>2, ApplyStep
<1>3. ASSUME NEW r \in Runners, ReadLedger(r) PROVE Alone'
  <2>1. Applied' = Applied
    BY <1>3 DEF ReadLedger, Applied
  <2>2. \A f \in Pending(r), g \in Applied : g < f
    <3> SUFFICES ASSUME NEW f \in Pending(r), NEW g \in Applied PROVE g < f
      OBVIOUS
    <3>1. f \in Nat /\ g \in Nat /\ f # g
      BY DiskAssumption DEF Pending, Applied
    <3>2. ~(f < g)
      BY <1>3 DEF ReadLedger, Reconciled, Late
    <3> QED BY <3>1, <3>2
  <2> QED BY <1>3, <2>1, <2>2 DEF ReadLedger, Alone, Typed, TypeOK
<1>4. ASSUME UNCHANGED <<ledger, todo>>,
             \A s \in Runners : pc'[s] \in {"next", "apply"} => pc[s] \in {"next", "apply"},
             \A s \in Runners : pc'[s] \in Working => lock' = s
      PROVE  Alone'
  <2>1. Applied' = Applied
    BY <1>4 DEF Applied
  <2> QED BY <1>4, <2>1 DEF Alone
<1>5. ASSUME NEW r \in Runners,
             \/ Begin(r) \/ TakeLock(r) \/ Refuse(r) \/ Finish(r) \/ AssertLockAlive(r)
             \/ ApplyConflicts(r) \/ Fail(r)
      PROVE  Alone'
  <2>1. UNCHANGED <<ledger, todo>>
    BY <1>5 DEF Begin, TakeLock, Refuse, Finish, AssertLockAlive, ApplyConflicts, Fail
  <2>2. \A s \in Runners : pc'[s] \in {"next", "apply"} => pc[s] \in {"next", "apply"}
    BY <1>5 DEF Begin, TakeLock, Refuse, Finish, AssertLockAlive, ApplyConflicts, Fail,
                End, Typed, TypeOK
  <2>3. \A s \in Runners : pc'[s] \in Working => lock' = s
    BY <1>5 DEF Begin, TakeLock, Refuse, Finish, AssertLockAlive, ApplyConflicts, Fail,
                End, ReleaseLock, Alone, Typed, TypeOK
  <2> QED BY <2>1, <2>2, <2>3, <1>4
<1>6. ASSUME NEW r \in Runners, LoseLock(r) PROVE FALSE
  BY <1>6 DEF LoseLock, Typed, TypeOK
<1>7. CASE UNCHANGED vars
  BY <1>4, <1>7 DEF vars, Alone
<1> QED BY <1>2, <1>3, <1>5, <1>6, <1>7 DEF Next, Move

\* Either way, a file that is applied comes after all applied ones.
LEMMA IncreasingStep ==
    ASSUME Typed, Recorded, Increasing, (OneCheckout /\ Shared) \/ Alone, [Next]_vars
    PROVE  Increasing'
<1>1. ASSUME NEW r \in Runners, NEW f \in todo[r], Applies(r, f), ApplyOne(r)
      PROVE  Increasing'
  <2>1. \A g \in Applied : g < f
    <3>1. CASE Alone
      BY <1>1, <3>1 DEF Alone, ApplyOne
    <3>2. CASE OneCheckout /\ Shared
      <4> SUFFICES ASSUME NEW g \in Applied PROVE g < f
        OBVIOUS
      <4>1. f \in On(r) /\ f \in Nat /\ g \in Nat /\ f \notin Applied
        BY <1>1, FilesAssumption DEF Typed, Applies, Applied
      <4>2. r \in Started
        BY <1>1 DEF ApplyOne, Started
      <4>3. ~(f < g)
        BY <3>2, <4>1, <4>2 DEF Shared
      <4> QED BY <4>1, <4>3
    <3> QED BY <3>1, <3>2
  <2>2. Len(schema) \in Nat /\ Indices' = Indices \cup {Len(schema) + 1}
    BY <1>1, ApplyAdds DEF Indices, Typed, TypeOK
  <2> SUFFICES ASSUME NEW i \in Indices', NEW j \in Indices', i < j
               PROVE  schema'[i] < schema'[j]
    BY DEF Increasing
  <2>3. i \in Indices
    BY <2>2 DEF Indices
  <2>4. CASE j \in Indices
    BY <1>1, <2>3, <2>4, ApplyAdds DEF Increasing
  <2>5. CASE j = Len(schema) + 1
    BY <1>1, <2>1, <2>3, <2>5, ApplyAdds
  <2> QED BY <2>2, <2>4, <2>5
<1>2. ASSUME NEW r \in Runners, ApplyOne(r) PROVE Increasing'
  BY <1>1, <1>2, ApplyStep
<1>3. ASSUME UNCHANGED schema PROVE Increasing'
  BY <1>3 DEF Increasing, Indices
<1>4. CASE UNCHANGED vars
  BY <1>3, <1>4 DEF vars
<1>5. ASSUME NEW r \in Runners, Begin(r) \/ Move(r) \/ Fail(r) \/ LoseLock(r), ~ApplyOne(r)
      PROVE  Increasing'
  BY <1>3, <1>5, TypedQuiet DEF Move
<1> QED BY <1>2, <1>4, <1>5 DEF Next, Move

OrderInv ==
    /\ Typed /\ Recorded
    /\ OneCheckout => Shared /\ Increasing
    /\ lost = 0 => Alone /\ Increasing

LEMMA OrderInit == Init => OrderInv
<1> SUFFICES ASSUME Init PROVE OrderInv
  OBVIOUS
<1>1. Typed /\ Recorded
  BY TypedInit, RecordedInit
<1>2. Applied = {} /\ Len(schema) = 0
  BY DEF Init, Applied
<1> QED BY <1>1, <1>2 DEF OrderInv, Increasing, Indices, Shared, Alone, Init, Working

LEMMA OrderStep == OrderInv /\ [Next]_vars => OrderInv'
<1> SUFFICES ASSUME OrderInv, [Next]_vars PROVE OrderInv'
  OBVIOUS
<1>1. Typed' /\ Recorded'
  BY RecordedStep DEF OrderInv
<1>2. ASSUME OneCheckout' PROVE Shared' /\ Increasing'
  BY <1>2, Regress, SharedStep, IncreasingStep DEF OrderInv
<1>3. ASSUME lost' = 0 PROVE Alone' /\ Increasing'
  BY <1>3, Regress, AloneStep, IncreasingStep DEF OrderInv
<1> QED BY <1>1, <1>2, <1>3 DEF OrderInv

\* migrate() records exactly what it executed, and executes in the order of the
\* names: as long as all who have started deploy the same files, however often
\* the lock is lost, and as long as no lock was lost, whatever they deploy.
THEOREM MigrationsInOrder == Spec => []InOrder
<1>1. OrderInv => InOrder
  BY DEF OrderInv, InOrder, Increasing, Recorded, Indices
<1> QED BY <1>1, OrderInit, OrderStep, PTL DEF Spec

-----------------------------------------------------------------------------
(* Who is turned away                                                      *)

\* What the ledger records was some starter's file.
Provenance == \A f \in Applied : \E s \in Started : f \in On(s) /\ ledger[f] = Disk[s][f]

\* All who have started deploy r's files, but for their line ends.
Alike(r) ==
    \A s \in Started : On(s) = On(r) /\ \A f \in On(r) : Disk[s][f][1] = Disk[r][f][1]

LEMMA ProvenanceStep ==
    ASSUME Typed, Recorded, Provenance, [Next]_vars
    PROVE  Provenance'
<1>1. Started \subseteq Started'
  BY Regress
<1>2. ASSUME NEW r \in Runners, NEW f \in todo[r], Applies(r, f), ApplyOne(r)
      PROVE  Provenance'
  <2>1. Applied' = Applied \cup {f}
    BY <1>2, ApplyAdds
  <2>2. f \in On(r) /\ r \in Started
    BY <1>2 DEF Typed, ApplyOne, Started
  <2>3. ledger'[f] = Disk[r][f] /\ \A g \in Applied : ledger'[g] = ledger[g]
    BY <1>2 DEF Applies, Typed, TypeOK, Applied
  <2> QED BY <1>1, <2>1, <2>2, <2>3 DEF Provenance, On
<1>3. ASSUME NEW r \in Runners, ApplyOne(r) PROVE Provenance'
  BY <1>2, <1>3, ApplyStep
<1>4. ASSUME UNCHANGED ledger PROVE Provenance'
  BY <1>1, <1>4 DEF Provenance, Applied, On
<1>5. ASSUME NEW r \in Runners, Begin(r) \/ Move(r) \/ Fail(r) \/ LoseLock(r), ~ApplyOne(r)
      PROVE  Provenance'
  BY <1>4, <1>5, TypedQuiet DEF Move
<1>6. CASE UNCHANGED vars
  BY <1>4, <1>6 DEF vars
<1> QED BY <1>3, <1>5, <1>6 DEF Next, Move

\* reconcile() finds nothing to raise where all deploy the same texts.
LEMMA AlikeReconciled ==
    ASSUME OrderInv, Provenance, NEW r \in Started, Alike(r)
    PROVE  Reconciled(r)
<1>1. r \in Runners /\ OneCheckout /\ Shared
  BY DEF Started, Alike, OneCheckout, OrderInv
<1>2. ASSUME NEW f \in Applied
      PROVE  f \in On(r) /\ ledger[f] \in Equivalents(Disk[r][f])
  <2>1. PICK s \in Started : f \in On(s) /\ ledger[f] = Disk[s][f]
    BY <1>2 DEF Provenance
  <2>2. s \in Runners /\ f \in On(r) /\ Disk[s][f][1] = Disk[r][f][1]
    BY <2>1 DEF Alike, Started
  <2>3. Disk[s][f] \in Texts \X {"lf", "crlf"}
    BY <2>1, <2>2, DiskAssumption DEF Contents
  <2>4. Disk[s][f] = <<Disk[s][f][1], "lf">> \/ Disk[s][f] = <<Disk[s][f][1], "crlf">>
    BY <2>3
  <2> QED BY <2>1, <2>2, <2>4 DEF Equivalents
<1>3. Drifted(r) = {} /\ Vanished(r) = {}
  BY <1>2 DEF Drifted, Vanished
<1>4. Late(r) = {}
  BY <1>1 DEF Late, Pending, Shared
<1> QED BY <1>3, <1>4 DEF Reconciled

LEMMA LineEndsStep ==
    ASSUME OrderInv, Provenance, LineEndsTolerated, [Next]_vars
    PROVE  LineEndsTolerated'
<1> SUFFICES ASSUME NEW r \in Started', Alike(r)', pc'[r] = "refused"
             PROVE  FALSE
  BY DEF LineEndsTolerated, Alike
<1>1. Typed /\ r \in Runners /\ Started \subseteq Started'
  BY Regress DEF OrderInv, Started
<1>2. Alike(r)
  BY <1>1 DEF Alike, On
<1>3. pc[r] # "refused"
  BY <1>1, <1>2 DEF LineEndsTolerated, Alike, Started
<1>4. Refuse(r)
  <2>1. ASSUME NEW q \in Runners, Begin(q) \/ Move(q) \/ Fail(q) \/ LoseLock(q), ~Refuse(q)
        PROVE  pc'[r] # "refused"
    BY <1>1, <1>3, <2>1 DEF Begin, Move, TakeLock, ReadLedger, Finish, AssertLockAlive,
       ApplyOne, ApplyConflicts, Fail, LoseLock, End, Typed, TypeOK
  <2>2. ASSUME NEW q \in Runners, Refuse(q) PROVE q = r
    BY <1>1, <1>3, <2>2 DEF Refuse, End, Typed, TypeOK
  <2>3. ~UNCHANGED vars
    BY <1>3 DEF vars
  <2> QED BY <2>1, <2>2, <2>3 DEF Next, Move
<1>5. r \in Started
  BY <1>1, <1>4 DEF Refuse, Started
<1> QED BY <1>2, <1>4, <1>5, AlikeReconciled DEF Refuse

\* reconcile(): whatever was applied, refused or killed before, and however often the
\* lock was lost, a runner whose files differ from all others' only in their line
\* ends is never turned away.
THEOREM LineEndsNeverRefused == Spec => []LineEndsTolerated
<1>1. Init => Provenance /\ LineEndsTolerated
  BY DEF Init, Provenance, Applied, LineEndsTolerated, Started
<1> QED BY <1>1, OrderInit, OrderStep, ProvenanceStep, LineEndsStep, PTL DEF Spec, OrderInv
=============================================================================
