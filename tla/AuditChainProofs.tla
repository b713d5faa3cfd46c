-------------------------- MODULE AuditChainProofs --------------------------
(***************************************************************************)
(* Proofs about AuditChain and AuditAnchors: their types, that the chain   *)
(* never forks, that verify_chain misses no loss and no edit and accuses   *)
(* no intact session, that log() implements AuditLedger, that the Merkle   *)
(* root binds the leaves, and what verify_anchor's answer means.           *)
(***************************************************************************)
EXTENDS AuditAnchors, FiniteSetTheorems, SequenceTheorems, WellFoundedInduction, TLAPS

SessionFold == INSTANCE FoldFacts WITH Op <- AddSession, Base <- <<>>

-----------------------------------------------------------------------------
(* The inductive invariant                                                 *)

\* Two writers between TakeLock and the end of their transaction work on
\* different sessions, and never on one SQLite file.
LockInv ==
    \A w, x \in Writers :
        w # x /\ Holding(w) /\ Holding(x) => ~OneLock /\ mine[w].session # mine[x].session

\* The id a writer is about to commit is nobody else's.
IdInv ==
    \A w \in Writers : pc[w] = "commit" =>
        /\ mine[w].id < nextId
        /\ \A e \in rows \cup ever : e.id # mine[w].id
        /\ \A x \in Writers : x # w /\ pc[x] = "commit" => mine[x].id # mine[w].id
        /\ OneLock => mine[w].id = nextId - 1

\* A hash that is not empty names the id of a row before n.
Before(h, n) == h = EmptyHash \/ (h[1] \in Nat /\ h[1] < n)

\* A row's hash names its own id, and its prev an earlier one.
LinkInv == \A r \in rows : r.hash # EmptyHash /\ r.hash[1] = r.id /\ Before(r.prev, r.id)

\* No row of the session links where a writer that holds the lock will link.
PendInv ==
    \A w \in Writers : pc[w] \in {"insert", "commit"} =>
        /\ \A q \in rows : q.session = mine[w].session => q.prev # mine[w].prev
        /\ Before(mine[w].prev, nextId)
        /\ pc[w] = "commit" => Before(mine[w].prev, mine[w].id)

\* What a row in the table and the row log() committed still share.
Same(r, e) == e.id = r.id /\ e.session = r.session /\ e.hash = r.hash

OriginInv ==
    /\ \A e \in ever : e.hash = RowHash(e)
    /\ \A r \in rows : \E e \in ever : Same(r, e)

\* The head counts the rows ever committed, so it only grows.
CountInv ==
    /\ IsFiniteSet(ever)
    /\ \A s \in Sessions \ Legacy : head[s].count = Cardinality(Of(ever, s))

\* A verification between its two reads.
SnapInv ==
    \A v \in Verifiers : vpc[v] = "head" =>
        /\ vsession[v] \in Sessions
        /\ due[v] \subseteq Of(ever, vsession[v])
        /\ \A r \in snap[v] : RowShape(r) /\ \E e \in due[v] : Same(r, e)

VarsAreFunctions ==
    /\ snap = [v \in Verifiers |-> snap[v]]
    /\ due = [v \in Verifiers |-> due[v]]

Typed == TypeOK /\ VarsAreFunctions

\* The sequence never gives id 0 and no rollback takes an id of the table back.
Positive == nextId > 0

IInv ==
    /\ Typed /\ Positive /\ LockInv /\ IdInv /\ LinkInv /\ PendInv /\ NoFork
    /\ OriginInv /\ CountInv /\ SnapInv /\ DamageDetected
-----------------------------------------------------------------------------
(* The initial states                                                      *)

\* The empty string and the rows of before migration 005 satisfy the invariant.
LEMMA InitEstablishes == Init => IInv
<1> SUFFICES ASSUME Init PROVE IInv
  OBVIOUS
<1> USE ChainAssumption DEF Init
<1>1. \A r \in OldRows : /\ RowShape(r) /\ r.session \in Legacy /\ r.id = 1
                         /\ r.hash = RowHash(r) /\ r.prev = EmptyHash
  <2> SUFFICES ASSUME NEW s \in Legacy, NEW r, r = Hashed(1, s, "tool_call", 0, EmptyHash)
               PROVE  /\ RowShape(r) /\ r.session \in Legacy /\ r.id = 1
                      /\ r.hash = RowHash(r) /\ r.prev = EmptyHash
    BY DEF OldRows
  <2> QED
    BY DEF Hashed, RowShape, RowHash, Kinds
<1>2. Typed
  BY <1>1 DEF Typed, TypeOK, VarsAreFunctions, RowShape, NoHead, Blank, Draft, Kinds
<1>3. LockInv /\ IdInv /\ PendInv /\ SnapInv /\ DamageDetected
  BY DEF LockInv, IdInv, PendInv, SnapInv, DamageDetected, Holding
<1>4. LinkInv
  BY <1>1 DEF LinkInv, Before, RowHash, EmptyHash
<1>5. NoFork
  <2> SUFFICES ASSUME NEW r \in OldRows, NEW q \in OldRows, r.session = q.session
               PROVE  r = q
    BY DEF NoFork
  <2>1. PICK s \in Legacy : r = Hashed(1, s, "tool_call", 0, EmptyHash)
    BY DEF OldRows
  <2>2. PICK t \in Legacy : q = Hashed(1, t, "tool_call", 0, EmptyHash)
    BY DEF OldRows
  <2>3. s = t
    BY <2>1, <2>2 DEF Hashed
  <2> QED
    BY <2>1, <2>2, <2>3
<1>6. OriginInv
  BY <1>1 DEF OriginInv, Same
<1>7. CountInv
  <2>1. IsFiniteSet(OldRows)
    <3> DEFINE f == [s \in Legacy |-> Hashed(1, s, "tool_call", 0, EmptyHash)]
    <3>1. f \in Surjection(Legacy, OldRows)
      BY Zenon DEF OldRows, Surjection
    <3> QED
      BY <3>1, FS_Surjection
  <2>2. ASSUME NEW s \in Sessions \ Legacy PROVE head[s].count = Cardinality(Of(ever, s))
    <3>1. Of(ever, s) = {}
      BY <1>1 DEF Of
    <3> QED
      BY <3>1, FS_EmptySet DEF NoHead
  <2> QED
    BY <2>1, <2>2 DEF CountInv
<1> QED
  BY <1>2, <1>3, <1>4, <1>5, <1>6, <1>7 DEF IInv, Positive

-----------------------------------------------------------------------------
(* Facts about the operators                                               *)

\* Among rows whose ids are bounded there is a last one.
LEMMA LastExists ==
    ASSUME NEW R, NEW n \in Nat, R # {}, \A r \in R : r.id \in Nat /\ r.id < n
    PROVE  \E r \in R : IsLast(R, r)
<1> DEFINE T == {n - r.id : r \in R}
<1>1. T \subseteq Nat /\ T # {}
  OBVIOUS
<1> DEFINE L == {ss \in Nat \X Nat : ss[1] < ss[2]}
<1>a. IsWellFoundedOn(L, Nat)
  BY NatLessThanWellFounded, Zenon DEF OpToRel
<1>2. PICK x \in T : \A y \in T : ~(<<y, x>> \in L)
  <2> HIDE DEF L, T
  <2> QED
    BY <1>a, <1>1, WFMin
<1>3. \A y \in T : x <= y
  <2> SUFFICES ASSUME NEW y \in T, ~(x <= y) PROVE FALSE
    OBVIOUS
  <2>1. x \in Nat /\ y \in Nat
    <3> HIDE DEF T
    <3> QED
      BY <1>1
  <2>2. <<y, x>> \in L
    <3> HIDE DEF T
    <3> QED
      BY <2>1
  <2> QED
    BY <2>2, <1>2
<1>4. PICK r \in R : x = n - r.id
  OBVIOUS
<1>5. ASSUME NEW q \in R PROVE q.id <= r.id
  <2>1. n - q.id \in T
    OBVIOUS
  <2>2. n - r.id <= n - q.id
    <3> HIDE DEF T
    <3> QED
      BY <2>1, <1>3, <1>4
  <2>3. q.id \in Nat /\ r.id \in Nat
    OBVIOUS
  <2> HIDE DEF T
  <2> QED
    BY <2>2, <2>3
<1> QED
  BY <1>5 DEF IsLast

\* TailHash is the empty hash of an empty session or the hash of a row of the
\* session that none of its rows comes after.
LEMMA TailIsLast ==
    ASSUME NEW s, Typed
    PROVE  \/ Of(rows, s) = {} /\ TailHash(s) = EmptyHash
           \/ \E t \in Of(rows, s) :
                TailHash(s) = t.hash /\ \A q \in Of(rows, s) : q.id <= t.id
<1> SUFFICES ASSUME Of(rows, s) # {}
             PROVE  \E t \in Of(rows, s) :
                        TailHash(s) = t.hash /\ \A q \in Of(rows, s) : q.id <= t.id
  BY DEF TailHash
<1> DEFINE t == CHOOSE x \in Of(rows, s) : IsLast(Of(rows, s), x)
<1>1. \A r \in Of(rows, s) : r.id \in Nat /\ r.id < nextId
  BY DEF Typed, TypeOK, RowShape, Of
<1>2. \E r \in Of(rows, s) : IsLast(Of(rows, s), r)
  BY <1>1, LastExists DEF Typed, TypeOK
<1>3. t \in Of(rows, s) /\ IsLast(Of(rows, s), t)
  BY <1>2
<1>4. TailHash(s) = t.hash
  BY DEF TailHash
<1> QED
  BY <1>3, <1>4 DEF IsLast

\* Equal row hashes mean equal rows, for rows that hash to what they store.
LEMMA HashBindsRow ==
    ASSUME NEW r, NEW e, RowShape(r), RowShape(e), Same(r, e),
           r.hash = RowHash(r), e.hash = RowHash(e)
    PROVE  r = e
<1>1. /\ r.id = e.id /\ r.session = e.session /\ r.kind = e.kind /\ r.day = e.day
      /\ r.prev = e.prev /\ r.hash = e.hash
  BY DEF Same, RowHash
<1> QED
  BY <1>1 DEF RowShape

\* A snapshot whose rows hash, and which has as many rows as log() committed,
\* is all of what log() committed.
LEMMA CompleteSnapshot ==
    ASSUME NEW S, NEW D, NEW E, IsFiniteSet(E), D \subseteq E,
           \A e \in D : RowShape(e) /\ e.hash = RowHash(e),
           \A r \in S : RowShape(r) /\ (\E e \in D : Same(r, e)),
           RowsHash(S), Cardinality(S) = Cardinality(E)
    PROVE  S = D
<1>1. S \subseteq D
  BY HashBindsRow DEF RowsHash
<1>2. S \subseteq E
  BY <1>1
<1>3. S = E
  BY <1>2, FS_Subset
<1> QED
  BY <1>1, <1>3

-----------------------------------------------------------------------------
(* Steps of the writers                                                    *)

LEMMA LogPreserves ==
    ASSUME IInv, NEW w \in Writers, NEW s \in Sessions, NEW k \in Kinds, Log(w, s, k)
    PROVE  IInv'
<1> USE ChainAssumption DEF Log, tableVars, verifyVars
<1> DEFINE m == Draft(s, k, today)
<1>1. /\ mine'[w] = m /\ pc'[w] = "lock" /\ pc[w] = "idle"
      /\ \A x \in Writers \ {w} : mine'[x] = mine[x] /\ pc'[x] = pc[x]
      /\ pc' \in [Writers -> {"idle", "lock", "read", "insert", "commit"}]
      /\ mine' = [x \in Writers |-> mine'[x]]
  BY DEF IInv, Typed, TypeOK
<1>2. Typed'
  <2>1. RowShape(m) /\ m.session \in Sessions /\ m.id = 0
    BY DEF IInv, Typed, TypeOK, RowShape, Draft
  <2>2. \A x \in Writers :
            /\ RowShape(mine'[x])
            /\ pc'[x] = "idle" <=> mine'[x].session = NoSession
            /\ pc'[x] = "commit" <=> mine'[x].id # 0
    BY <1>1, <2>1 DEF IInv, Typed, TypeOK, RowShape
  <2> QED
    BY <1>1, <2>2 DEF IInv, Typed, TypeOK, VarsAreFunctions, RowShape
<1>3. LockInv' /\ IdInv' /\ PendInv'
  BY <1>1 DEF IInv, LockInv, IdInv, PendInv, Holding
<1>4. LinkInv' /\ NoFork' /\ OriginInv' /\ CountInv' /\ SnapInv' /\ DamageDetected'
  BY DEF IInv, LinkInv, NoFork, OriginInv, CountInv, SnapInv, DamageDetected, Of
<1> QED
  BY <1>2, <1>3, <1>4 DEF IInv, Positive

LEMMA TakeLockPreserves ==
    ASSUME IInv, NEW w \in Writers, TakeLock(w)
    PROVE  IInv'
<1> USE DEF TakeLock, tableVars, verifyVars
<1>1. /\ mine' = mine /\ pc[w] = "lock" /\ pc'[w] = "read"
      /\ \A x \in Writers \ {w} : pc'[x] = pc[x]
      /\ pc' \in [Writers -> {"idle", "lock", "read", "insert", "commit"}]
  BY DEF IInv, Typed, TypeOK
<1>2. Typed'
  BY <1>1 DEF IInv, Typed, TypeOK, VarsAreFunctions, RowShape
<1>3. LockInv'
  <2> SUFFICES ASSUME NEW x \in Writers, NEW y \in Writers, x # y, Holding(x)', Holding(y)'
               PROVE  ~OneLock /\ mine[x].session # mine[y].session
    BY <1>1 DEF LockInv
  <2>1. CASE x = w
    BY <1>1, <2>1 DEF LockFree, Holding
  <2>2. CASE y = w
    BY <1>1, <2>2 DEF LockFree, Holding
  <2>3. CASE x # w /\ y # w
    BY <1>1, <2>3 DEF IInv, LockInv, Holding
  <2> QED
    BY <2>1, <2>2, <2>3
<1>4. IdInv' /\ PendInv'
  BY <1>1 DEF IInv, IdInv, PendInv
<1>5. LinkInv' /\ NoFork' /\ OriginInv' /\ CountInv' /\ SnapInv' /\ DamageDetected'
  BY DEF IInv, LinkInv, NoFork, OriginInv, CountInv, SnapInv, DamageDetected, Of
<1> QED
  BY <1>2, <1>3, <1>4, <1>5 DEF IInv, Positive

LEMMA ReadPrevPreserves ==
    ASSUME IInv, NEW w \in Writers, ReadPrev(w)
    PROVE  IInv'
<1> USE DEF ReadPrev, tableVars, verifyVars
<1> DEFINE s == mine[w].session
           p == TailHash(s)
<1>1. /\ pc[w] = "read" /\ pc'[w] = "insert"
      /\ mine'[w] = [mine[w] EXCEPT !.prev = p]
      /\ \A x \in Writers \ {w} : mine'[x] = mine[x] /\ pc'[x] = pc[x]
      /\ pc' \in [Writers -> {"idle", "lock", "read", "insert", "commit"}]
      /\ mine' = [x \in Writers |-> mine'[x]]
  BY DEF IInv, Typed, TypeOK
<1>2. /\ mine'[w].session = s /\ mine'[w].id = mine[w].id /\ mine'[w].prev = p
      /\ RowShape(mine'[w])
  BY <1>1 DEF IInv, Typed, TypeOK, RowShape
<1>3. Typed'
  <2>1. \A x \in Writers :
            /\ RowShape(mine'[x])
            /\ pc'[x] = "idle" <=> mine'[x].session = NoSession
            /\ pc'[x] = "commit" <=> mine'[x].id # 0
    BY <1>1, <1>2 DEF IInv, Typed, TypeOK, RowShape
  <2> QED
    BY <1>1, <2>1 DEF IInv, Typed, TypeOK, VarsAreFunctions, RowShape
<1>4. LockInv'
  BY <1>1, <1>2 DEF IInv, LockInv, Holding
<1>5. IdInv'
  BY <1>1, <1>2 DEF IInv, IdInv
<1>6. PendInv'
  <2>1. /\ \A q \in rows : q.session = s => q.prev # p
        /\ Before(p, nextId)
    <3>1. CASE Of(rows, s) = {} /\ p = EmptyHash
      BY <3>1 DEF Of, Before
    <3>2. CASE \E t \in Of(rows, s) : p = t.hash /\ \A q \in Of(rows, s) : q.id <= t.id
      <4>1. PICK t \in Of(rows, s) : p = t.hash /\ \A q \in Of(rows, s) : q.id <= t.id
        BY <3>2
      <4>2. t \in rows /\ p # EmptyHash /\ p[1] = t.id /\ t.id \in Nat /\ t.id < nextId
        BY <4>1 DEF IInv, LinkInv, Of, Typed, TypeOK, RowShape
      <4>3. ASSUME NEW q \in rows, q.session = s PROVE q.prev # p
        <5>1. q \in Of(rows, s) /\ q.id \in Nat
          BY <4>3 DEF Of, IInv, Typed, TypeOK, RowShape
        <5>2. q.id <= t.id
          BY <4>1, <5>1
        <5>3. Before(q.prev, q.id)
          BY DEF IInv, LinkInv
        <5> HIDE DEF p
        <5> QED
          BY <4>2, <5>1, <5>2, <5>3 DEF Before
      <4> QED
        BY <4>2, <4>3 DEF Before
    <3> QED
      BY <3>1, <3>2, TailIsLast DEF IInv
  <2> HIDE DEF p
  <2> QED
    BY <1>1, <1>2, <2>1 DEF IInv, PendInv
<1>7. LinkInv' /\ NoFork' /\ OriginInv' /\ CountInv' /\ SnapInv' /\ DamageDetected'
  BY DEF IInv, LinkInv, NoFork, OriginInv, CountInv, SnapInv, DamageDetected, Of
<1> QED
  BY <1>3, <1>4, <1>5, <1>6, <1>7 DEF IInv, Positive

LEMMA InsertRowPreserves ==
    ASSUME IInv, NEW w \in Writers, InsertRow(w)
    PROVE  IInv'
<1> USE DEF InsertRow, tableVars, verifyVars
<1>1. /\ pc[w] = "insert" /\ pc'[w] = "commit"
      /\ mine'[w] = [mine[w] EXCEPT !.id = nextId]
      /\ \A x \in Writers \ {w} : mine'[x] = mine[x] /\ pc'[x] = pc[x]
      /\ pc' \in [Writers -> {"idle", "lock", "read", "insert", "commit"}]
      /\ mine' = [x \in Writers |-> mine'[x]]
      /\ nextId' = nextId + 1 /\ nextId \in Nat
  BY DEF IInv, Typed, TypeOK
<1>2. /\ mine'[w].session = mine[w].session /\ mine'[w].id = nextId
      /\ mine'[w].prev = mine[w].prev /\ RowShape(mine'[w])
  BY <1>1 DEF IInv, Typed, TypeOK, RowShape
<1>3. Typed'
  <2>0. nextId # 0
    BY <1>1 DEF IInv, Positive
  <2>1. \A x \in Writers :
            /\ RowShape(mine'[x])
            /\ pc'[x] = "idle" <=> mine'[x].session = NoSession
            /\ pc'[x] = "commit" <=> mine'[x].id # 0
    BY <1>1, <1>2, <2>0 DEF IInv, Typed, TypeOK, RowShape
  <2>2. \A r \in rows \cup ever : RowShape(r) /\ r.session \in Sessions /\ r.id < nextId'
    BY <1>1 DEF IInv, Typed, TypeOK, RowShape
  <2> QED
    BY <1>1, <2>1, <2>2 DEF IInv, Typed, TypeOK, VarsAreFunctions, RowShape
<1>4. LockInv'
  BY <1>1, <1>2 DEF IInv, LockInv, Holding
<1>5. IdInv' /\ Positive'
  <2>1. \A e \in rows \cup ever : e.id \in Nat /\ e.id < nextId
    BY DEF IInv, Typed, TypeOK, RowShape
  <2>2. \A x \in Writers \ {w} : pc[x] = "commit" => mine[x].id \in Nat /\ mine[x].id < nextId
    BY DEF IInv, Typed, TypeOK, RowShape, IdInv
  <2>3. OneLock => \A x \in Writers \ {w} : pc[x] # "commit"
    BY <1>1 DEF IInv, LockInv, Holding
  <2> QED
    BY <1>1, <1>2, <2>1, <2>2, <2>3 DEF IInv, IdInv, Positive
<1>6. PendInv'
  <2>1. ASSUME NEW h, Before(h, nextId) PROVE Before(h, nextId + 1)
    BY <1>1, <2>1 DEF Before
  <2> QED
    BY <1>1, <1>2, <2>1 DEF IInv, PendInv
<1>7. LinkInv' /\ NoFork' /\ OriginInv' /\ CountInv' /\ SnapInv' /\ DamageDetected'
  BY DEF IInv, LinkInv, NoFork, OriginInv, CountInv, SnapInv, DamageDetected, Of
<1> QED
  BY <1>3, <1>4, <1>5, <1>6, <1>7 DEF IInv

LEMMA CommitPreserves ==
    ASSUME IInv, NEW w \in Writers, Commit(w)
    PROVE  IInv'
<1> USE ChainAssumption
<1> DEFINE m == mine[w]
           r == Hashed(m.id, m.session, m.kind, m.day, m.prev)
<1>1. /\ pc[w] = "commit" /\ rows' = rows \cup {r} /\ ever' = ever \cup {r}
      /\ head' = [head EXCEPT ![m.session] = UpsertHead(r)]
      /\ quiet' = [v \in Verifiers |-> quiet[v] /\ vsession[v] # m.session]
      /\ UNCHANGED <<nextId, verifyVars, today, failures, damage>>
  BY DEF Commit
<1>2. /\ pc'[w] = "idle" /\ mine'[w] = Blank
      /\ \A x \in Writers \ {w} : mine'[x] = mine[x] /\ pc'[x] = pc[x]
      /\ pc' \in [Writers -> {"idle", "lock", "read", "insert", "commit"}]
      /\ mine' = [x \in Writers |-> mine'[x]]
  BY DEF Commit, IInv, Typed, TypeOK
<1>3. /\ m.session \in Sessions /\ m.id \in Nat /\ m.id < nextId
      /\ m.kind \in Kinds /\ m.day \in Nat
  BY <1>1 DEF IInv, Typed, TypeOK, RowShape, IdInv
<1>4. /\ RowShape(r) /\ r.id = m.id /\ r.session = m.session /\ r.prev = m.prev
      /\ r.hash = RowHash(r) /\ r.hash # EmptyHash /\ r.hash[1] = r.id
  BY <1>3 DEF Hashed, RowShape, RowHash, EmptyHash
<1> HIDE DEF r
<1>5. Typed'
  <2>1. \A x \in Writers :
            /\ RowShape(mine'[x])
            /\ pc'[x] = "idle" <=> mine'[x].session = NoSession
            /\ pc'[x] = "commit" <=> mine'[x].id # 0
    <3>1. RowShape(Blank) /\ Blank.session = NoSession /\ Blank.id = 0
      BY DEF RowShape, Blank, Draft, Kinds
    <3> QED
      BY <1>2, <3>1 DEF IInv, Typed, TypeOK, RowShape
  <2>2. \A q \in rows' \cup ever' : RowShape(q) /\ q.session \in Sessions /\ q.id < nextId
    BY <1>1, <1>3, <1>4 DEF IInv, Typed, TypeOK
  <2>3. /\ head' = [s \in Sessions |-> head'[s]]
        /\ \A s \in Sessions : head'[s] \in [id : Nat, hash : {head'[s].hash}, count : Nat]
    <3>1. UpsertHead(r) \in [id : Nat, hash : {UpsertHead(r).hash}, count : Nat]
      BY <1>3, <1>4 DEF UpsertHead, IInv, Typed, TypeOK
    <3> QED
      BY <1>1, <1>3, <3>1 DEF IInv, Typed, TypeOK
  <2>4. quiet' \in [Verifiers -> BOOLEAN]
    BY <1>1 DEF IInv, Typed, TypeOK
  <2>5. nextId' = nextId /\ today' = today /\ UNCHANGED verifyVars /\ failures' = failures
        /\ damage' = damage
    BY <1>1
  <2> QED
    BY <1>2, <2>1, <2>2, <2>3, <2>4, <2>5
    DEF IInv, Typed, TypeOK, VarsAreFunctions, RowShape, verifyVars
<1>6. LockInv' /\ Positive'
  BY <1>1, <1>2 DEF IInv, LockInv, Holding, Positive
<1>7. IdInv'
  <2> SUFFICES ASSUME NEW x \in Writers, pc'[x] = "commit"
               PROVE  /\ mine'[x].id < nextId'
                      /\ \A e \in rows' \cup ever' : e.id # mine'[x].id
                      /\ \A y \in Writers : y # x /\ pc'[y] = "commit" => mine'[y].id # mine'[x].id
                      /\ OneLock => mine'[x].id = nextId' - 1
    BY DEF IdInv
  <2>1. x # w /\ mine'[x] = mine[x] /\ pc[x] = "commit" /\ mine[x].id # m.id
    BY <1>1, <1>2 DEF IInv, IdInv
  <2> QED
    BY <1>1, <1>2, <1>4, <2>1 DEF IInv, IdInv
<1>8. LinkInv'
  <2>1. Before(r.prev, r.id)
    BY <1>1, <1>4 DEF IInv, PendInv
  <2> QED
    BY <1>1, <1>4, <2>1 DEF IInv, LinkInv
<1>9. PendInv'
  <2> SUFFICES ASSUME NEW x \in Writers, pc'[x] \in {"insert", "commit"}
               PROVE  /\ \A q \in rows' : q.session = mine'[x].session => q.prev # mine'[x].prev
                      /\ Before(mine'[x].prev, nextId')
                      /\ pc'[x] = "commit" => Before(mine'[x].prev, mine'[x].id)
    BY DEF PendInv
  <2>1. x # w /\ mine'[x] = mine[x] /\ pc'[x] = pc[x]
    BY <1>2
  <2>2. r.session # mine[x].session
    BY <1>1, <1>4, <2>1 DEF IInv, LockInv, Holding
  <2> QED
    BY <1>1, <2>1, <2>2 DEF IInv, PendInv
<1>10. NoFork'
  <2>1. \A q \in rows : q.session = r.session => q.prev # r.prev
    BY <1>1, <1>4 DEF IInv, PendInv
  <2> QED
    BY <1>1, <2>1 DEF IInv, NoFork
<1>11. OriginInv'
  BY <1>1, <1>4 DEF IInv, OriginInv, Same
<1>12. CountInv'
  <2>1. r \notin ever /\ IsFiniteSet(ever)
    BY <1>1, <1>4 DEF IInv, IdInv, CountInv
  <2>2. IsFiniteSet(ever')
    BY <1>1, <2>1, FS_AddElement
  <2>3. ASSUME NEW s \in Sessions \ Legacy
        PROVE  head'[s].count = Cardinality(Of(ever', s))
    <3>1. CASE s # m.session
      <4>1. Of(ever', s) = Of(ever, s) /\ head'[s] = head[s]
        BY <1>1, <1>4, <3>1 DEF Of, IInv, Typed, TypeOK
      <4> QED
        BY <4>1 DEF IInv, CountInv
    <3>2. CASE s = m.session
      <4>1. Of(ever', s) = Of(ever, s) \cup {r} /\ r \notin Of(ever, s)
        BY <1>1, <1>4, <2>1, <3>2 DEF Of
      <4>2. IsFiniteSet(Of(ever, s))
        BY <2>1, FS_Subset DEF Of
      <4>3. Cardinality(Of(ever', s)) = Cardinality(Of(ever, s)) + 1
        BY <4>1, <4>2, FS_AddElement
      <4>4. head'[s] = UpsertHead(r)
        BY <1>1, <3>2 DEF IInv, Typed, TypeOK
      <4>5. head'[s].count = head[s].count + 1
        BY <1>4, <3>2, <4>4 DEF UpsertHead
      <4> QED
        BY <4>3, <4>5 DEF IInv, CountInv
    <3> QED
      BY <3>1, <3>2
  <2> QED
    BY <2>2, <2>3 DEF CountInv, Of
<1>13. SnapInv'
  <2>1. \A s : Of(ever, s) \subseteq Of(ever', s)
    BY <1>1 DEF Of
  <2>2. UNCHANGED <<vpc, vsession, snap, due>>
    BY <1>1 DEF verifyVars
  <2> QED
    BY <2>1, <2>2 DEF IInv, SnapInv, RowShape, Same, Of
<1>14. DamageDetected'
  BY <1>1 DEF IInv, DamageDetected, verifyVars
<1> QED
  BY <1>5, <1>6, <1>7, <1>8, <1>9, <1>10, <1>11, <1>12, <1>13, <1>14 DEF IInv

LEMMA FailPreserves ==
    ASSUME IInv, NEW w \in Writers, Fail(w)
    PROVE  IInv'
<1> USE ChainAssumption DEF Fail, tableVars, verifyVars
<1>1. /\ pc[w] # "idle" /\ pc'[w] = "idle" /\ mine'[w] = Blank
      /\ \A x \in Writers \ {w} : mine'[x] = mine[x] /\ pc'[x] = pc[x]
      /\ pc' \in [Writers -> {"idle", "lock", "read", "insert", "commit"}]
      /\ mine' = [x \in Writers |-> mine'[x]]
      /\ failures' \in 0 .. MaxFailures /\ nextId \in Nat
  BY DEF IInv, Typed, TypeOK
\* Only a writer that is alone gives an id back, and it is the last one drawn.
<1>2. \/ nextId' = nextId
      \/ /\ nextId' = nextId - 1 /\ OneLock /\ pc[w] = "commit" /\ mine[w].id = nextId - 1
         /\ mine[w].id # 0 /\ mine[w].id \in Nat
         /\ \A x \in Writers \ {w} : ~Holding(x)
  <2>1. CASE OneLock /\ pc[w] = "commit"
    BY <2>1 DEF IInv, IdInv, LockInv, Holding, Typed, TypeOK, RowShape
  <2> QED
    BY <2>1
<1>3. \A q \in rows \cup ever : RowShape(q) /\ q.session \in Sessions /\ q.id < nextId'
  <2>1. \A q \in rows \cup ever : /\ RowShape(q) /\ q.session \in Sessions
                                  /\ q.id \in Nat /\ q.id < nextId
    BY DEF IInv, Typed, TypeOK, RowShape
  <2>2. pc[w] = "commit" => \A q \in rows \cup ever : q.id # mine[w].id
    BY DEF IInv, IdInv
  <2> QED
    BY <1>1, <1>2, <2>1, <2>2
<1>4. Typed' /\ Positive'
  <2>1. \A x \in Writers :
            /\ RowShape(mine'[x])
            /\ pc'[x] = "idle" <=> mine'[x].session = NoSession
            /\ pc'[x] = "commit" <=> mine'[x].id # 0
    <3>1. RowShape(Blank) /\ Blank.session = NoSession /\ Blank.id = 0
      BY DEF RowShape, Blank, Draft, Kinds
    <3> QED
      BY <1>1, <3>1 DEF IInv, Typed, TypeOK, RowShape
  <2>2. nextId' \in Nat /\ nextId' > 0
    BY <1>1, <1>2 DEF IInv, Positive
  <2> QED
    BY <1>1, <1>3, <2>1, <2>2
    DEF IInv, Typed, TypeOK, VarsAreFunctions, RowShape, Positive
<1>5. LockInv'
  BY <1>1 DEF IInv, LockInv, Holding
<1>6. IdInv'
  BY <1>1, <1>2 DEF IInv, IdInv, Holding
<1>7. PendInv'
  BY <1>1, <1>2 DEF IInv, PendInv, Holding
<1>8. LinkInv' /\ NoFork' /\ OriginInv' /\ CountInv' /\ SnapInv' /\ DamageDetected'
  BY DEF IInv, LinkInv, NoFork, OriginInv, CountInv, SnapInv, DamageDetected, Of
<1> QED
  BY <1>4, <1>5, <1>6, <1>7, <1>8 DEF IInv

-----------------------------------------------------------------------------
(* Steps of the verifiers                                                  *)

LEMMA VerifyRowsPreserves ==
    ASSUME IInv, NEW v \in Verifiers, NEW s \in Sessions, VerifyRows(v, s)
    PROVE  IInv'
<1> USE DEF VerifyRows, tableVars, writerVars
<1>1. Typed' /\ Positive'
  BY DEF IInv, Typed, TypeOK, VarsAreFunctions, RowShape, Positive
<1>2. SnapInv'
  <2> SUFFICES ASSUME NEW u \in Verifiers, vpc'[u] = "head"
               PROVE  /\ vsession'[u] \in Sessions
                      /\ due'[u] \subseteq Of(ever, vsession'[u])
                      /\ \A r \in snap'[u] : RowShape(r) /\ \E e \in due'[u] : Same(r, e)
    BY DEF SnapInv, Of, RowShape, Same
  <2>1. CASE u = v
    <3>1. vsession'[u] = s /\ due'[u] = Of(ever, s) /\ snap'[u] = Of(rows, s)
      BY <2>1 DEF IInv, Typed, TypeOK, VarsAreFunctions
    <3>2. \A r \in Of(rows, s) : RowShape(r) /\ \E e \in Of(ever, s) : Same(r, e)
      BY DEF IInv, OriginInv, Same, Of, Typed, TypeOK
    <3> QED
      BY <3>1, <3>2
  <2>2. CASE u # v
    <3>1. /\ vpc'[u] = vpc[u] /\ vsession'[u] = vsession[u] /\ due'[u] = due[u]
          /\ snap'[u] = snap[u]
      BY <2>2 DEF IInv, Typed, TypeOK, VarsAreFunctions
    <3> QED
      BY <3>1 DEF IInv, SnapInv
  <2> QED
    BY <2>1, <2>2
<1>3. DamageDetected'
  <2> SUFFICES ASSUME NEW u \in Verifiers, verdict'[u] = "intact", vsession'[u] \notin Legacy
               PROVE  snap'[u] = due'[u]
    BY DEF DamageDetected
  <2>1. u # v
    BY DEF IInv, Typed, TypeOK
  <2>2. /\ verdict'[u] = verdict[u] /\ vsession'[u] = vsession[u] /\ due'[u] = due[u]
        /\ snap'[u] = snap[u]
    BY <2>1 DEF IInv, Typed, TypeOK, VarsAreFunctions
  <2> QED
    BY <2>2 DEF IInv, DamageDetected
<1>4. /\ LockInv' /\ IdInv' /\ PendInv' /\ LinkInv' /\ NoFork' /\ OriginInv' /\ CountInv'
  BY DEF IInv, LockInv, IdInv, PendInv, LinkInv, NoFork, OriginInv, CountInv, Of, Holding
<1> QED
  BY <1>1, <1>2, <1>3, <1>4 DEF IInv

\* The head is read after the rows and may count later appends too: a snapshot
\* that still agrees with it lacks nothing.
LEMMA VerifyHeadPreserves ==
    ASSUME IInv, NEW v \in Verifiers, VerifyHead(v)
    PROVE  IInv'
<1> USE ChainAssumption DEF VerifyHead, tableVars, writerVars
<1>1. Typed' /\ Positive'
  BY DEF IInv, Typed, TypeOK, VarsAreFunctions, RowShape, Positive
<1>2. SnapInv'
  <2>1. \A u \in Verifiers : vpc'[u] = "head" => vpc[u] = "head"
    BY DEF IInv, Typed, TypeOK
  <2> QED
    BY <2>1 DEF IInv, SnapInv, Of, RowShape, Same
<1>3. DamageDetected'
  <2> SUFFICES ASSUME NEW u \in Verifiers, verdict'[u] = "intact", vsession[u] \notin Legacy
               PROVE  snap[u] = due[u]
    BY DEF DamageDetected
  <2>1. CASE u # v
    <3>1. verdict'[u] = verdict[u]
      BY <2>1 DEF IInv, Typed, TypeOK
    <3> QED
      BY <3>1 DEF IInv, DamageDetected
  <2>2. CASE u = v
    <3> DEFINE s == vsession[v]
               E == Of(ever, s)
    <3>1. Complete(snap[v], head[s]) /\ RowsHash(snap[v])
      BY <2>2 DEF IInv, Typed, TypeOK
    <3>2. /\ s \in Sessions \ Legacy /\ due[v] \subseteq E
          /\ \A r \in snap[v] : RowShape(r) /\ \E e \in due[v] : Same(r, e)
      BY <2>2 DEF IInv, SnapInv
    <3>3. IsFiniteSet(E) /\ head[s].count = Cardinality(E) /\ Cardinality(E) \in Nat
      <4>1. IsFiniteSet(ever) /\ E \subseteq ever
        BY DEF IInv, CountInv, Of
      <4>2. IsFiniteSet(E)
        BY <4>1, FS_Subset
      <4> QED
        BY <4>2, <3>2, FS_CardinalityType DEF IInv, CountInv
    <3>4. \A e \in due[v] : RowShape(e) /\ e.hash = RowHash(e)
      BY <3>2 DEF IInv, OriginInv, Of, Typed, TypeOK
    <3>5. CASE Cardinality(E) = 0
      <4>1. E = {}
        BY <3>3, <3>5, FS_EmptySet
      <4> HIDE DEF E
      <4>2. due[v] = {}
        BY <3>2, <4>1
      <4>3. snap[v] = {}
        BY <3>2, <4>2
      <4> QED
        BY <2>2, <4>2, <4>3
    <3>6. CASE Cardinality(E) > 0
      <4>1. Cardinality(snap[v]) = Cardinality(E)
        BY <3>1, <3>3, <3>6 DEF Complete
      <4> HIDE DEF E
      <4> QED
        BY <2>2, <3>1, <3>2, <3>3, <3>4, <4>1, CompleteSnapshot
    <3> QED
      BY <3>3, <3>5, <3>6
  <2> QED
    BY <2>1, <2>2
<1>4. /\ LockInv' /\ IdInv' /\ PendInv' /\ LinkInv' /\ NoFork' /\ OriginInv' /\ CountInv'
  BY DEF IInv, LockInv, IdInv, PendInv, LinkInv, NoFork, OriginInv, CountInv, Of, Holding
<1> QED
  BY <1>1, <1>2, <1>3, <1>4 DEF IInv

-----------------------------------------------------------------------------
(* Damage and the clock                                                    *)

LEMMA LoseRowPreserves ==
    ASSUME IInv, NEW r \in rows, LoseRow(r)
    PROVE  IInv'
<1> USE ChainAssumption DEF LoseRow, writerVars, verifyVars
<1>1. Typed' /\ Positive'
  BY DEF IInv, Typed, TypeOK, VarsAreFunctions, RowShape, Positive
<1>2. LinkInv' /\ NoFork' /\ PendInv' /\ OriginInv' /\ IdInv'
  BY DEF IInv, LinkInv, NoFork, PendInv, OriginInv, IdInv
<1>3. LockInv' /\ CountInv' /\ SnapInv' /\ DamageDetected'
  BY DEF IInv, LockInv, CountInv, SnapInv, DamageDetected, Of, Holding
<1> QED
  BY <1>1, <1>2, <1>3 DEF IInv

\* An edit leaves id, session, links and hash of the row as they were.
LEMMA EditRowPreserves ==
    ASSUME IInv, NEW r \in rows, EditRow(r)
    PROVE  IInv'
<1> USE ChainAssumption DEF writerVars, verifyVars
<1>1. PICK k \in Kinds : rows' = (rows \ {r}) \cup {[r EXCEPT !.kind = k]}
  BY DEF EditRow
<1>2. /\ UNCHANGED <<head, writerVars, verifyVars, today, ever, quiet, failures>>
      /\ damage' = damage + 1 /\ damage < MaxDamage
  BY DEF EditRow
<1> DEFINE e == [r EXCEPT !.kind = k]
<1>3. /\ RowShape(e) /\ e.id = r.id /\ e.session = r.session /\ e.prev = r.prev
      /\ e.hash = r.hash
  BY DEF IInv, Typed, TypeOK, RowShape
<1> HIDE DEF e
<1>4. rows' = (rows \ {r}) \cup {e}
  BY <1>1 DEF e
<1>5. Typed' /\ Positive'
  <2>1. \A q \in rows' \cup ever' : RowShape(q) /\ q.session \in Sessions /\ q.id < nextId
    BY <1>2, <1>3, <1>4 DEF IInv, Typed, TypeOK
  <2> QED
    BY <1>2, <2>1 DEF IInv, Typed, TypeOK, VarsAreFunctions, RowShape, Positive
<1>6. LinkInv' /\ NoFork' /\ PendInv' /\ IdInv'
  BY <1>2, <1>3, <1>4 DEF IInv, LinkInv, NoFork, PendInv, IdInv
<1>7. OriginInv'
  BY <1>2, <1>3, <1>4 DEF IInv, OriginInv, Same
<1>8. LockInv' /\ CountInv' /\ SnapInv' /\ DamageDetected'
  BY <1>2 DEF IInv, LockInv, CountInv, SnapInv, DamageDetected, Of, Holding
<1> QED
  BY <1>5, <1>6, <1>7, <1>8 DEF IInv

LEMMA StutterPreserves ==
    ASSUME IInv, UNCHANGED vars
    PROVE  IInv'
BY DEF vars, tableVars, writerVars, verifyVars, IInv, Typed, TypeOK, VarsAreFunctions,
       RowShape, Positive, LinkInv, NoFork, PendInv, OriginInv, IdInv, LockInv, CountInv,
       SnapInv, DamageDetected, Of, Holding

-----------------------------------------------------------------------------
LEMMA ChainInductive == IInv /\ [Next]_vars => IInv'
<1> SUFFICES ASSUME IInv, [Next]_vars PROVE IInv'
  OBVIOUS
<1>1. ASSUME NEW w \in Writers, NEW s \in Sessions, NEW k \in Kinds, Log(w, s, k) PROVE IInv'
  BY <1>1, LogPreserves
<1>2. ASSUME NEW w \in Writers, AppendStep(w) PROVE IInv'
  BY <1>2, TakeLockPreserves, ReadPrevPreserves, InsertRowPreserves, CommitPreserves
  DEF AppendStep
<1>3. ASSUME NEW w \in Writers, Fail(w) PROVE IInv'
  BY <1>3, FailPreserves
<1>4. ASSUME NEW v \in Verifiers, NEW s \in Sessions, VerifyRows(v, s) PROVE IInv'
  BY <1>4, VerifyRowsPreserves
<1>5. ASSUME NEW v \in Verifiers, VerifyHead(v) PROVE IInv'
  BY <1>5, VerifyHeadPreserves
<1>6. ASSUME NEW r \in rows, LoseRow(r) PROVE IInv'
  BY <1>6, LoseRowPreserves
<1>7. ASSUME NEW r \in rows, EditRow(r) PROVE IInv'
  BY <1>7, EditRowPreserves
<1>8. CASE UNCHANGED vars
  BY <1>8, StutterPreserves
<1> QED
  BY <1>1, <1>2, <1>3, <1>4, <1>5, <1>6, <1>7, <1>8 DEF Next, TableNext

\* The invariant holds in every reachable state.
THEOREM Invariance == Spec => []IInv
  BY ChainInductive, InitEstablishes, PTL DEF Spec

\* audit.py: types of the tables and of the calls under way.
THEOREM AuditTypeCorrect == Spec => []TypeOK
<1>1. IInv => TypeOK
  BY DEF IInv, Typed
<1> QED
  BY <1>1, Invariance, PTL

\* log(): for any number of sessions, writers, failures and lost or edited rows,
\* the lock keeps two rows of a session from linking to one predecessor.
THEOREM ChainNeverForks == Spec => []NoFork
<1>1. IInv => NoFork
  BY DEF IInv
<1> QED
  BY <1>1, Invariance, PTL

\* verify_chain(): however many rows are lost or edited and whatever is appended
\* between its two reads, a session it calls intact had all its rows unchanged.
THEOREM DamageNeverMissed == Spec => []DamageDetected
<1>1. IInv => DamageDetected
  BY DEF IInv
<1> QED
  BY <1>1, Invariance, PTL

-----------------------------------------------------------------------------
(* What is untouched verifies: the second inductive invariant              *)

\* Nothing log() committed to the session was lost or edited.
Whole(s) == Of(rows, s) = Of(ever, s)

\* h is the hash of the last row of R.
EndsWith(R, h) ==
    IF R = {} THEN h = EmptyHash ELSE \E q \in R : IsLast(R, q) /\ h = q.hash

UniqueIds == \A r, q \in rows : r.id = q.id => r = q

\* While the lock is held, the row under construction is the next of its session.
NextInv ==
    \A w \in Writers :
        /\ pc[w] \in {"insert", "commit"} /\ Whole(mine[w].session) =>
              EndsWith(Of(ever, mine[w].session), mine[w].prev)
        /\ pc[w] = "commit" => \A e \in Of(ever, mine[w].session) : e.id < mine[w].id

\* The head describes the rows log() committed, lost or not.
HeadInv ==
    \A s \in Sessions :
        (s \in Legacy => Of(ever, s) \subseteq OldRows) => Complete(Of(ever, s), head[s])

ChainInv == \A s \in Sessions : Whole(s) => RowsLink(Of(ever, s))

\* A verification that read a whole session, between its two reads.
ReadInv ==
    \A v \in Verifiers : vpc[v] = "head" =>
        /\ snap[v] = due[v] => RowsLink(snap[v]) /\ RowsHash(snap[v])
        /\ quiet[v] => due[v] = Of(ever, vsession[v])

WholeInv ==
    /\ OldRows \subseteq ever /\ UniqueIds
    /\ NextInv /\ HeadInv /\ ChainInv /\ ReadInv /\ IntactAccepted

LEMMA WholeInitially == Init => WholeInv
<1> SUFFICES ASSUME Init PROVE WholeInv
  OBVIOUS
<1>1. \A r, q \in OldRows : r = q
  <2> SUFFICES ASSUME NEW s \in Legacy, NEW t \in Legacy PROVE s = t
    BY Zenon DEF OldRows
  <2> SUFFICES ASSUME s # t PROVE FALSE
    OBVIOUS
  <2>1. IsFiniteSet({s}) /\ Cardinality({s}) = 1
    BY FS_Singleton
  <2>2. IsFiniteSet({s} \cup {t}) /\ Cardinality({s} \cup {t}) = 2
    BY <2>1, FS_AddElement
  <2>3. Cardinality({s} \cup {t}) <= Cardinality(Legacy)
    <3>1. {s} \cup {t} \in SUBSET Legacy
      OBVIOUS
    <3> QED
      BY <3>1, ChainAssumption, FS_Subset
  <2>4. Cardinality(Legacy) <= 1 /\ Cardinality(Legacy) \in Nat
    BY ChainAssumption, FS_CardinalityType
  <2> QED
    BY <2>2, <2>3, <2>4
<1>2. \A r \in OldRows : r.id = 1 /\ r.prev = EmptyHash /\ r.hash = RowHash(r)
  BY DEF OldRows, Hashed, RowHash
<1>3. UniqueIds /\ OldRows \subseteq ever
  BY <1>1 DEF Init, UniqueIds
<1>4. HeadInv
  BY DEF Init, HeadInv, NoHead, Complete
<1>5. ChainInv
  <2> SUFFICES ASSUME NEW s \in Sessions, NEW r \in Of(ever, s),
                      {q \in Of(ever, s) : q.id < r.id} # {}
               PROVE  FALSE
    BY <1>2 DEF ChainInv, RowsLink, Of, Init
  <2>1. PICK q \in Of(ever, s) : q.id < r.id
    OBVIOUS
  <2>2. q.id = 1 /\ r.id = 1
    BY <1>2 DEF Init, Of
  <2> QED
    BY <2>1, <2>2
<1>6. NextInv /\ ReadInv /\ IntactAccepted
  BY DEF Init, NextInv, ReadInv, IntactAccepted
<1> QED
  BY <1>3, <1>4, <1>5, <1>6 DEF WholeInv

\* Steps of a writer that commit nothing.
LEMMA WriterWhole ==
    ASSUME IInv, WholeInv, UNCHANGED <<tableVars, verifyVars, ever, quiet>>, NextInv'
    PROVE  WholeInv'
BY DEF tableVars, verifyVars, WholeInv, UniqueIds, HeadInv, ChainInv, ReadInv, IntactAccepted,
       Whole, Of

LEMMA DraftWhole ==
    ASSUME IInv, WholeInv, NEW w \in Writers,
           \/ \E s \in Sessions, k \in Kinds : Log(w, s, k)
           \/ TakeLock(w) \/ Fail(w)
    PROVE  WholeInv'
<1>1. UNCHANGED <<tableVars, verifyVars, ever, quiet>>
  BY DEF Log, TakeLock, Fail, tableVars
<1>2. /\ pc'[w] \notin {"insert", "commit"}
      /\ \A x \in Writers \ {w} : mine'[x] = mine[x] /\ pc'[x] = pc[x]
  BY DEF Log, TakeLock, Fail, IInv, Typed, TypeOK
<1>3. NextInv'
  BY <1>1, <1>2 DEF NextInv, Whole, Of, WholeInv, tableVars
<1> QED
  BY <1>1, <1>3, WriterWhole

LEMMA ReadPrevWhole ==
    ASSUME IInv, WholeInv, NEW w \in Writers, ReadPrev(w)
    PROVE  WholeInv'
<1> DEFINE s == mine[w].session
           p == TailHash(s)
<1>1. UNCHANGED <<tableVars, verifyVars, ever, quiet>>
  BY DEF ReadPrev
<1>2. /\ pc'[w] = "insert" /\ mine'[w].session = s /\ mine'[w].prev = p
      /\ \A x \in Writers \ {w} : mine'[x] = mine[x] /\ pc'[x] = pc[x]
  <2>1. mine'[w] = [mine[w] EXCEPT !.prev = p]
    BY DEF ReadPrev, IInv, Typed, TypeOK
  <2>2. mine'[w].session = s /\ mine'[w].prev = p
    BY <2>1 DEF IInv, Typed, TypeOK, RowShape
  <2> QED
    BY <2>2 DEF ReadPrev, IInv, Typed, TypeOK
<1>3. Whole(s) => EndsWith(Of(ever, s), p)
  <2>1. \/ Of(rows, s) = {} /\ p = EmptyHash
        \/ \E t \in Of(rows, s) : p = t.hash /\ \A q \in Of(rows, s) : q.id <= t.id
    BY TailIsLast DEF IInv
  <2> HIDE DEF p
  <2> QED
    BY <2>1 DEF Whole, EndsWith, IsLast
<1> HIDE DEF p
<1>4. NextInv'
  BY <1>1, <1>2, <1>3 DEF NextInv, Whole, Of, WholeInv, tableVars
<1> QED
  BY <1>1, <1>4, WriterWhole

LEMMA InsertRowWhole ==
    ASSUME IInv, WholeInv, NEW w \in Writers, InsertRow(w)
    PROVE  WholeInv'
<1>1. UNCHANGED <<tableVars, verifyVars, ever, quiet>>
  BY DEF InsertRow
<1>2. /\ pc[w] = "insert" /\ pc'[w] = "commit"
      /\ mine'[w].session = mine[w].session /\ mine'[w].prev = mine[w].prev
      /\ mine'[w].id = nextId
      /\ \A x \in Writers \ {w} : mine'[x] = mine[x] /\ pc'[x] = pc[x]
  <2>1. mine'[w] = [mine[w] EXCEPT !.id = nextId]
    BY DEF InsertRow, IInv, Typed, TypeOK
  <2>2. /\ mine'[w].session = mine[w].session /\ mine'[w].prev = mine[w].prev
        /\ mine'[w].id = nextId
    BY <2>1 DEF IInv, Typed, TypeOK, RowShape
  <2> QED
    BY <2>2 DEF InsertRow, IInv, Typed, TypeOK
<1>3. \A e \in ever : e.id < nextId
  BY DEF IInv, Typed, TypeOK
<1>4. NextInv'
  <2> SUFFICES ASSUME NEW x \in Writers
               PROVE  /\ pc'[x] \in {"insert", "commit"} /\ Whole(mine'[x].session) =>
                            EndsWith(Of(ever, mine'[x].session), mine'[x].prev)
                      /\ pc'[x] = "commit" =>
                            \A e \in Of(ever, mine'[x].session) : e.id < mine'[x].id
    BY <1>1 DEF NextInv, Whole, Of, tableVars
  <2>1. CASE x = w
    BY <1>2, <1>3, <2>1 DEF WholeInv, NextInv, Of
  <2>2. CASE x # w
    BY <1>2, <2>2 DEF WholeInv, NextInv
  <2> QED
    BY <2>1, <2>2
<1> QED
  BY <1>1, <1>4, WriterWhole

\* A commit puts its row at the end of the session, behind the row it links to.
LEMMA LinkedAppend ==
    ASSUME NEW E, NEW r, RowsLink(E), EndsWith(E, r.prev), r.id \in Nat,
           \A e \in E : e.id \in Nat /\ e.id < r.id
    PROVE  RowsLink(E \cup {r})
<1> SUFFICES ASSUME NEW q \in E \cup {r}
             PROVE  LET before == {x \in E \cup {r} : x.id < q.id}
                    IN  IF before = {} THEN q.prev = EmptyHash
                        ELSE \E x \in before : IsLast(before, x) /\ q.prev = x.hash
  BY DEF RowsLink
<1>1. CASE q = r
  <2>1. {x \in E \cup {r} : x.id < q.id} = E
    BY <1>1
  <2> QED
    BY <1>1, <2>1 DEF EndsWith
<1>2. CASE q \in E
  <2>1. {x \in E \cup {r} : x.id < q.id} = {x \in E : x.id < q.id}
    BY <1>2
  <2> QED
    BY <1>2, <2>1 DEF RowsLink
<1> QED
  BY <1>1, <1>2

LEMMA CommitWhole ==
    ASSUME IInv, IInv', WholeInv, NEW w \in Writers, Commit(w)
    PROVE  WholeInv'
<1> SUFFICES ASSUME NEW m, m = mine[w], NEW s, s = m.session, NEW E, E = Of(ever, s),
                    NEW r, r = Hashed(m.id, m.session, m.kind, m.day, m.prev)
             PROVE  WholeInv'
  OBVIOUS
<1>1. /\ pc[w] = "commit" /\ rows' = rows \cup {r} /\ ever' = ever \cup {r}
      /\ head' = [head EXCEPT ![s] = UpsertHead(r)]
      /\ quiet' = [v \in Verifiers |-> quiet[v] /\ vsession[v] # s]
      /\ UNCHANGED verifyVars
  BY DEF Commit
<1>2. /\ pc'[w] = "idle"
      /\ \A x \in Writers \ {w} : mine'[x] = mine[x] /\ pc'[x] = pc[x]
  BY DEF Commit, IInv, Typed, TypeOK
<1>3. /\ s \in Sessions /\ m.id \in Nat
      /\ \A e \in rows \cup ever : e.id \in Nat /\ e.id # m.id
      /\ \A e \in E : e.id < m.id
  BY <1>1 DEF IInv, Typed, TypeOK, RowShape, IdInv, WholeInv, NextInv
<1>4. r.id = m.id /\ r.session = s /\ r.prev = m.prev /\ r.hash = RowHash(r)
  BY DEF Hashed, RowHash
<1>5. /\ Of(rows', s) = Of(rows, s) \cup {r} /\ Of(ever', s) = E \cup {r}
      /\ \A t \in Sessions \ {s} : Of(rows', t) = Of(rows, t) /\ Of(ever', t) = Of(ever, t)
      /\ r \notin rows /\ r \notin ever
  BY <1>1, <1>3, <1>4 DEF Of
<1>6. Whole(s)' => Whole(s) /\ EndsWith(E, r.prev)
  <2>1. Of(rows, s) \subseteq rows /\ Of(ever, s) \subseteq ever
    BY DEF Of
  <2>2. Whole(s)' => Of(rows', s) = Of(ever', s)
    BY DEF Whole
  <2>3. Whole(s)' => Whole(s)
    BY <1>5, <2>1, <2>2 DEF Whole
  <2> QED
    BY <1>1, <1>4, <2>3 DEF WholeInv, NextInv
<1>7. OldRows \subseteq ever' /\ UniqueIds'
  BY <1>1, <1>3, <1>4 DEF WholeInv, UniqueIds
<1>8. NextInv'
  <2> SUFFICES ASSUME NEW x \in Writers, pc'[x] \in {"insert", "commit"}
               PROVE  /\ Of(rows', mine'[x].session) = Of(ever', mine'[x].session) =>
                            EndsWith(Of(ever', mine'[x].session), mine'[x].prev)
                      /\ pc'[x] = "commit" =>
                            \A e \in Of(ever', mine'[x].session) : e.id < mine'[x].id
    BY DEF NextInv, Whole, Of
  <2>1. x # w /\ mine'[x] = mine[x] /\ pc'[x] = pc[x]
    BY <1>2
  <2>2. mine[x].session # s /\ mine[x].session \in Sessions
    BY <1>1, <2>1 DEF IInv, LockInv, Holding, Typed, TypeOK, RowShape
  <2>3. /\ Of(rows', mine[x].session) = Of(rows, mine[x].session)
        /\ Of(ever', mine[x].session) = Of(ever, mine[x].session)
    BY <1>5, <2>2
  <2> QED
    BY <2>1, <2>3 DEF WholeInv, NextInv, Whole
<1>9. HeadInv'
  <2> SUFFICES ASSUME NEW t \in Sessions, t \in Legacy => Of(ever', t) \subseteq OldRows
               PROVE  Complete(Of(ever', t), head'[t])
    BY DEF HeadInv
  <2>1. CASE t # s
    BY <1>1, <1>5, <2>1 DEF IInv, Typed, TypeOK, WholeInv, HeadInv
  <2>2. CASE t = s
    <3>1. s \notin Legacy
      BY <1>5, <2>2 DEF WholeInv
    <3>2. head'[s] = UpsertHead(r)
      BY <1>1, <1>3 DEF IInv, Typed, TypeOK
    <3>3. Cardinality(Of(ever', s)) = head'[s].count
      BY <1>3, <3>1 DEF IInv, CountInv
    <3>4. IsLast(Of(ever', s), r)
      <4>1. r.id \in Nat /\ \A e \in E : e.id \in Nat /\ e.id < r.id
        BY <1>3, <1>4 DEF Of
      <4>2. Of(ever', s) = E \cup {r}
        BY <1>5
      <4> QED
        BY <4>1, <4>2 DEF IsLast
    <3>5. r.hash = head'[s].hash /\ r.id = head'[s].id
      BY <3>2 DEF UpsertHead
    <3>6. r \in Of(ever', s)
      BY <1>5
    <3> QED
      BY <2>2, <3>3, <3>4, <3>6, <3>5 DEF Complete
  <2> QED
    BY <2>1, <2>2
<1>10. ChainInv'
  <2> SUFFICES ASSUME NEW t \in Sessions, Whole(t)'
               PROVE  RowsLink(Of(ever', t))
    BY DEF ChainInv, Whole
  <2>1. CASE t # s
    BY <1>5, <2>1 DEF WholeInv, ChainInv, Whole
  <2>2. CASE t = s
    <3>1. RowsLink(E) /\ EndsWith(E, r.prev)
      BY <1>3, <1>6, <2>2 DEF WholeInv, ChainInv
    <3>2. r.id \in Nat /\ \A e \in E : e.id \in Nat /\ e.id < r.id
      BY <1>3, <1>4 DEF Of
    <3> QED
      BY <1>5, <2>2, <3>1, <3>2, LinkedAppend
  <2> QED
    BY <2>1, <2>2
<1>11. ReadInv'
  <2> SUFFICES ASSUME NEW v \in Verifiers, vpc[v] = "head"
               PROVE  /\ snap[v] = due[v] => RowsLink(snap[v]) /\ RowsHash(snap[v])
                      /\ quiet'[v] => due[v] = Of(ever', vsession[v])
    BY <1>1 DEF ReadInv, verifyVars
  <2>1. quiet'[v] => quiet[v] /\ vsession[v] # s
    BY <1>1
  <2>2. vsession[v] \in Sessions
    BY DEF IInv, SnapInv
  <2> QED
    BY <1>5, <2>1, <2>2 DEF WholeInv, ReadInv
<1>12. IntactAccepted'
  BY <1>1 DEF WholeInv, IntactAccepted, verifyVars
<1> QED
  BY <1>7, <1>8, <1>9, <1>10, <1>11, <1>12 DEF WholeInv

\* What was lost from a session, or edited, does not come back.
LEMMA DamageStays ==
    ASSUME IInv, WholeInv, NEW r \in rows, LoseRow(r) \/ EditRow(r), NEW s \in Sessions,
           Whole(s)'
    PROVE  Whole(s)
<1>1. ever' = ever /\ Of(rows', s) = Of(ever, s)
  BY DEF LoseRow, EditRow, Whole
<1>2. CASE r.session # s
  <2>1. Of(rows', s) = Of(rows, s)
    <3>1. CASE LoseRow(r)
      BY <1>2, <3>1 DEF LoseRow, Of
    <3>2. CASE EditRow(r)
      <4>1. PICK k \in Kinds : rows' = (rows \ {r}) \cup {[r EXCEPT !.kind = k]}
        BY <3>2 DEF EditRow
      <4> DEFINE e == [r EXCEPT !.kind = k]
      <4>2. e.session = r.session
        BY DEF IInv, Typed, TypeOK, RowShape
      <4>3. rows' = (rows \ {r}) \cup {e}
        BY <4>1
      <4> HIDE DEF e
      <4> QED
        BY <1>2, <4>2, <4>3 DEF Of
    <3> QED
      BY <3>1, <3>2
  <2> QED
    BY <1>1, <2>1 DEF Whole
<1>3. CASE r.session = s
  <2>1. PICK e \in ever : Same(r, e)
    BY DEF IInv, OriginInv
  <2>2. e \in Of(rows', s) /\ e.id = r.id
    BY <1>1, <1>3, <2>1 DEF Same, Of
  <2>3. CASE LoseRow(r)
    <3>1. e \in rows /\ e # r
      BY <2>2, <2>3 DEF LoseRow, Of
    <3> QED
      BY <2>2, <3>1 DEF WholeInv, UniqueIds
  <2>4. CASE EditRow(r)
    <3>1. PICK k \in Kinds \ {r.kind} : rows' = (rows \ {r}) \cup {[r EXCEPT !.kind = k]}
      BY <2>4 DEF EditRow
    <3>2. [r EXCEPT !.kind = k] # r
      <4>1. [r EXCEPT !.kind = k].kind = k
        BY DEF IInv, Typed, TypeOK, RowShape
      <4> QED
        BY <4>1
    <3>3. r \in Of(ever, s) /\ r \notin rows'
      BY <1>3, <2>4, <3>1, <3>2 DEF EditRow, Of
    <3> QED
      BY <1>1, <3>3 DEF Of
  <2> QED
    BY <2>3, <2>4
<1> QED
  BY <1>2, <1>3

LEMMA DamageWhole ==
    ASSUME IInv, WholeInv, NEW r \in rows, LoseRow(r) \/ EditRow(r)
    PROVE  WholeInv'
<1>1. UNCHANGED <<head, writerVars, verifyVars, ever, quiet>>
  BY DEF LoseRow, EditRow
<1>2. \A s \in Sessions : Whole(s)' => Whole(s)
  BY DamageStays
<1>3. UniqueIds'
  <2>1. CASE LoseRow(r)
    BY <2>1 DEF LoseRow, WholeInv, UniqueIds
  <2>2. CASE EditRow(r)
    <3>1. PICK k \in Kinds : rows' = (rows \ {r}) \cup {[r EXCEPT !.kind = k]}
      BY <2>2 DEF EditRow
    <3> DEFINE e == [r EXCEPT !.kind = k]
    <3>2. e.id = r.id
      BY DEF IInv, Typed, TypeOK, RowShape
    <3>3. rows' = (rows \ {r}) \cup {e}
      BY <3>1
    <3> HIDE DEF e
    <3> QED
      BY <3>2, <3>3 DEF WholeInv, UniqueIds
  <2> QED
    BY <2>1, <2>2
<1>4. NextInv'
  <2>1. \A w \in Writers : pc[w] \in {"insert", "commit"} => mine[w].session \in Sessions
    BY DEF IInv, Typed, TypeOK, RowShape
  <2> QED
    BY <1>1, <1>2, <2>1 DEF WholeInv, NextInv, Whole, writerVars
<1>5. ChainInv'
  BY <1>1, <1>2 DEF WholeInv, ChainInv, Whole
<1>6. HeadInv' /\ ReadInv' /\ IntactAccepted' /\ OldRows \subseteq ever'
  BY <1>1 DEF WholeInv, HeadInv, ReadInv, IntactAccepted, verifyVars
<1> QED
  BY <1>3, <1>4, <1>5, <1>6 DEF WholeInv

LEMMA VerifyRowsWhole ==
    ASSUME IInv, WholeInv, NEW v \in Verifiers, NEW s \in Sessions, VerifyRows(v, s)
    PROVE  WholeInv'
<1>1. /\ UNCHANGED <<tableVars, writerVars, ever>>
      /\ snap'[v] = Of(rows, s) /\ due'[v] = Of(ever, s) /\ vsession'[v] = s
      /\ verdict'[v] = "none"
      /\ \A u \in Verifiers \ {v} :
            /\ snap'[u] = snap[u] /\ due'[u] = due[u] /\ vsession'[u] = vsession[u]
            /\ verdict'[u] = verdict[u] /\ quiet'[u] = quiet[u] /\ vpc'[u] = vpc[u]
  BY DEF VerifyRows, IInv, Typed, TypeOK, VarsAreFunctions
<1>2. snap'[v] = due'[v] => RowsLink(snap'[v]) /\ RowsHash(snap'[v])
  BY <1>1 DEF WholeInv, ChainInv, Whole, RowsHash, IInv, OriginInv, Of
<1>3. ReadInv'
  BY <1>1, <1>2 DEF WholeInv, ReadInv
<1>4. IntactAccepted'
  BY <1>1 DEF WholeInv, IntactAccepted
<1>5. OldRows \subseteq ever' /\ UniqueIds' /\ NextInv' /\ HeadInv' /\ ChainInv'
  BY <1>1 DEF WholeInv, UniqueIds, NextInv, HeadInv, ChainInv, Whole, Of, tableVars, writerVars
<1> QED
  BY <1>3, <1>4, <1>5 DEF WholeInv

LEMMA VerifyHeadWhole ==
    ASSUME IInv, WholeInv, NEW v \in Verifiers, VerifyHead(v)
    PROVE  WholeInv'
<1>1. /\ UNCHANGED <<tableVars, writerVars, vsession, snap, due, ever, quiet>>
      /\ vpc[v] = "head"
      /\ verdict'[v] = "broken" => ~(/\ Complete(snap[v], head[vsession[v]])
                                     /\ RowsLink(snap[v]) /\ RowsHash(snap[v]))
      /\ \A u \in Verifiers \ {v} : verdict'[u] = verdict[u] /\ vpc'[u] = vpc[u]
      /\ vpc'[v] = "idle"
  BY DEF VerifyHead, IInv, Typed, TypeOK
<1>2. IntactAccepted'
  <2> SUFFICES ASSUME NEW u \in Verifiers, verdict'[u] = "broken", quiet[u],
                      vsession[u] \in Legacy => due[u] \subseteq OldRows, snap[u] = due[u]
               PROVE  FALSE
    BY <1>1 DEF IntactAccepted
  <2>1. CASE u # v
    BY <1>1, <2>1 DEF WholeInv, IntactAccepted
  <2>2. CASE u = v
    <3>1. /\ vsession[v] \in Sessions /\ due[v] = Of(ever, vsession[v])
          /\ RowsLink(snap[v]) /\ RowsHash(snap[v])
      BY <1>1, <2>2 DEF IInv, SnapInv, WholeInv, ReadInv
    <3>2. Complete(snap[v], head[vsession[v]])
      BY <2>2, <3>1 DEF WholeInv, HeadInv
    <3> QED
      BY <1>1, <2>2, <3>1, <3>2
  <2> QED
    BY <2>1, <2>2
<1>3. ReadInv'
  BY <1>1 DEF WholeInv, ReadInv
<1>4. OldRows \subseteq ever' /\ UniqueIds' /\ NextInv' /\ HeadInv' /\ ChainInv'
  BY <1>1 DEF WholeInv, UniqueIds, NextInv, HeadInv, ChainInv, Whole, Of, tableVars, writerVars
<1> QED
  BY <1>2, <1>3, <1>4 DEF WholeInv

LEMMA WholeInductive == IInv /\ IInv' /\ WholeInv /\ [Next]_vars => WholeInv'
<1> SUFFICES ASSUME IInv, IInv', WholeInv, [Next]_vars
             PROVE  WholeInv'
  OBVIOUS
<1>1. ASSUME NEW w \in Writers, AppendStep(w)
      PROVE  WholeInv'
  BY <1>1, DraftWhole, ReadPrevWhole, InsertRowWhole, CommitWhole DEF AppendStep
<1>2. ASSUME NEW w \in Writers, Fail(w) \/ \E s \in Sessions, k \in Kinds : Log(w, s, k)
      PROVE  WholeInv'
  BY <1>2, DraftWhole
<1>3. CASE UNCHANGED vars
  <2>1. UNCHANGED <<tableVars, verifyVars, writerVars, ever, quiet>>
    BY <1>3 DEF vars
  <2>2. NextInv'
    BY <2>1 DEF WholeInv, NextInv, Whole, Of, tableVars, writerVars
  <2> QED
    BY <2>1, <2>2, WriterWhole
<1> QED
  BY <1>1, <1>2, <1>3, DamageWhole, VerifyRowsWhole, VerifyHeadWhole DEF Next, TableNext

\* The second invariant holds in every reachable state.
THEOREM WholeSafety == Spec => []WholeInv
  BY WholeInitially, WholeInductive, Invariance, PTL DEF Spec

\* verify_chain(): however writers interleave and fail and whatever happens to other
\* sessions, a session that nobody damaged is reported intact when nothing was
\* appended to it between the two reads.
THEOREM IntactNeverAccused == Spec => []IntactAccepted
<1>1. WholeInv => IntactAccepted
  BY DEF WholeInv
<1> QED
  BY <1>1, WholeSafety, PTL

-----------------------------------------------------------------------------
(* Rows in the order of their ids                                          *)

\* Finitely many rows that are told apart by their ids.
Listed(R) ==
    /\ IsFiniteSet(R)
    /\ \A r \in R : r.id \in Nat /\ r.kind \in Kinds
    /\ \A r, q \in R : r.id = q.id => r = q

UpTo(R, r) == {q \in R : q.id <= r.id}

LEMMA PlaceBounds ==
    ASSUME NEW R, IsFiniteSet(R), NEW r
    PROVE  /\ IsFiniteSet(UpTo(R, r)) /\ Place(R, r) = Cardinality(UpTo(R, r))
           /\ Place(R, r) \in Nat /\ Cardinality(R) \in Nat /\ Place(R, r) <= Cardinality(R)
<1>1. UpTo(R, r) \in SUBSET R
  BY DEF UpTo
<1>2. IsFiniteSet(UpTo(R, r)) /\ Cardinality(UpTo(R, r)) <= Cardinality(R)
  BY <1>1, FS_Subset
<1>3. Cardinality(UpTo(R, r)) \in Nat /\ Cardinality(R) \in Nat
  BY <1>2, FS_CardinalityType
<1> QED
  BY <1>2, <1>3 DEF Place, UpTo

LEMMA PlacePositive ==
    ASSUME NEW R, Listed(R), NEW r \in R
    PROVE  Place(R, r) \in 1 .. Cardinality(R)
<1>1. r \in UpTo(R, r)
  BY DEF UpTo, Listed
<1>2. Cardinality(UpTo(R, r)) # 0
  BY <1>1, PlaceBounds, FS_EmptySet DEF Listed
<1> QED
  BY <1>2, PlaceBounds DEF Listed

\* A greater id has a greater place.
LEMMA PlaceGrows ==
    ASSUME NEW R, Listed(R), NEW r \in R, NEW q \in R, r.id < q.id
    PROVE  Place(R, r) < Place(R, q)
<1>1. UpTo(R, r) \in SUBSET UpTo(R, q)
  BY DEF UpTo, Listed
<1>2. q \in UpTo(R, q) /\ q \notin UpTo(R, r)
  BY DEF UpTo, Listed
<1>3. /\ Cardinality(UpTo(R, r)) <= Cardinality(UpTo(R, q))
      /\ Cardinality(UpTo(R, q)) = Cardinality(UpTo(R, r)) => UpTo(R, q) = UpTo(R, r)
  BY <1>1, PlaceBounds, FS_Subset DEF Listed
<1> QED
  BY <1>2, <1>3, PlaceBounds DEF Listed

LEMMA PlaceUnique ==
    ASSUME NEW R, Listed(R), NEW r \in R, NEW q \in R, Place(R, r) = Place(R, q)
    PROVE  r = q
<1>1. ~(r.id < q.id) /\ ~(q.id < r.id)
  BY PlaceGrows, PlacePositive
<1> QED
  BY <1>1 DEF Listed

\* Every place is taken.
LEMMA PlaceTaken ==
    ASSUME NEW R, Listed(R), NEW i \in 1 .. Cardinality(R)
    PROVE  \E r \in R : Place(R, r) = i
<1> DEFINE n == Cardinality(R)
           f == [r \in R |-> Place(R, r)]
<1>1. n \in Nat /\ IsFiniteSet(1 .. n) /\ Cardinality(1 .. n) = n
  BY FS_CardinalityType, FS_Interval DEF Listed
<1>2. f \in Injection(R, 1 .. n)
  <2>1. f \in [R -> 1 .. n]
    BY PlacePositive
  <2>2. \A r, q \in R : f[r] = f[q] => r = q
    BY PlaceUnique
  <2> HIDE DEF f
  <2> QED
    BY <2>1, <2>2 DEF Injection, IsInjective
<1>3. f \in Surjection(R, 1 .. n)
  <2> HIDE DEF f, n
  <2>1. /\ Cardinality(R) <= Cardinality(1 .. n)
        /\ Cardinality(R) = Cardinality(1 .. n) <=> f \in Surjection(R, 1 .. n)
    BY <1>1, <1>2, FS_Injection, Zenon
  <2> QED
    BY <1>1, <2>1 DEF n
<1>4. \E r \in R : f[r] = i
  <2> HIDE DEF f
  <2> QED
    BY <1>3 DEF Surjection
<1> QED
  BY <1>4

\* The entries of R are the one list with every row's kind at its place.
LEMMA EntriesOf ==
    ASSUME NEW R, Listed(R)
    PROVE  /\ ById(R) \in Seq(Kinds) /\ Len(ById(R)) = Cardinality(R)
           /\ DOMAIN ById(R) = 1 .. Cardinality(R)
           /\ \A r \in R : ById(R)[Place(R, r)] = r.kind
<1> DEFINE n == Cardinality(R)
           At(i) == CHOOSE r \in R : Place(R, r) = i
<1>1. n \in Nat
  BY FS_CardinalityType DEF Listed
<1>2. \A i \in 1 .. n : At(i) \in R /\ Place(R, At(i)) = i
  BY PlaceTaken
<1> HIDE DEF At
<1>3. \A i \in 1 .. n : At(i).kind \in Kinds
  BY <1>2 DEF Listed
<1>4. ById(R) = [i \in 1 .. n |-> At(i).kind]
  BY DEF ById, At
<1> HIDE DEF n
<1>5. ById(R) \in Seq(Kinds) /\ Len(ById(R)) = n /\ DOMAIN ById(R) = 1 .. n
  BY <1>1, <1>3, <1>4
<1>6. ASSUME NEW r \in R PROVE ById(R)[Place(R, r)] = r.kind
  <2>1. Place(R, r) \in 1 .. n
    BY PlacePositive DEF n
  <2>2. At(Place(R, r)) = r
    BY <1>2, <2>1, PlaceUnique
  <2> QED
    BY <1>4, <2>1, <2>2
<1> QED
  BY <1>5, <1>6 DEF n

LEMMA EntriesAre ==
    ASSUME NEW R, Listed(R), NEW l \in Seq(Kinds), Len(l) = Cardinality(R),
           \A r \in R : l[Place(R, r)] = r.kind
    PROVE  ById(R) = l
<1> DEFINE e == ById(R)
<1>1. e \in Seq(Kinds) /\ Len(e) = Cardinality(R) /\ \A r \in R : e[Place(R, r)] = r.kind
  BY EntriesOf
<1>2. ASSUME NEW i \in 1 .. Cardinality(R) PROVE e[i] = l[i]
  <2>1. PICK r \in R : Place(R, r) = i
    BY PlaceTaken
  <2> HIDE DEF e
  <2> QED
    BY <1>1, <2>1
<1> HIDE DEF e
<1>3. e = l
  BY <1>1, <1>2, SeqEqual
<1> QED
  BY <1>3 DEF e

\* A row behind all others adds its entry at the end.
LEMMA EntriesAppend ==
    ASSUME NEW R, Listed(R), NEW r, r.id \in Nat, r.kind \in Kinds, \A q \in R : q.id < r.id
    PROVE  Listed(R \cup {r}) /\ ById(R \cup {r}) = Append(ById(R), r.kind)
<1> DEFINE S == R \cup {r}
           l == ById(R)
           m == Append(l, r.kind)
           n == Cardinality(R)
<1>1. r \notin R
  BY DEF Listed
<1>2. IsFiniteSet(S) /\ Cardinality(S) = n + 1 /\ n \in Nat
  BY <1>1, FS_AddElement, FS_CardinalityType DEF Listed
<1>3. Listed(S)
  BY <1>2 DEF Listed
<1>4. \A q \in R : Place(S, q) = Place(R, q)
  <2> SUFFICES ASSUME NEW q \in R PROVE {x \in S : x.id <= q.id} = {x \in R : x.id <= q.id}
    BY DEF Place
  <2> QED
    BY DEF Listed
<1>5. Place(S, r) = n + 1
  <2>1. {x \in S : x.id <= r.id} = S
    BY DEF Listed
  <2> QED
    BY <1>2, <2>1 DEF Place
<1>6. /\ l \in Seq(Kinds) /\ Len(l) = n /\ \A q \in R : l[Place(R, q)] = q.kind
      /\ \A q \in R : Place(R, q) \in 1 .. n
  BY EntriesOf, PlacePositive
<1> HIDE DEF l
<1>7. m \in Seq(Kinds) /\ Len(m) = n + 1 /\ (\A i \in 1 .. n : m[i] = l[i]) /\ m[n + 1] = r.kind
  BY <1>6, AppendProperties
<1> HIDE DEF m, n
<1>8. \A q \in S : m[Place(S, q)] = q.kind
  BY <1>4, <1>5, <1>6, <1>7
<1> HIDE DEF S
<1>9. ById(S) = m
  BY <1>2, <1>3, <1>7, <1>8, EntriesAre
<1> QED
  BY <1>3, <1>9 DEF S, m, l

\* A row that is gone leaves its place out.
LEMMA EntriesWithout ==
    ASSUME NEW R, Listed(R), NEW r \in R
    PROVE  /\ Listed(R \ {r}) /\ Cardinality(R \ {r}) = Cardinality(R) - 1
           /\ \A q \in R \ {r} : Place(R \ {r}, q) =
                    IF q.id < r.id THEN Place(R, q) ELSE Place(R, q) - 1
           /\ ById(R \ {r}) = Ledger!Without(ById(R), Place(R, r))
<1> DEFINE S == R \ {r}
           l == ById(R)
           n == Cardinality(R)
           i == Place(R, r)
           m == Ledger!Without(l, i)
<1>1. n \in Nat /\ i \in 1 .. n
  BY FS_CardinalityType, PlacePositive DEF Listed
<1>2. IsFiniteSet(S) /\ Cardinality(S) = n - 1
  BY FS_RemoveElement DEF Listed
<1>3. Listed(S)
  BY <1>2 DEF Listed
<1>4. ASSUME NEW q \in S
      PROVE  Place(S, q) = IF q.id < r.id THEN Place(R, q) ELSE Place(R, q) - 1
  <2>1. CASE q.id < r.id
    <3>1. {x \in S : x.id <= q.id} = {x \in R : x.id <= q.id}
      BY <2>1 DEF Listed
    <3> QED
      BY <2>1, <3>1 DEF Place
  <2>2. CASE ~(q.id < r.id)
    <3>1. r \in UpTo(R, q) /\ UpTo(S, q) = UpTo(R, q) \ {r}
      BY <2>2 DEF Listed, UpTo
    <3>2. IsFiniteSet(UpTo(R, q))
      BY PlaceBounds DEF Listed
    <3>3. Cardinality(UpTo(S, q)) = Cardinality(UpTo(R, q)) - 1
      BY <3>1, <3>2, FS_RemoveElement
    <3> QED
      BY <2>2, <3>3 DEF Place, UpTo
  <2> QED
    BY <2>1, <2>2
<1>5. ASSUME NEW q \in S
      PROVE  IF q.id < r.id THEN Place(R, q) < i ELSE i < Place(R, q)
  BY PlaceGrows DEF Listed
<1>6. /\ l \in Seq(Kinds) /\ Len(l) = n /\ DOMAIN l = 1 .. n
      /\ \A q \in R : Place(R, q) \in 1 .. n /\ l[Place(R, q)] = q.kind
  BY EntriesOf, PlacePositive
<1> HIDE DEF l, i, n
<1> DEFINE a == SubSeq(l, 1, i - 1)
           b == SubSeq(l, i + 1, n)
<1>7. /\ a \in Seq(Kinds) /\ Len(a) = i - 1 /\ \A k \in 1 .. i - 1 : a[k] = l[k]
      /\ b \in Seq(Kinds) /\ Len(b) = n - i /\ \A k \in 1 .. n - i : b[k] = l[i + k]
  <2>1. /\ \A k \in 1 .. i - 1 : l[k] \in Kinds
        /\ \A k \in i + 1 .. n : l[k] \in Kinds
        /\ i \in Int /\ n \in Int /\ i - 1 \in Int /\ i + 1 \in Int
    BY <1>1, <1>6
  <2> HIDE DEF S
  <2>2. /\ a \in Seq(Kinds) /\ Len(a) = IF 1 <= i - 1 THEN (i - 1) - 1 + 1 ELSE 0
        /\ \A k \in 1 .. (i - 1) - 1 + 1 : a[k] = l[1 + k - 1]
    BY <2>1, SubSeqProperties
  <2>3. /\ b \in Seq(Kinds) /\ Len(b) = IF i + 1 <= n THEN n - (i + 1) + 1 ELSE 0
        /\ \A k \in 1 .. n - (i + 1) + 1 : b[k] = l[(i + 1) + k - 1]
    BY <2>1, SubSeqProperties
  <2> HIDE DEF a, b
  <2>4. i - 1 \in Nat /\ n - i \in Nat /\ (i - 1) - 1 + 1 = i - 1 /\ n - (i + 1) + 1 = n - i
    BY <1>1
  <2>5. Len(a) = i - 1 /\ Len(b) = n - i
    BY <1>1, <2>2, <2>3
  <2>6. \A k \in 1 .. i - 1 : a[k] = l[k]
    BY <2>2, <2>4
  <2>7. \A k \in 1 .. n - i : b[k] = l[i + k]
    <3> SUFFICES ASSUME NEW k \in 1 .. n - i PROVE b[k] = l[i + k]
      OBVIOUS
    <3>1. b[k] = l[(i + 1) + k - 1]
      BY <2>3, <2>4
    <3>2. (i + 1) + k - 1 = i + k
      BY <1>1
    <3> QED
      BY <3>1, <3>2
  <2> QED
    BY <2>2, <2>3, <2>5, <2>6, <2>7
<1>8. m = a \o b
  BY <1>6 DEF Ledger!Without
<1> HIDE DEF a, b, m
<1>9. /\ m \in Seq(Kinds) /\ Len(m) = n - 1
      /\ \A k \in 1 .. n - 1 : m[k] = IF k <= i - 1 THEN l[k] ELSE l[k + 1]
  <2>1. /\ a \o b \in Seq(Kinds) /\ Len(a \o b) = Len(a) + Len(b)
        /\ \A k \in 1 .. Len(a) + Len(b) :
              (a \o b)[k] = IF k <= Len(a) THEN a[k] ELSE b[k - Len(a)]
    BY <1>7, ConcatProperties
  <2>2. ASSUME NEW k \in 1 .. n - 1 PROVE m[k] = IF k <= i - 1 THEN l[k] ELSE l[k + 1]
    <3>1. CASE k <= i - 1
      BY <1>1, <1>7, <1>8, <2>1, <3>1
    <3>2. CASE ~(k <= i - 1)
      <4>1. k - (i - 1) \in 1 .. n - i /\ i + (k - (i - 1)) = k + 1
        BY <1>1, <3>2
      <4>2. m[k] = b[k - (i - 1)]
        BY <1>1, <1>7, <1>8, <2>1, <3>2
      <4> QED
        BY <1>7, <3>2, <4>1, <4>2
    <3> QED
      BY <3>1, <3>2
  <2> QED
    BY <1>1, <1>7, <1>8, <2>1, <2>2
<1>10. ASSUME NEW q \in S PROVE m[Place(S, q)] = q.kind
  <2>1. Place(R, q) \in 1 .. n /\ l[Place(R, q)] = q.kind
    BY <1>6
  <2>2. CASE q.id < r.id
    <3>1. Place(S, q) = Place(R, q) /\ Place(R, q) < i
      BY <1>4, <1>5, <2>2
    <3>2. Place(R, q) \in 1 .. n - 1 /\ Place(R, q) <= i - 1
      BY <1>1, <2>1, <3>1
    <3> QED
      BY <1>9, <2>1, <3>1, <3>2
  <2>3. CASE ~(q.id < r.id)
    <3>1. Place(S, q) = Place(R, q) - 1 /\ i < Place(R, q)
      BY <1>4, <1>5, <2>3
    <3>2. /\ Place(R, q) - 1 \in 1 .. n - 1 /\ ~(Place(R, q) - 1 <= i - 1)
          /\ (Place(R, q) - 1) + 1 = Place(R, q)
      BY <1>1, <2>1, <3>1
    <3> QED
      BY <1>9, <2>1, <3>1, <3>2
  <2> QED
    BY <2>2, <2>3
<1>11. ById(S) = m
  <2> HIDE DEF S
  <2> QED
    BY <1>2, <1>3, <1>9, <1>10, EntriesAre
<1> QED
  BY <1>2, <1>3, <1>4, <1>11 DEF S, m, l, i, n

\* A row that is rewritten keeps its place.
LEMMA EntriesRewritten ==
    ASSUME NEW R, Listed(R), NEW r \in R, NEW e, e \notin R, e.id = r.id, e.kind \in Kinds
    PROVE  /\ ById((R \ {r}) \cup {e}) = [ById(R) EXCEPT ![Place(R, r)] = e.kind]
           /\ Listed((R \ {r}) \cup {e})
<1> DEFINE Q == R \ {r}
           S == Q \cup {e}
           l == ById(R)
           n == Cardinality(R)
           i == Place(R, r)
           m == [l EXCEPT ![i] = e.kind]
<1>1. n \in Nat /\ i \in 1 .. n
  BY FS_CardinalityType, PlacePositive DEF Listed
<1>2. /\ Listed(Q) /\ Cardinality(Q) = n - 1
      /\ \A q \in Q : Place(Q, q) = IF q.id < r.id THEN Place(R, q) ELSE Place(R, q) - 1
  BY EntriesWithout
<1>3. IsFiniteSet(S) /\ Cardinality(S) = n
  <2>1. e \notin Q /\ IsFiniteSet(Q)
    BY <1>2 DEF Listed
  <2> HIDE DEF Q
  <2>2. IsFiniteSet(S) /\ Cardinality(S) = Cardinality(Q) + 1
    BY <2>1, FS_AddElement
  <2> QED
    BY <1>1, <1>2, <2>2
<1>4. Listed(S)
  BY <1>3 DEF Listed
<1>5. ASSUME NEW q \in Q PROVE Place(S, q) = Place(R, q)
  <2>1. IsFiniteSet(UpTo(Q, q)) /\ Place(Q, q) = Cardinality(UpTo(Q, q))
    BY <1>2, PlaceBounds DEF Listed
  <2>2. Place(R, q) \in Nat
    BY PlaceBounds DEF Listed
  <2>3. CASE q.id < r.id
    <3>1. UpTo(S, q) = UpTo(Q, q)
      BY <2>3 DEF Listed, UpTo
    <3> QED
      BY <1>2, <2>1, <2>3, <3>1 DEF Place, UpTo
  <2>4. CASE ~(q.id < r.id)
    <3>1. UpTo(S, q) = UpTo(Q, q) \cup {e} /\ e \notin UpTo(Q, q)
      BY <2>4 DEF Listed, UpTo
    <3>2. Cardinality(UpTo(S, q)) = Cardinality(UpTo(Q, q)) + 1
      BY <2>1, <3>1, FS_AddElement
    <3>3. Place(S, q) = Place(Q, q) + 1
      BY <2>1, <3>2 DEF Place, UpTo
    <3>4. Place(Q, q) = Place(R, q) - 1
      BY <1>2, <2>4
    <3> HIDE DEF Q, S
    <3> QED
      BY <2>2, <3>3, <3>4
  <2> QED
    BY <2>3, <2>4
<1>6. Place(S, e) = i
  <2>1. /\ UpTo(S, e) = UpTo(Q, r) \cup {e} /\ e \notin UpTo(Q, r)
        /\ UpTo(R, r) = UpTo(Q, r) \cup {r} /\ r \notin UpTo(Q, r)
    BY DEF Listed, UpTo
  <2>2. IsFiniteSet(UpTo(Q, r))
    BY <1>2, PlaceBounds DEF Listed
  <2>3. Cardinality(UpTo(S, e)) = Cardinality(UpTo(Q, r)) + 1
    BY <2>1, <2>2, FS_AddElement
  <2>4. Cardinality(UpTo(R, r)) = Cardinality(UpTo(Q, r)) + 1
    BY <2>1, <2>2, FS_AddElement
  <2> QED
    BY <2>3, <2>4 DEF Place, UpTo
<1>7. /\ l \in Seq(Kinds) /\ Len(l) = n /\ DOMAIN l = 1 .. n
      /\ \A q \in R : Place(R, q) \in 1 .. n /\ l[Place(R, q)] = q.kind
  BY EntriesOf, PlacePositive
<1>8. \A q \in Q : Place(R, q) # i
  BY PlaceUnique
<1> HIDE DEF l, i, n
<1>9. /\ m \in Seq(Kinds) /\ Len(m) = n /\ m[i] = e.kind
      /\ \A k \in 1 .. n : k # i => m[k] = l[k]
  BY <1>1, <1>7
<1> HIDE DEF m
<1>10. \A q \in S : m[Place(S, q)] = q.kind
  BY <1>5, <1>6, <1>7, <1>8, <1>9
<1>11. ById(S) = m
  <2> HIDE DEF S
  <2> QED
    BY <1>3, <1>4, <1>9, <1>10, EntriesAre DEF n
<1> QED
  BY <1>4, <1>11 DEF S, m, l, i

-----------------------------------------------------------------------------
(* log() implements the ledger                                             *)

\* The table holds finitely many rows, told apart by their ids.
LEMMA TableListed ==
    ASSUME IInv, WholeInv, NEW R \in SUBSET rows
    PROVE  Listed(R)
<1> DEFINE f == [r \in rows |-> r.id]
<1>1. nextId \in Nat /\ \A r \in rows : r.id \in Nat /\ r.id < nextId /\ r.kind \in Kinds
  BY DEF IInv, Typed, TypeOK, RowShape
<1>2. \A r, q \in rows : r.id = q.id => r = q
  BY DEF WholeInv, UniqueIds
<1>3. f \in Injection(rows, 0 .. nextId)
  BY <1>1, <1>2 DEF Injection, IsInjective
<1>4. IsFiniteSet(0 .. nextId)
  BY <1>1, FS_Interval
<1>5. IsFiniteSet(rows)
  <2> HIDE DEF f
  <2> QED
    BY <1>3, <1>4, FS_Injection
<1>6. IsFiniteSet(R)
  BY <1>5, FS_Subset
<1> QED
  BY <1>1, <1>2, <1>6 DEF Listed

LEMMA RowsListed ==
    ASSUME IInv, WholeInv, NEW s
    PROVE  Listed(Of(rows, s))
<1>1. Of(rows, s) \in SUBSET rows
  BY DEF Of
<1> QED
  BY <1>1, TableListed

LEMMA LedgerInitially == Init => Ledger!Init
<1> SUFFICES ASSUME Init, NEW s \in Sessions
             PROVE  ById(Of(rows, s)) = IF s \in Legacy THEN <<"tool_call">> ELSE <<>>
  BY DEF Ledger!Init, Init
<1> DEFINE r(t) == Hashed(1, t, "tool_call", 0, EmptyHash)
<1>1. \A x \in OldRows : x.session \in Legacy /\ x = r(x.session)
  <2> SUFFICES ASSUME NEW t \in Legacy, NEW x, x = r(t)
               PROVE  x.session \in Legacy /\ x = r(x.session)
    BY DEF OldRows
  <2> QED
    BY DEF Hashed
<1>2. \A t \in Legacy : r(t) \in OldRows
  BY DEF OldRows
<1>3. \A t : r(t).id = 1 /\ r(t).kind = "tool_call" /\ r(t).session = t
  BY DEF Hashed
<1> HIDE DEF r
<1>4. CASE s \in Legacy
  <2>1. Of(rows, s) = {r(s)}
    BY <1>4, <1>1, <1>2, <1>3 DEF Init, Of
  <2>2. IsFiniteSet({r(s)}) /\ Cardinality({r(s)}) = 1
    BY FS_Singleton
  <2>3. Listed({r(s)})
    BY <1>3, <2>2 DEF Listed, Kinds
  <2>4. Place({r(s)}, r(s)) = 1
    BY <2>2, <2>3, PlacePositive
  <2>5. /\ <<"tool_call">> \in Seq(Kinds) /\ Len(<<"tool_call">>) = 1
        /\ <<"tool_call">>[1] = "tool_call"
    BY DEF Kinds
  <2>6. \A x \in {r(s)} : <<"tool_call">>[Place({r(s)}, x)] = x.kind
    BY <1>3, <2>4, <2>5
  <2>7. ById({r(s)}) = <<"tool_call">>
    BY <2>2, <2>3, <2>5, <2>6, EntriesAre
  <2> QED
    BY <1>4, <2>1, <2>7
<1>5. CASE s \notin Legacy
  <2>1. Of(rows, s) = {}
    BY <1>5, <1>1 DEF Init, Of
  <2>2. Cardinality({}) = 0
    BY FS_EmptySet
  <2> QED
    BY <1>5, <2>1, <2>2 DEF ById
<1> QED
  BY <1>4, <1>5

LEMMA CommitRecords ==
    ASSUME IInv, WholeInv, NEW w \in Writers, Commit(w)
    PROVE  Ledger!Next
<1> SUFFICES ASSUME NEW m, m = mine[w], NEW s, s = m.session, NEW k, k = m.kind,
                    NEW r, r = Hashed(m.id, m.session, m.kind, m.day, m.prev)
             PROVE  Ledger!Next
  OBVIOUS
<1>1. pc[w] = "commit" /\ rows' = rows \cup {r} /\ damage' = damage
  BY DEF Commit
<1>2. s \in Sessions /\ k \in Kinds /\ m.id \in Nat
  BY <1>1 DEF IInv, Typed, TypeOK, RowShape
<1>3. r.id = m.id /\ r.session = s /\ r.kind = k
  BY DEF Hashed
<1>4. ASSUME NEW q \in Of(rows, s) PROVE q.id < r.id
  <2>1. PICK e \in ever : Same(q, e)
    BY DEF IInv, OriginInv, Of
  <2>2. e \in Of(ever, s) /\ e.id = q.id
    BY <2>1 DEF Same, Of
  <2> QED
    BY <1>1, <1>3, <2>2 DEF WholeInv, NextInv
<1>5. ById(Of(rows', s)) = Append(ById(Of(rows, s)), k)
  <2>1. Of(rows', s) = Of(rows, s) \cup {r}
    BY <1>1, <1>3 DEF Of
  <2>2. Listed(Of(rows, s))
    BY RowsListed
  <2>3. r.id \in Nat /\ r.kind \in Kinds
    BY <1>2, <1>3
  <2>4. ById(Of(rows, s) \cup {r}) = Append(ById(Of(rows, s)), r.kind)
    BY <1>4, <2>2, <2>3, EntriesAppend
  <2> QED
    BY <1>3, <2>1, <2>4
<1>6. \A t \in Sessions \ {s} : Of(rows', t) = Of(rows, t)
  BY <1>1, <1>3 DEF Of
<1>7. Ledger!Record(s, k)
  BY <1>1, <1>2, <1>5, <1>6 DEF Ledger!Record, Ledger!OthersKept
<1> QED
  BY <1>2, <1>7 DEF Ledger!Next

LEMMA DamageIsSeen ==
    ASSUME IInv, WholeInv, NEW r \in rows, LoseRow(r) \/ EditRow(r)
    PROVE  Ledger!Next
<1> SUFFICES ASSUME NEW s, s = r.session, NEW R, R = Of(rows, s)
             PROVE  Ledger!Next
  OBVIOUS
<1>1. s \in Sessions /\ r \in R /\ RowShape(r)
  BY DEF IInv, Typed, TypeOK, Of
<1>2. Listed(R)
  BY RowsListed
<1>3. Place(R, r) \in DOMAIN ById(R)
  BY <1>1, <1>2, PlacePositive, EntriesOf
<1>4. damage' = damage + 1
  BY DEF LoseRow, EditRow
<1>5. CASE LoseRow(r)
  <2>1. Of(rows', s) = R \ {r} /\ \A t \in Sessions \ {s} : Of(rows', t) = Of(rows, t)
    BY <1>5 DEF LoseRow, Of
  <2>2. ById(Of(rows', s)) = Ledger!Without(ById(R), Place(R, r))
    BY <1>1, <1>2, <2>1, EntriesWithout
  <2>3. Ledger!Damage(s, Place(R, r))
    BY <1>1, <1>4, <2>1, <2>2 DEF Ledger!Damage, Ledger!OthersKept
  <2> QED
    BY <1>1, <1>3, <2>3 DEF Ledger!Next
<1>6. CASE EditRow(r)
  <2>1. PICK k \in Kinds \ {r.kind} : rows' = (rows \ {r}) \cup {[r EXCEPT !.kind = k]}
    BY <1>6 DEF EditRow
  <2> SUFFICES ASSUME NEW e, e = [r EXCEPT !.kind = k] PROVE Ledger!Next
    OBVIOUS
  <2>2. e.id = r.id /\ e.session = s /\ e.kind = k
    BY <1>1 DEF RowShape
  <2>3. e \notin R
    BY <1>1, <2>1, <2>2 DEF WholeInv, UniqueIds, Of
  <2>4. /\ Of(rows', s) = (R \ {r}) \cup {e}
        /\ \A t \in Sessions \ {s} : Of(rows', t) = Of(rows, t)
    BY <2>1, <2>2 DEF Of
  <2>5. ById(Of(rows', s)) = [ById(R) EXCEPT ![Place(R, r)] = k]
    <3>1. e.kind \in Kinds
      BY <2>2
    <3>2. ById((R \ {r}) \cup {e}) = [ById(R) EXCEPT ![Place(R, r)] = e.kind]
      BY <1>1, <1>2, <2>2, <2>3, <3>1, EntriesRewritten
    <3> QED
      BY <2>2, <2>4, <3>2
  <2>6. Ledger!Damage(s, Place(R, r))
    BY <1>1, <1>4, <2>1, <2>4, <2>5 DEF Ledger!Damage, Ledger!OthersKept
  <2> QED
    BY <1>1, <1>3, <2>6 DEF Ledger!Next
<1> QED
  BY <1>5, <1>6

\* Every step is one of the ledger's, or leaves the ledger as it is.
LEMMA LedgerStep ==
    ASSUME IInv, WholeInv, [Next]_vars
    PROVE  Ledger!Next \/ UNCHANGED <<rows, damage>>
<1>1. ASSUME NEW w \in Writers, AppendStep(w) \/ Fail(w)
      PROVE  Ledger!Next \/ UNCHANGED <<rows, damage>>
  BY <1>1, CommitRecords DEF AppendStep, TakeLock, ReadPrev, InsertRow, Fail, tableVars
<1>2. ASSUME NEW w \in Writers, NEW s \in Sessions, NEW k \in Kinds, Log(w, s, k)
      PROVE  UNCHANGED <<rows, damage>>
  BY <1>2 DEF Log, tableVars
<1>3. ASSUME NEW r \in rows, LoseRow(r) \/ EditRow(r)
      PROVE  Ledger!Next
  BY <1>3, DamageIsSeen
<1>4. ASSUME NEW v \in Verifiers, VerifyHead(v) \/ \E s \in Sessions : VerifyRows(v, s)
      PROVE  UNCHANGED <<rows, damage>>
  BY <1>4 DEF VerifyHead, VerifyRows, tableVars
<1>5. CASE UNCHANGED vars
  BY <1>5 DEF vars, tableVars
<1> QED
  BY <1>1, <1>2, <1>3, <1>4, <1>5 DEF Next, TableNext

\* log(): for any number of sessions, writers, failures and damaged rows, a session
\* grows by one entry at its end, and only by a call of log() that commits; nothing
\* else changes what a reader of the table sees but the damage.
THEOREM LogImplementsLedger == Spec => LedgerSpec
<1>1. Init => Ledger!Init
  BY LedgerInitially
<1>2. IInv /\ WholeInv /\ [Next]_vars =>
        [Ledger!Next]_<<[s \in Sessions |-> ById(Of(rows, s))], damage>>
  <2> SUFFICES ASSUME IInv, WholeInv, [Next]_vars, UNCHANGED <<rows, damage>>
               PROVE  UNCHANGED <<[s \in Sessions |-> ById(Of(rows, s))], damage>>
    BY LedgerStep
  <2> QED
    BY DEF Of
<1> QED
  BY <1>1, <1>2, Invariance, WholeSafety, PTL DEF Spec, LedgerSpec, Ledger!Spec

-----------------------------------------------------------------------------
(* The Merkle tree                                                         *)

\* A list: a function on 1 .. n, which is its length.
IsList(s) == Len(s) \in Nat /\ DOMAIN s = 1 .. Len(s) /\ s = [i \in 1 .. Len(s) |-> s[i]]

\* A list no two places of which hold the same.
Distinct(s) == IsList(s) /\ \A i, j \in 1 .. Len(s) : s[i] = s[j] => i = j

LEMMA ListOf ==
    ASSUME NEW n \in Nat, NEW s, s = [i \in 1 .. n |-> s[i]]
    PROVE  IsList(s) /\ Len(s) = n
<1> DEFINE T == {s[i] : i \in 1 .. n}
<1>1. s \in [1 .. n -> T]
  OBVIOUS
<1>2. s \in Seq(T)
  <2> HIDE DEF T
  <2> QED
    BY <1>1
<1>3. Len(s) \in Nat /\ DOMAIN s = 1 .. Len(s) /\ DOMAIN s = 1 .. n
  BY <1>1, <1>2, LenProperties
<1>4. Len(s) = n
  BY <1>3
<1> QED
  BY <1>3, <1>4 DEF IsList

LEMMA Half ==
    ASSUME NEW q \in Nat
    PROVE  /\ (q + 1) \div 2 \in Nat /\ q > 0 => 1 \in 1 .. (q + 1) \div 2
           /\ q > 1 => (q + 1) \div 2 > 0 /\ (q + 1) \div 2 <= q - 1
OBVIOUS

\* The lists of two lists of the same parents, when neither repeats a node, are one.
LEMMA ParentsList ==
    ASSUME NEW s, IsList(s)
    PROVE  /\ IsList(Parents(s)) /\ Len(Parents(s)) = (Len(s) + 1) \div 2
           /\ \A i \in 1 .. (Len(s) + 1) \div 2 :
                Parents(s)[i] = <<s[2 * i - 1], IF 2 * i <= Len(s) THEN s[2 * i] ELSE s[2 * i - 1]>>
<1> DEFINE n == (Len(s) + 1) \div 2
<1>1. n \in Nat
  BY DEF IsList
<1>2. Parents(s) = [i \in 1 .. n |-> <<s[2 * i - 1], IF 2 * i <= Len(s) THEN s[2 * i] ELSE s[2 * i - 1]>>]
  BY DEF Parents
<1> HIDE DEF n
<1>3. Parents(s) = [i \in 1 .. n |-> Parents(s)[i]]
  BY <1>2
<1>4. IsList(Parents(s)) /\ Len(Parents(s)) = n
  BY <1>1, <1>3, ListOf
<1> QED
  BY <1>2, <1>4 DEF n

LEMMA FirstParent ==
    ASSUME NEW s, IsList(s), Len(s) > 0
    PROVE  \E x, y : Parents(s)[1] = <<x, y>>
<1>1. 1 \in 1 .. (Len(s) + 1) \div 2
  BY Half DEF IsList
<1>2. Parents(s)[1] = <<s[2 * 1 - 1], IF 2 * 1 <= Len(s) THEN s[2 * 1] ELSE s[2 * 1 - 1]>>
  BY <1>1, ParentsList
<1> QED
  BY <1>2

LEMMA ParentsDistinct ==
    ASSUME NEW s, Distinct(s)
    PROVE  Distinct(Parents(s))
<1> DEFINE n == (Len(s) + 1) \div 2
<1>1. IsList(Parents(s)) /\ Len(Parents(s)) = n
  BY ParentsList DEF Distinct
<1>2. ASSUME NEW i \in 1 .. n, NEW j \in 1 .. n, Parents(s)[i] = Parents(s)[j]
      PROVE  i = j
  <2>1. Parents(s)[i][1] = s[2 * i - 1] /\ Parents(s)[j][1] = s[2 * j - 1]
    BY ParentsList DEF Distinct
  <2>2. Len(s) \in Nat
    BY DEF Distinct, IsList
  <2>3. 2 * i - 1 \in 1 .. Len(s) /\ 2 * j - 1 \in 1 .. Len(s)
    BY <2>2
  <2>4. 2 * i - 1 = 2 * j - 1
    BY <1>2, <2>1, <2>3 DEF Distinct
  <2> QED
    BY <2>4
<1> QED
  BY <1>1, <1>2 DEF Distinct

LEMMA ParentsInjective ==
    ASSUME NEW s, NEW t, Distinct(s), Distinct(t), Parents(s) = Parents(t)
    PROVE  s = t
<1> DEFINE m == Len(s)
           n == Len(t)
           h == (m + 1) \div 2
<1>1. m \in Nat /\ n \in Nat
  BY DEF Distinct, IsList
<1>2. h = (n + 1) \div 2
  BY ParentsList DEF Distinct
<1>3. \A i \in 1 .. h : /\ s[2 * i - 1] = t[2 * i - 1]
                        /\ (IF 2 * i <= m THEN s[2 * i] ELSE s[2 * i - 1])
                              = (IF 2 * i <= n THEN t[2 * i] ELSE t[2 * i - 1])
  <2> SUFFICES ASSUME NEW i \in 1 .. h
               PROVE  /\ s[2 * i - 1] = t[2 * i - 1]
                      /\ (IF 2 * i <= m THEN s[2 * i] ELSE s[2 * i - 1])
                            = (IF 2 * i <= n THEN t[2 * i] ELSE t[2 * i - 1])
    OBVIOUS
  <2>1. Parents(s)[i] = <<s[2 * i - 1], IF 2 * i <= m THEN s[2 * i] ELSE s[2 * i - 1]>>
    BY ParentsList DEF Distinct
  <2>2. Parents(t)[i] = <<t[2 * i - 1], IF 2 * i <= n THEN t[2 * i] ELSE t[2 * i - 1]>>
    BY <1>2, ParentsList DEF Distinct
  <2> QED
    BY <2>1, <2>2
<1>4. m = n
  <2>1. CASE m < n
    <3>1. /\ 2 * h = n /\ h \in 1 .. h /\ n - 1 \in 1 .. n /\ n \in 1 .. n
          /\ 2 * h - 1 = n - 1 /\ ~(2 * h <= m) /\ n - 1 \in 1 .. m
      BY <1>1, <1>2, <2>1
    <3>2. s[n - 1] = t[n - 1] /\ s[n - 1] = t[n]
      <4> HIDE DEF h
      <4>1. /\ s[2 * h - 1] = t[2 * h - 1]
            /\ (IF 2 * h <= m THEN s[2 * h] ELSE s[2 * h - 1])
                  = (IF 2 * h <= n THEN t[2 * h] ELSE t[2 * h - 1])
        BY <1>3, <3>1
      <4>2. 2 * h <= n
        BY <1>1, <3>1
      <4> QED
        BY <3>1, <4>1, <4>2
    <3>3. n - 1 = n
      BY <3>1, <3>2 DEF Distinct
    <3> QED
      BY <1>1, <3>3
  <2>2. CASE n < m
    <3>1. /\ 2 * h = m /\ h \in 1 .. h /\ m - 1 \in 1 .. m /\ m \in 1 .. m
          /\ 2 * h - 1 = m - 1 /\ ~(2 * h <= n) /\ 2 * h <= m
      BY <1>1, <1>2, <2>2
    <3>2. s[m - 1] = t[m - 1] /\ s[m] = t[m - 1]
      BY <1>3, <3>1
    <3>3. m - 1 = m
      BY <3>1, <3>2 DEF Distinct
    <3> QED
      BY <1>1, <3>3
  <2> QED
    BY <1>1, <2>1, <2>2
<1>5. ASSUME NEW k \in 1 .. m
      PROVE  s[k] = t[k]
  <2> DEFINE i == (k + 1) \div 2
  <2>1. i \in 1 .. h /\ (k = 2 * i - 1 \/ k = 2 * i)
    BY <1>1
  <2> QED
    BY <1>3, <1>4, <2>1
<1> QED
  BY <1>4, <1>5 DEF Distinct, IsList

\* The levels of the tree: the first is the leaves, and each is made of the one before.
LEMMA LevelsAre ==
    ASSUME NEW leaves, NEW len \in Nat, len = Len(leaves)
    PROVE  /\ Levels(leaves)[0] = leaves
           /\ \A n \in 1 .. len :
                Levels(leaves)[n] = IF Len(Levels(leaves)[n - 1]) > 1 THEN Parents(Levels(leaves)[n - 1])
                                    ELSE Levels(leaves)[n - 1]
<1> DEFINE Up(g) == IF Len(g) > 1 THEN Parents(g) ELSE g
           Next1(g, n) == IF n = 0 THEN leaves
                         ELSE IF Len(g[n - 1]) > 1 THEN Parents(g[n - 1]) ELSE g[n - 1]
           Tower(m) == \E g : g = [n \in 0 .. m |-> Next1(g, n)]
           Good == {m \in Nat : Tower(m)}
<1>1. Tower(0)
  <2> DEFINE g == [n \in 0 .. 0 |-> leaves]
  <2>1. g = [n \in 0 .. 0 |-> Next1(g, n)]
    OBVIOUS
  <2> QED
    BY <2>1
<1>2. ASSUME NEW m \in Nat, Tower(m)
      PROVE  Tower(m + 1)
  <2>1. PICK g : g = [n \in 0 .. m |-> Next1(g, n)]
    BY <1>2
  <2> DEFINE h == [n \in 0 .. m + 1 |-> IF n = m + 1 THEN Up(g[m]) ELSE g[n]]
             hh == [n \in 0 .. m + 1 |-> Next1(h, n)]
  <2>2. ASSUME NEW n \in 0 .. m + 1
        PROVE  h[n] = Next1(h, n)
    <3> HIDE DEF Up
    <3>1. CASE n = m + 1
      <4>1. h[n] = Up(g[m]) /\ h[n - 1] = g[m] /\ n # 0
        BY <3>1
      <4> HIDE DEF h
      <4> QED
        BY <4>1 DEF Up
    <3>2. CASE n \in 0 .. m
      <4>1. h[n] = g[n] /\ n # m + 1
        BY <3>2
      <4>2. n # 0 => h[n - 1] = g[n - 1]
        BY <3>2
      <4>3. g[n] = Next1(g, n)
        BY <2>1, <3>2
      <4> HIDE DEF h
      <4> QED
        BY <4>1, <4>2, <4>3
    <3> QED
      BY <3>1, <3>2
  <2>3. h = hh
    <3> HIDE DEF Next1
    <3> QED
      BY <2>2
  <2> QED
    BY <2>3
<1>3. Tower(len)
  <2> HIDE DEF Tower
  <2>1. 0 \in Good /\ \A m \in Good : m + 1 \in Good
    BY <1>1, <1>2
  <2>2. Good = Nat
    <3> HIDE DEF Good
    <3>1. Good \subseteq Nat
      BY DEF Good
    <3> QED
      BY <2>1, <3>1, SessionFold!Induction
  <2> QED
    BY <2>2
<1> DEFINE L == CHOOSE g : g = [n \in 0 .. len |-> Next1(g, n)]
<1>4. L = [n \in 0 .. len |-> Next1(L, n)]
  BY <1>3
<1>5. Levels(leaves) = L
  BY Zenon DEF Levels
<1> HIDE DEF L
<1>6. \A n \in 0 .. len : L[n] = Next1(L, n)
  BY <1>4
<1>7. 0 \in 0 .. len /\ \A n \in 1 .. len : n \in 0 .. len /\ n # 0
  OBVIOUS
<1> QED
  BY <1>5, <1>6, <1>7

\* Leaves: hashes of rows, five fields each, no two the same.
LeafList(s) == Distinct(s) /\ \A i \in 1 .. Len(s) : DOMAIN s[i] = 1 .. 5

\* Every level is a list of different nodes, shorter than the one before until one is left.
LEMMA LevelsShrink ==
    ASSUME NEW s, Distinct(s), Len(s) > 0
    PROVE  \A n \in 0 .. Len(s) :
              /\ Distinct(Levels(s)[n]) /\ Len(Levels(s)[n]) > 0
              /\ Len(Levels(s)[n]) = 1 \/ Len(Levels(s)[n]) <= Len(s) - n
<1> DEFINE len == Len(s)
           L == Levels(s)
           Fine(n) == /\ Distinct(L[n]) /\ Len(L[n]) > 0
                      /\ Len(L[n]) = 1 \/ Len(L[n]) <= len - n
           Good == {n \in Nat : n <= len => Fine(n)}
<1>1. len \in Nat
  BY DEF Distinct, IsList
<1>2. /\ L[0] = s
      /\ \A n \in 1 .. len : L[n] = IF Len(L[n - 1]) > 1 THEN Parents(L[n - 1]) ELSE L[n - 1]
  BY <1>1, LevelsAre
<1> HIDE DEF L, len
<1>3. Fine(0)
  BY <1>1, <1>2 DEF len
<1>4. ASSUME NEW n \in Nat, n + 1 <= len, Fine(n)
      PROVE  Fine(n + 1)
  <2>1. n + 1 \in 1 .. len /\ (n + 1) - 1 = n
    BY <1>1, <1>4
  <2>2. L[n + 1] = IF Len(L[n]) > 1 THEN Parents(L[n]) ELSE L[n]
    BY <1>2, <2>1
  <2>3. Len(L[n]) \in Nat
    BY <1>4 DEF Distinct, IsList
  <2>4. CASE Len(L[n]) > 1
    <3>1. L[n + 1] = Parents(L[n])
      BY <2>2, <2>4
    <3>2. Distinct(L[n]) /\ IsList(L[n])
      BY <1>4 DEF Distinct
    <3>3. Distinct(L[n + 1])
      BY <3>1, <3>2, ParentsDistinct
    <3>4. Len(L[n + 1]) = (Len(L[n]) + 1) \div 2
      BY <3>1, <3>2, ParentsList
    <3> DEFINE p == Len(L[n + 1])
               q == Len(L[n])
    <3>5. q \in Nat /\ q > 1 /\ p = (q + 1) \div 2 /\ (q = 1 \/ q <= len - n)
      BY <1>4, <2>3, <2>4, <3>4
    <3> HIDE DEF p, q
    <3>6. p > 0 /\ p \in Nat /\ p <= q - 1
      BY <3>5, Half
    <3>7. p > 0 /\ p <= len - (n + 1)
      BY <1>1, <3>5, <3>6
    <3> QED
      BY <3>3, <3>7 DEF p
  <2>5. CASE ~(Len(L[n]) > 1)
    <3>1. L[n + 1] = L[n]
      BY <2>2, <2>5
    <3> DEFINE q == Len(L[n])
    <3>2. q \in Nat /\ q > 0 /\ ~(q > 1)
      BY <1>4, <2>3, <2>5
    <3> HIDE DEF q
    <3>3. q = 1
      BY <3>2
    <3>4. Len(L[n]) = 1
      BY <3>3 DEF q
    <3> QED
      BY <1>4, <3>1, <3>4
  <2> QED
    BY <2>4, <2>5
<1>5. Good = Nat
  <2> HIDE DEF Fine
  <2>1. 0 \in Good /\ Good \subseteq Nat
    BY <1>3
  <2>2. \A n \in Good : n + 1 \in Good
    BY <1>1, <1>4
  <2> HIDE DEF Good
  <2> QED
    BY <2>1, <2>2, SessionFold!Induction
<1> QED
  BY <1>1, <1>5 DEF L, len

\* The first level of one node; below it every node has two children.
LEMMA TopOfTree ==
    ASSUME NEW s, Distinct(s), Len(s) > 0
    PROVE  \E a \in 0 .. Len(s) :
              /\ Levels(s)[a] = <<MerkleRoot(s)>>
              /\ \A n \in 1 .. a : Levels(s)[n] = Parents(Levels(s)[n - 1])
<1> DEFINE len == Len(s)
           L == Levels(s)
<1>1. len \in Nat /\ len > 0
  BY DEF Distinct, IsList
<1> DEFINE size == [n \in 0 .. len |-> Len(L[n])]
<1>2. /\ \A n \in 0 .. len : size[n] \in Nat /\ size[n] > 0 /\ (size[n] = 1 \/ size[n] <= len - n)
      /\ \A n \in 0 .. len : IsList(L[n]) /\ Len(L[n]) = size[n]
  BY LevelsShrink DEF Distinct, IsList
<1>3. \A n \in 1 .. len : L[n] = IF Len(L[n - 1]) > 1 THEN Parents(L[n - 1]) ELSE L[n - 1]
  BY <1>1, LevelsAre
<1>4. MerkleRoot(s) = L[len][1]
  <2>1. s # <<>>
    BY <1>1
  <2> QED
    BY <2>1 DEF MerkleRoot
<1> HIDE DEF L, len, size
<1> DEFINE T == {n \in 0 .. len : size[n] = 1}
<1>5. len \in T
  <2>1. len \in 0 .. len /\ len - len = 0
    BY <1>1
  <2> QED
    BY <1>2, <2>1
<1>6. PICK a \in T : \A n \in T : a <= n
  <2>1. T \subseteq Nat /\ T # {}
    BY <1>1, <1>5
  <2> HIDE DEF T
  <2> QED
    BY <2>1, SessionFold!Least
<1>7. ASSUME NEW n \in 1 .. a
      PROVE  L[n] = Parents(L[n - 1])
  <2>1. a \in 0 .. len /\ n \in 1 .. len /\ n - 1 \in 0 .. len /\ ~(a <= n - 1)
    BY <1>1
  <2> DEFINE m == n - 1
  <2>2. m \in 0 .. len /\ ~(a <= m)
    BY <2>1
  <2>3. L[n] = IF Len(L[m]) > 1 THEN Parents(L[m]) ELSE L[m]
    BY <1>3, <2>1
  <2> HIDE DEF m
  <2>4. m \notin T
    BY <1>6, <2>2
  <2>5. size[m] > 1
    BY <1>2, <2>2, <2>4
  <2>6. Len(L[m]) > 1
    BY <1>2, <2>2, <2>5
  <2>7. L[n] = Parents(L[m])
    BY <2>3, <2>6
  <2> QED
    BY <2>7 DEF m
<1>8. L[len] = L[a]
  <2> DEFINE Good == {k \in Nat : a + k <= len => L[a + k] = L[a]}
  <2>a. a \in Nat /\ a <= len /\ a \in 0 .. len /\ size[a] = 1
    BY <1>1
  <2>0. a \in Nat /\ a <= len /\ Len(L[a]) = 1
    BY <1>2, <2>a
  <2>1. 0 \in Good /\ Good \subseteq Nat
    BY <2>0
  <2>2. ASSUME NEW k \in Good PROVE k + 1 \in Good
    <3> SUFFICES ASSUME a + (k + 1) <= len PROVE L[a + (k + 1)] = L[a]
      OBVIOUS
    <3>1. k \in Nat /\ a + (k + 1) \in 1 .. len /\ (a + (k + 1)) - 1 = a + k /\ a + k <= len
      BY <1>1, <2>0
    <3>2. L[a + k] = L[a]
      BY <3>1
    <3> DEFINE i == a + (k + 1)
    <3>3. i \in 1 .. len /\ i - 1 = a + k
      BY <3>1
    <3> HIDE DEF i
    <3>4. L[i] = IF Len(L[i - 1]) > 1 THEN Parents(L[i - 1]) ELSE L[i - 1]
      BY <1>3, <3>3
    <3>5. L[i - 1] = L[a] /\ ~(Len(L[a]) > 1)
      BY <2>0, <3>2, <3>3
    <3>6. L[i] = L[a]
      BY <3>4, <3>5
    <3> QED
      BY <3>6 DEF i
  <2>3. Good = Nat
    <3> HIDE DEF Good
    <3> QED
      BY <2>1, <2>2, SessionFold!Induction
  <2>4. len - a \in Nat /\ a + (len - a) = len /\ len <= len
    BY <1>1, <2>0
  <2>5. len - a \in Good
    <3> HIDE DEF Good
    <3> QED
      BY <2>3, <2>4
  <2>6. L[a + (len - a)] = L[a]
    BY <2>4, <2>5
  <2> QED
    BY <2>4, <2>6
<1>9. L[a] = <<MerkleRoot(s)>>
  <2>0. a \in 0 .. len /\ size[a] = 1
    OBVIOUS
  <2>1. Len(L[a]) = 1 /\ IsList(L[a])
    BY <1>2, <2>0
  <2>2. L[a] = [i \in 1 .. 1 |-> L[a][i]]
    BY <2>1 DEF IsList
  <2>3. L[a] = <<L[a][1]>>
    BY <2>2
  <2> QED
    BY <1>4, <1>8, <2>3
<1> QED
  BY <1>7, <1>9, <1>1 DEF L, len

\* A leaf, a node with two children and the root of no leaves are different things.
LEMMA RootShape ==
    ASSUME NEW s, LeafList(s)
    PROVE  MerkleRoot(s) = EmptyRoot <=> Len(s) = 0
<1>1. CASE Len(s) = 0
  <2>1. s = <<>>
    BY <1>1 DEF LeafList, Distinct, IsList
  <2> QED
    BY <1>1, <2>1 DEF MerkleRoot
<1>2. CASE Len(s) # 0
  <2>1. Len(s) \in Nat /\ Len(s) > 0
    BY <1>2 DEF LeafList, Distinct, IsList
  <2>2. PICK a \in 0 .. Len(s) : /\ Levels(s)[a] = <<MerkleRoot(s)>>
                                 /\ \A n \in 1 .. a : Levels(s)[n] = Parents(Levels(s)[n - 1])
    BY <2>1, TopOfTree DEF LeafList
  <2>3. Levels(s)[a][1] = MerkleRoot(s)
    BY <2>2
  <2>4. CASE a = 0
    <3>0. Levels(s)[0] = s /\ 1 \in 1 .. Len(s)
      BY <2>1, LevelsAre
    <3>1. DOMAIN MerkleRoot(s) = 1 .. 5
      BY <2>3, <2>4, <3>0 DEF LeafList
    <3>2. DOMAIN EmptyRoot = 1 .. 1 /\ 5 \in 1 .. 5 /\ 5 \notin 1 .. 1
      BY DEF EmptyRoot
    <3> QED
      BY <1>2, <3>1, <3>2
  <2>5. CASE a # 0
    <3>1. a \in 1 .. a /\ a - 1 \in 0 .. Len(s)
      BY <2>1, <2>5
    <3>2. /\ Levels(s)[a] = Parents(Levels(s)[a - 1]) /\ Distinct(Levels(s)[a - 1])
          /\ Len(Levels(s)[a - 1]) > 0
      BY <2>1, <2>2, <3>1, LevelsShrink DEF LeafList
    <3> DEFINE P == Levels(s)[a - 1]
    <3>3. Parents(P)[1] = MerkleRoot(s) /\ IsList(P) /\ Len(P) > 0
      BY <2>3, <3>2 DEF Distinct
    <3> HIDE DEF P
    <3>4. \E x, y : MerkleRoot(s) = <<x, y>>
      BY <3>3, FirstParent
    <3>5. /\ DOMAIN MerkleRoot(s) = 1 .. 2 /\ 2 \in 1 .. 2 /\ 2 \notin 1 .. 1
          /\ DOMAIN EmptyRoot = 1 .. 1
      BY <3>4 DEF EmptyRoot
    <3> QED
      BY <1>2, <3>5
  <2> QED
    BY <2>4, <2>5
<1> QED
  BY <1>1, <1>2

\* Equal roots: the taller tree of two would have a node with children where the
\* other has a leaf, so the levels agree from the top down to the leaves.
LEMMA SameTops ==
    ASSUME NEW s, NEW t, LeafList(s), LeafList(t), Len(s) > 0, Len(t) > 0,
           NEW a \in 0 .. Len(s), NEW b \in 0 .. Len(t), a <= b,
           Levels(s)[a] = Levels(t)[b],
           \A n \in 1 .. a : Levels(s)[n] = Parents(Levels(s)[n - 1]),
           \A n \in 1 .. b : Levels(t)[n] = Parents(Levels(t)[n - 1])
    PROVE  s = t
<1> DEFINE K == Levels(s)
           L == Levels(t)
           Good == {k \in Nat : k <= a => K[a - k] = L[b - k]}
<1>1. Len(s) \in Nat /\ Len(t) \in Nat
  BY DEF LeafList, Distinct, IsList
<1>2. /\ \A n \in 0 .. Len(s) : Distinct(K[n])
      /\ \A n \in 0 .. Len(t) : Distinct(L[n]) /\ Len(L[n]) > 0
  BY LevelsShrink DEF LeafList
<1>3. K[0] = s /\ L[0] = t
  BY <1>1, LevelsAre
<1> HIDE DEF K, L
<1>4. 0 \in Good /\ Good \subseteq Nat
  BY <1>1 DEF K, L
<1>5. ASSUME NEW k \in Good PROVE k + 1 \in Good
  <2> SUFFICES ASSUME k + 1 <= a PROVE K[a - (k + 1)] = L[b - (k + 1)]
    OBVIOUS
  <2>1. /\ k \in Nat /\ a - k \in 1 .. a /\ b - k \in 1 .. b
        /\ (a - k) - 1 = a - (k + 1) /\ (b - k) - 1 = b - (k + 1)
        /\ a - (k + 1) \in 0 .. Len(s) /\ b - (k + 1) \in 0 .. Len(t)
    BY <1>1
  <2>2. K[a - k] = L[b - k]
    BY <1>1, <2>1
  <2>3. K[a - k] = Parents(K[a - (k + 1)]) /\ L[b - k] = Parents(L[b - (k + 1)])
    BY <2>1 DEF K, L
  <2>4. Distinct(K[a - (k + 1)]) /\ Distinct(L[b - (k + 1)])
    BY <1>2, <2>1
  <2>5. Parents(K[a - (k + 1)]) = Parents(L[b - (k + 1)])
    BY <2>2, <2>3
  <2> QED
    BY <2>4, <2>5, ParentsInjective
<1>6. Good = Nat
  <2> HIDE DEF Good
  <2> QED
    BY <1>4, <1>5, SessionFold!Induction
<1>7. s = L[b - a]
  <2>1. a \in Nat /\ a - a = 0 /\ a <= a
    BY <1>1
  <2>2. a \in Good
    <3> HIDE DEF Good
    <3> QED
      BY <1>6, <2>1
  <2>3. K[a - a] = L[b - a]
    BY <2>1, <2>2
  <2> QED
    BY <1>3, <2>1, <2>3
<1>8. CASE b = a
  BY <1>3, <1>7, <1>8
<1>9. CASE b # a
  <2>1. b - a \in 1 .. b /\ (b - a) - 1 \in 0 .. Len(t)
    BY <1>1, <1>9
  <2> DEFINE P == L[(b - a) - 1]
  <2>2. s = Parents(P) /\ Distinct(P) /\ Len(P) > 0
    BY <1>2, <1>7, <2>1 DEF L
  <2> HIDE DEF P
  <2>4. \E x, y : s[1] = <<x, y>>
    BY <2>2, FirstParent DEF Distinct
  <2>5. DOMAIN s[1] = 1 .. 5 /\ 5 \in 1 .. 5 /\ 5 \notin 1 .. 2
    BY <1>1 DEF LeafList
  <2>6. DOMAIN s[1] = 1 .. 2
    BY <2>4
  <2> QED
    BY <2>5, <2>6
<1> QED
  BY <1>8, <1>9

\* Lists of different row hashes have different roots.
LEMMA MerkleInjective ==
    ASSUME NEW s, NEW t, LeafList(s), LeafList(t), MerkleRoot(s) = MerkleRoot(t)
    PROVE  s = t
<1>1. Len(s) \in Nat /\ Len(t) \in Nat
  BY DEF LeafList, Distinct, IsList
<1>2. CASE Len(s) = 0
  <2>1. Len(t) = 0
    BY <1>2, RootShape
  <2> QED
    BY <1>2, <2>1 DEF LeafList, Distinct, IsList
<1>3. CASE Len(s) # 0
  <2>1. Len(t) # 0
    BY <1>3, RootShape
  <2>2. Len(s) > 0 /\ Len(t) > 0
    BY <1>1, <1>3, <2>1
  <2>3. PICK a \in 0 .. Len(s) : /\ Levels(s)[a] = <<MerkleRoot(s)>>
                                 /\ \A n \in 1 .. a : Levels(s)[n] = Parents(Levels(s)[n - 1])
    BY <2>2, TopOfTree DEF LeafList
  <2>4. PICK b \in 0 .. Len(t) : /\ Levels(t)[b] = <<MerkleRoot(t)>>
                                 /\ \A n \in 1 .. b : Levels(t)[n] = Parents(Levels(t)[n - 1])
    BY <2>2, TopOfTree DEF LeafList
  <2>5. Levels(s)[a] = Levels(t)[b] /\ (a <= b \/ b <= a)
    BY <1>1, <2>3, <2>4
  <2>6. CASE a <= b
    BY <2>2, <2>3, <2>4, <2>5, <2>6, SameTops
  <2>7. CASE b <= a
    BY <2>2, <2>3, <2>4, <2>5, <2>7, SameTops
  <2> QED
    BY <2>5, <2>6, <2>7
<1> QED
  BY <1>2, <1>3

-----------------------------------------------------------------------------
(* The rows of a day and their sessions                                    *)

LEMMA InOrderLists ==
    ASSUME NEW R, Listed(R)
    PROVE  /\ IsList(InOrder(R)) /\ Len(InOrder(R)) = Cardinality(R)
           /\ \A i \in 1 .. Cardinality(R) : InOrder(R)[i] \in R
           /\ \A i, j \in 1 .. Cardinality(R) : InOrder(R)[i] = InOrder(R)[j] => i = j
           /\ \A r \in R : \E i \in 1 .. Cardinality(R) : InOrder(R)[i] = r
<1> DEFINE n == Cardinality(R)
           At(i) == CHOOSE r \in R : Place(R, r) = i
<1>1. n \in Nat
  BY FS_CardinalityType DEF Listed
<1>2. \A i \in 1 .. n : At(i) \in R /\ Place(R, At(i)) = i
  BY PlaceTaken
<1> HIDE DEF At
<1>3. InOrder(R) = [i \in 1 .. n |-> At(i)]
  BY DEF InOrder, At
<1>4. ASSUME NEW r \in R PROVE Place(R, r) \in 1 .. n /\ At(Place(R, r)) = r
  <2>1. Place(R, r) \in 1 .. n
    BY PlacePositive
  <2> QED
    BY <1>2, <2>1, PlaceUnique
<1> HIDE DEF n
<1>5. InOrder(R) = [i \in 1 .. n |-> InOrder(R)[i]]
  BY <1>3
<1>6. IsList(InOrder(R)) /\ Len(InOrder(R)) = n
  BY <1>1, <1>5, ListOf
<1>7. \A i \in 1 .. n : InOrder(R)[i] = At(i)
  BY <1>3
<1>8. \A i, j \in 1 .. n : At(i) = At(j) => i = j
  <2> SUFFICES ASSUME NEW i \in 1 .. n, NEW j \in 1 .. n, At(i) = At(j) PROVE i = j
    OBVIOUS
  <2>1. Place(R, At(i)) = i /\ Place(R, At(j)) = j
    BY <1>2
  <2> QED
    BY <2>1
<1>9. \A r \in R : \E i \in 1 .. n : At(i) = r
  BY <1>4
<1> QED
  BY <1>2, <1>6, <1>7, <1>8, <1>9 DEF n

LEMMA AppendList ==
    ASSUME NEW s, IsList(s), NEW x
    PROVE  /\ IsList(Append(s, x)) /\ Len(Append(s, x)) = Len(s) + 1
           /\ \A i \in 1 .. Len(s) : Append(s, x)[i] = s[i]
           /\ Append(s, x)[Len(s) + 1] = x
<1> DEFINE T == {s[i] : i \in 1 .. Len(s)} \cup {x}
           n == Len(s)
<1>1. n \in Nat /\ s = [i \in 1 .. n |-> s[i]]
  BY DEF IsList
<1>2. s \in [1 .. n -> T]
  BY <1>1
<1>3. s \in Seq(T) /\ x \in T
  BY <1>1, <1>2
<1> HIDE DEF T, n
<1>4. /\ Append(s, x) \in Seq(T) /\ Len(Append(s, x)) = n + 1
      /\ \A i \in 1 .. n : Append(s, x)[i] = s[i]
      /\ Append(s, x)[n + 1] = x
  BY <1>3, AppendProperties DEF n
<1>5. /\ DOMAIN Append(s, x) = 1 .. Len(Append(s, x)) /\ Len(Append(s, x)) \in Nat
      /\ Append(s, x) \in [1 .. Len(Append(s, x)) -> T]
  BY <1>4, LenProperties
<1>6. IsList(Append(s, x))
  BY <1>5 DEF IsList
<1> QED
  BY <1>4, <1>6 DEF n

LEMMA ContainsIs ==
    ASSUME NEW s, IsList(s), NEW e
    PROVE  Contains(s, e) <=> e \in ToSet(s)
BY DEF Contains, ToSet, IsList

LEMMA AppendSet ==
    ASSUME NEW s, IsList(s), NEW x
    PROVE  ToSet(Append(s, x)) = ToSet(s) \cup {x}
<1>1. Len(s) \in Nat /\ DOMAIN s = 1 .. Len(s) /\ DOMAIN Append(s, x) = 1 .. Len(s) + 1
  BY AppendList DEF IsList
<1>2. ASSUME NEW y \in ToSet(Append(s, x)) PROVE y \in ToSet(s) \cup {x}
  <2>1. PICK i \in 1 .. Len(s) + 1 : y = Append(s, x)[i]
    BY <1>1 DEF ToSet
  <2>2. CASE i = Len(s) + 1
    BY <2>1, <2>2, AppendList
  <2>3. CASE i \in 1 .. Len(s)
    <3>1. y = s[i]
      BY <2>1, <2>3, AppendList
    <3> QED
      BY <1>1, <2>3, <3>1 DEF ToSet
  <2> QED
    BY <1>1, <2>2, <2>3
<1>3. ASSUME NEW y \in ToSet(s) PROVE y \in ToSet(Append(s, x))
  <2>1. PICK i \in 1 .. Len(s) : y = s[i]
    BY <1>1 DEF ToSet
  <2>2. y = Append(s, x)[i] /\ i \in 1 .. Len(s) + 1
    BY <1>1, <2>1, AppendList
  <2> QED
    BY <1>1, <2>2 DEF ToSet
<1>4. x \in ToSet(Append(s, x))
  <2>1. x = Append(s, x)[Len(s) + 1] /\ Len(s) + 1 \in 1 .. Len(s) + 1
    BY <1>1, AppendList
  <2> QED
    BY <1>1, <2>1 DEF ToSet
<1> QED
  BY <1>2, <1>3, <1>4

\* _sessions_on: the sessions of the rows, none of them left out.
LEMMA SessionsOf ==
    ASSUME NEW q, IsList(q)
    PROVE  LET todo == FoldLeft(AddSession, <<>>, q)
           IN  IsList(todo) /\ ToSet(todo) = {q[i].session : i \in 1 .. Len(q)}
<1> DEFINE n == Len(q)
           Sess(k) == {q[i].session : i \in 1 .. k}
<1>1. n \in Nat /\ DOMAIN q = 1 .. n
  BY DEF IsList
<1>2. PICK f : /\ f[0] = <<>> /\ f[n] = FoldLeft(AddSession, <<>>, q)
               /\ \A k \in 1 .. n : f[k] = AddSession(f[k - 1], q[k])
  <2> HIDE DEF n
  <2>1. FoldLeft(AddSession, <<>>, q) = SessionFold!FoldLeft(AddSession, <<>>, q)
    BY Zenon DEF FoldLeft, SessionFold!FoldLeft, MapThenFoldSet, SessionFold!MapThenFoldSet, Max,
                 SessionFold!Max
  <2>2. \E f : /\ f = [k \in 0 .. n |-> f[k]]
               /\ f[0] = <<>> /\ f[n] = SessionFold!FoldLeft(AddSession, <<>>, q)
               /\ \A k \in 1 .. n : f[k] = AddSession(f[k - 1], q[k])
    BY <1>1, SessionFold!FoldSteps
  <2> QED
    BY <2>1, <2>2, Zenon
<1> DEFINE Fine(k) == IsList(f[k]) /\ ToSet(f[k]) = Sess(k)
           Good == {k \in Nat : k <= n => Fine(k)}
<1>3. Fine(0)
  <2>1. IsList(<<>>) /\ ToSet(<<>>) = {}
    BY DEF IsList, ToSet
  <2> QED
    BY <1>2, <2>1
<1>4. ASSUME NEW k \in Nat, k + 1 <= n, Fine(k)
      PROVE  Fine(k + 1)
  <2>1. k + 1 \in 1 .. n /\ (k + 1) - 1 = k
    BY <1>1, <1>4
  <2>2. f[k + 1] = AddSession(f[k], q[k + 1])
    BY <1>2, <2>1
  <2>3. Sess(k + 1) = Sess(k) \cup {q[k + 1].session}
    OBVIOUS
  <2> DEFINE g == f[k]
             h == f[k + 1]
             x == q[k + 1].session
  <2>4. IsList(g) /\ ToSet(g) = Sess(k) /\ h = IF Contains(g, x) THEN g ELSE Append(g, x)
    BY <1>4, <2>2 DEF AddSession
  <2> HIDE DEF g, h, x, Sess
  <2>5. IsList(h) /\ ToSet(h) = ToSet(g) \cup {x}
    <3>1. CASE Contains(g, x)
      BY <2>4, <3>1, ContainsIs
    <3>2. CASE ~Contains(g, x)
      BY <2>4, <3>2, AppendSet, AppendList
    <3> QED
      BY <3>1, <3>2
  <2> QED
    BY <2>3, <2>4, <2>5 DEF h, x
<1>5. Good = Nat
  <2> HIDE DEF Fine
  <2>1. 0 \in Good /\ Good \subseteq Nat
    BY <1>3
  <2>2. \A k \in Good : k + 1 \in Good
    BY <1>1, <1>4
  <2> HIDE DEF Good
  <2> QED
    BY <2>1, <2>2, SessionFold!Induction
<1>6. Fine(n)
  <2> HIDE DEF Fine
  <2> QED
    BY <1>1, <1>5
<1> QED
  BY <1>2, <1>6

-----------------------------------------------------------------------------
(* The inductive invariant of the anchors                                  *)

\* An anchor and the store it was computed from: the root is that of its leaves, and a
\* settled one still is that of its day, to which no writer will add, until damage is done.
AnchorOk(a) ==
    /\ a.day \in Nat /\ LeafList(a.leaves) /\ a.root = MerkleRoot(a.leaves)
    /\ a.settled /\ damage = 0 =>
          /\ a.day < today
          /\ \A w \in Writers : pc[w] = "idle" \/ mine[w].day # a.day
          /\ a.leaves = Leaves(DateRows(a.day))

StoreInv ==
    /\ IsList(anchors)
    /\ \A a \in pending \cup ToSet(anchors) : AnchorOk(a)

\* verify_anchor: what it holds between its reads.
CheckRecord(c) ==
    c \in [at : {"idle", "recompute", "sessions", "verify"}, day : Nat, stored : {c.stored},
          live : {c.live}, todo : {c.todo}, broken : {c.broken}, calm : BOOLEAN,
          listed : BOOLEAN]

CheckShape(v) ==
    /\ CheckRecord(check[v])
    /\ IsList(check[v].todo) /\ ToSet(check[v].todo) \subseteq Sessions
    /\ check[v].stored # NoAnchor =>
          AnchorOk(check[v].stored) /\ check[v].stored.day = check[v].day
    /\ check[v].at # "verify" => vpc[v] = "idle"
    /\ vpc[v] = "head" => check[v].todo # <<>> /\ vsession[v] = Head(check[v].todo)

CheckInv ==
    /\ check = [v \in Verifiers |-> check[v]] /\ report = [v \in Verifiers |-> report[v]]
    /\ \A v \in Verifiers : CheckShape(v)

\* A row that was read: it shares id, session and hash with the row log() committed,
\* and if it is another, no third takes its place in the table.
WasRead(r, d) ==
    /\ RowShape(r) /\ r.day = d /\ \E e \in ever : Same(r, e)
    /\ r \in ever \/ \A q \in rows : q.id = r.id => q = r

\* An edited row that was read and is still there makes its session count as broken.
Shown(v, r) ==
    r \in rows \ ever =>
        \/ r.session \in check[v].broken
        \/ /\ r.session \in ToSet(check[v].todo)
           /\ vpc[v] = "head" /\ vsession[v] = r.session => r \in snap[v]

LiveOk(v) ==
    check[v].at \in {"sessions", "verify"} =>
        /\ LeafList(Leaves(check[v].live))
        /\ \A r \in ToSet(check[v].live) :
              /\ WasRead(r, check[v].day)
              /\ check[v].at = "verify" /\ check[v].listed => Shown(v, r)

LiveInv == \A v \in Verifiers : LiveOk(v)

\* Until damage is done the table is what log() committed, and so is what was read of it.
CalmOk(v) ==
    /\ snap[v] = due[v]
    /\ check[v].calm => check[v].broken = {}
    /\ check[v].at \in {"sessions", "verify"} /\ check[v].stored.settled =>
          Leaves(check[v].live) = check[v].stored.leaves

CalmInv == damage = 0 => rows = ever /\ \A v \in Verifiers : CalmOk(v)

AnchorsInv ==
    /\ StoreInv /\ CheckInv /\ LiveInv /\ CalmInv
    /\ MatchMeansUnchanged /\ SettledDayVerifies

-----------------------------------------------------------------------------
(* What is read of the store                                               *)

LEMMA DayRows ==
    ASSUME IInv, WholeInv, NEW d
    PROVE  /\ IsList(DateRows(d)) /\ ToSet(DateRows(d)) = OnDay(rows, d)
           /\ ToSet(SessionsInOrder(d)) = {r.session : r \in OnDay(rows, d)}
           /\ IsList(SessionsInOrder(d)) /\ LeafList(Leaves(DateRows(d)))
<1> DEFINE R == OnDay(rows, d)
           n == Cardinality(R)
           q == InOrder(R)
<1>1. Listed(R)
  BY TableListed DEF OnDay
<1> HIDE DEF R
<1>2. /\ IsList(q) /\ Len(q) = n /\ \A i \in 1 .. n : q[i] \in R
      /\ \A i, j \in 1 .. n : q[i] = q[j] => i = j
      /\ \A r \in R : \E i \in 1 .. n : q[i] = r
  BY <1>1, InOrderLists
<1>3. DateRows(d) = q
  BY DEF DateRows, R
<1> HIDE DEF q, n
<1>4. n \in Nat /\ DOMAIN q = 1 .. n
  BY <1>2 DEF IsList
<1>5. ToSet(q) = R
  BY <1>2, <1>4 DEF ToSet
<1>6. IsList(SessionsInOrder(d)) /\ ToSet(SessionsInOrder(d)) = {r.session : r \in R}
  <2>1. /\ IsList(SessionsInOrder(d))
        /\ ToSet(SessionsInOrder(d)) = {q[i].session : i \in 1 .. n}
    BY <1>2, <1>3, SessionsOf DEF SessionsInOrder
  <2> QED
    BY <1>2, <2>1
<1>7. LeafList(Leaves(q))
  <2>1. Leaves(q) = [i \in 1 .. n |-> q[i].hash]
    BY <1>2 DEF Leaves
  <2>2. Leaves(q) = [i \in 1 .. n |-> Leaves(q)[i]]
    BY <2>1
  <2>3. IsList(Leaves(q)) /\ Len(Leaves(q)) = n
    BY <1>4, <2>2, ListOf
  <2>4. \A r \in R : r \in rows /\ r.hash[1] = r.id /\ DOMAIN r.hash = 1 .. 5
    <3> SUFFICES ASSUME NEW r \in R PROVE r \in rows /\ r.hash[1] = r.id /\ DOMAIN r.hash = 1 .. 5
      OBVIOUS
    <3>1. r \in rows /\ r.hash[1] = r.id
      BY DEF R, OnDay, IInv, LinkInv
    <3>2. PICK e \in ever : r.hash = RowHash(e)
      BY <3>1 DEF IInv, OriginInv, Same
    <3> QED
      BY <3>1, <3>2 DEF RowHash
  <2>5. ASSUME NEW i \in 1 .. n, NEW j \in 1 .. n, q[i].hash = q[j].hash PROVE i = j
    <3>1. q[i].id = q[j].id /\ q[i] \in rows /\ q[j] \in rows
      BY <1>2, <2>4, <2>5
    <3> QED
      BY <1>2, <3>1 DEF WholeInv, UniqueIds
  <2>6. \A i \in 1 .. n : Leaves(q)[i] = q[i].hash
    BY <2>1
  <2> QED
    BY <1>2, <2>3, <2>4, <2>5, <2>6 DEF LeafList, Distinct
<1> QED
  BY <1>2, <1>3, <1>5, <1>6, <1>7 DEF R

LEMMA HeadAndTail ==
    ASSUME NEW s, IsList(s), s # <<>>
    PROVE  IsList(Tail(s)) /\ ToSet(s) = {Head(s)} \cup ToSet(Tail(s))
<1> DEFINE T == ToSet(s)
           n == Len(s)
           t == Tail(s)
<1>1. n \in Nat /\ DOMAIN s = 1 .. n /\ s = [i \in 1 .. n |-> s[i]]
  BY DEF IsList
<1>2. s \in [1 .. n -> T]
  BY <1>1 DEF ToSet
<1>3. s \in Seq(T)
  <2> HIDE DEF T, n
  <2> QED
    BY <1>1, <1>2
<1>4. t \in Seq(T) /\ Len(t) = n - 1 /\ \A i \in 1 .. n - 1 : t[i] = s[i + 1]
  <2> HIDE DEF T
  <2> QED
    BY <1>3, HeadTailProperties
<1>5. n - 1 \in Nat /\ DOMAIN t = 1 .. n - 1 /\ t = [i \in 1 .. n - 1 |-> t[i]] /\ Head(s) = s[1]
  <2> HIDE DEF T
  <2>1. t \in [1 .. Len(t) -> T] /\ Len(t) \in Nat
    BY <1>4, LenProperties
  <2> HIDE DEF t
  <2>2. Head(s) = s[1]
    BY <1>3
  <2> QED
    BY <1>1, <1>4, <2>1, <2>2
<1> HIDE DEF n
<1>6. IsList(t)
  BY <1>4, <1>5 DEF IsList
<1>7. \A x \in ToSet(s) : x = s[1] \/ x \in ToSet(t)
  <2> SUFFICES ASSUME NEW i \in 1 .. n, i # 1 PROVE s[i] \in ToSet(t)
    BY <1>1 DEF ToSet
  <2>1. i - 1 \in 1 .. n - 1 /\ s[i] = t[i - 1]
    BY <1>1, <1>4
  <2> QED
    BY <1>5, <2>1 DEF ToSet
<1>8. \A x \in ToSet(t) : x \in ToSet(s)
  <2> SUFFICES ASSUME NEW i \in 1 .. n - 1 PROVE t[i] \in ToSet(s)
    BY <1>5 DEF ToSet
  <2>1. i + 1 \in 1 .. n /\ t[i] = s[i + 1]
    BY <1>1, <1>4
  <2> QED
    BY <1>1, <2>1 DEF ToSet
<1>9. s[1] \in ToSet(s)
  BY <1>1, <1>5 DEF ToSet
<1> QED
  BY <1>5, <1>6, <1>7, <1>8, <1>9

\* get_anchor: the first anchor of the day, when there is one.
LEMMA AnchorFound ==
    ASSUME IsList(anchors), NEW d, GetAnchor(d) # NoAnchor
    PROVE  GetAnchor(d) \in ToSet(anchors) /\ GetAnchor(d).day = d
<1> DEFINE days == {i \in 1 .. Len(anchors) : anchors[i].day = d}
           k == CHOOSE i \in days : \A j \in days : i <= j
<1>1. days # {} /\ GetAnchor(d) = anchors[k]
  BY DEF GetAnchor
<1>2. days \subseteq Nat
  OBVIOUS
<1>3. \E i \in days : \A j \in days : i <= j
  <2> HIDE DEF days
  <2> QED
    BY <1>1, <1>2, SessionFold!Least
<1>4. k \in days
  BY <1>3
<1> HIDE DEF k
<1>5. k \in DOMAIN anchors /\ anchors[k].day = d
  BY <1>4 DEF IsList
<1> QED
  BY <1>1, <1>5 DEF ToSet

-----------------------------------------------------------------------------
(* The initial states, and the chain's invariants under the anchors        *)

LEMMA AnchorsInitially == AnchorInit => AnchorsInv
<1> SUFFICES ASSUME AnchorInit PROVE AnchorsInv
  OBVIOUS
<1>1. IsList(<<>>) /\ ToSet(<<>>) = {}
  BY DEF IsList, ToSet
<1>2. StoreInv
  BY <1>1 DEF AnchorInit, StoreInv
<1>3. CheckInv
  BY <1>1 DEF AnchorInit, Init, CheckInv, CheckShape, CheckRecord, Unchecked
<1>4. LiveInv /\ CalmInv
  BY DEF AnchorInit, Init, LiveInv, LiveOk, CalmInv, CalmOk, Unchecked
<1>5. MatchMeansUnchanged /\ SettledDayVerifies
  BY DEF AnchorInit, MatchMeansUnchanged, SettledDayVerifies, NoReport
<1> QED
  BY <1>2, <1>3, <1>4, <1>5 DEF AnchorsInv

\* The steps that the chain does not see, but for the clock and the failures.
LEMMA ChainUnseen ==
    ASSUME IInv, WholeInv, UNCHANGED <<tableVars, writerVars, verifyVars, ever, quiet, damage>>,
           today' \in 0 .. MaxDay, failures' \in 0 .. MaxFailures
    PROVE  IInv' /\ WholeInv'
<1>1. UNCHANGED <<rows, head, nextId, pc, mine, vpc, vsession, snap, verdict, due, ever, quiet, damage>>
  BY DEF tableVars, writerVars, verifyVars
<1>2. Typed' /\ Positive'
  BY <1>1 DEF IInv, Typed, TypeOK, VarsAreFunctions, RowShape, Positive
<1>3. /\ LinkInv' /\ NoFork' /\ PendInv' /\ OriginInv' /\ IdInv' /\ LockInv' /\ CountInv'
      /\ SnapInv' /\ DamageDetected'
  BY <1>1 DEF IInv, LinkInv, NoFork, PendInv, OriginInv, IdInv, LockInv, CountInv,
              SnapInv, DamageDetected, Of, Holding, RowShape
<1>4. NextInv'
  BY <1>1 DEF WholeInv, NextInv, Whole, Of
<1>5. WholeInv'
  BY <1>1, <1>4, WriterWhole DEF tableVars, verifyVars
<1> QED
  BY <1>2, <1>3, <1>5 DEF IInv

\* A verification that is over, or broken off, before its session is forgotten.
LEMMA ChainForgets ==
    ASSUME IInv, WholeInv, NEW v \in Verifiers,
           UNCHANGED <<tableVars, writerVars, today, ever, damage>>,
           failures' \in 0 .. MaxFailures,
           vpc' = [vpc EXCEPT ![v] = "idle"],
           \/ UNCHANGED <<vsession, snap, verdict, due, quiet>>
           \/ /\ vsession' = [vsession EXCEPT ![v] = NoSession]
              /\ snap' = [snap EXCEPT ![v] = {}] /\ due' = [due EXCEPT ![v] = {}]
              /\ verdict' = [verdict EXCEPT ![v] = "none"]
              /\ quiet' = [quiet EXCEPT ![v] = TRUE]
    PROVE  IInv' /\ WholeInv'
<1>1. UNCHANGED <<rows, head, nextId, pc, mine, today, ever, damage>>
  BY DEF tableVars, writerVars
<1>2. /\ vpc'[v] = "idle"
      /\ \/ verdict'[v] = "none"
         \/ /\ verdict'[v] = verdict[v] /\ vsession'[v] = vsession[v] /\ snap'[v] = snap[v]
            /\ due'[v] = due[v] /\ quiet'[v] = quiet[v]
      /\ \A u \in Verifiers \ {v} :
            /\ vpc'[u] = vpc[u] /\ vsession'[u] = vsession[u] /\ snap'[u] = snap[u]
            /\ verdict'[u] = verdict[u] /\ due'[u] = due[u] /\ quiet'[u] = quiet[u]
  BY DEF IInv, Typed, TypeOK, VarsAreFunctions
<1>3. Typed' /\ Positive'
  <2>1. /\ vpc' \in [Verifiers -> {"idle", "head"}]
        /\ vsession' \in [Verifiers -> Sessions \cup {NoSession}]
        /\ verdict' \in [Verifiers -> {"none", "intact", "broken"}]
        /\ quiet' \in [Verifiers -> BOOLEAN]
    BY DEF IInv, Typed, TypeOK
  <2>2. VarsAreFunctions'
    BY DEF IInv, Typed, VarsAreFunctions
  <2> QED
    BY <1>1, <2>1, <2>2 DEF IInv, Typed, TypeOK, RowShape, Positive
<1>4. /\ LinkInv' /\ NoFork' /\ PendInv' /\ OriginInv' /\ IdInv' /\ LockInv' /\ CountInv'
  BY <1>1 DEF IInv, LinkInv, NoFork, PendInv, OriginInv, IdInv, LockInv, CountInv, Of, Holding
<1>5. SnapInv' /\ ReadInv'
  BY <1>1, <1>2 DEF IInv, WholeInv, SnapInv, ReadInv, Of, RowShape, Same
<1>6. DamageDetected' /\ IntactAccepted'
  BY <1>1, <1>2 DEF IInv, WholeInv, DamageDetected, IntactAccepted
<1>7. OldRows \subseteq ever' /\ UniqueIds' /\ NextInv' /\ HeadInv' /\ ChainInv'
  BY <1>1 DEF WholeInv, UniqueIds, NextInv, HeadInv, ChainInv, Whole, Of
<1> QED
  BY <1>3, <1>4, <1>5, <1>6, <1>7 DEF IInv, WholeInv

LEMMA ChainHolds ==
    ASSUME IInv, WholeInv, CheckInv, [AnchorNext]_allVars
    PROVE  IInv' /\ WholeInv'
<1>1. /\ today \in 0 .. MaxDay /\ failures \in 0 .. MaxFailures
      /\ today < MaxDay => today + 1 \in 0 .. MaxDay
      /\ failures < MaxFailures => failures + 1 \in 0 .. MaxFailures
  <2>1. /\ today \in 0 .. MaxDay /\ failures \in 0 .. MaxFailures
        /\ MaxDay \in Nat /\ MaxFailures \in Nat
    BY ChainAssumption DEF IInv, Typed, TypeOK
  <2> QED
    BY <2>1
<1>2. CASE [Next]_vars
  BY <1>2, ChainInductive, WholeInductive
<1>3. CASE Midnight \/ (\E a \in pending : RecordFails(a))
  <2>1. /\ UNCHANGED <<tableVars, writerVars, verifyVars, ever, quiet, damage>>
        /\ today' \in 0 .. MaxDay /\ failures' \in 0 .. MaxFailures
    BY <1>1, <1>3 DEF Midnight, RecordFails
  <2> QED
    BY <2>1, ChainUnseen
<1>4. ASSUME NEW v \in Verifiers, \E d \in 0 .. today : StartCheck(v, d)
      PROVE  IInv' /\ WholeInv'
  <2>1. /\ UNCHANGED <<tableVars, writerVars, verifyVars, ever, quiet, damage>>
        /\ today' \in 0 .. MaxDay /\ failures' \in 0 .. MaxFailures
    BY <1>1, <1>4 DEF StartCheck
  <2> QED
    BY <2>1, ChainUnseen
<1>5. ASSUME NEW v \in Verifiers, RecomputeFails(v) \/ NoSessions(v) \/ SessionsUnverified(v)
      PROVE  IInv' /\ WholeInv'
  <2>1. /\ UNCHANGED <<tableVars, writerVars, verifyVars, ever, quiet, damage>>
        /\ today' \in 0 .. MaxDay /\ failures' \in 0 .. MaxFailures
    BY <1>1, <1>5 DEF RecomputeFails, NoSessions, SessionsUnverified
  <2> QED
    BY <2>1, ChainUnseen
<1>6. ASSUME NEW v \in Verifiers, CheckRows(v)
      PROVE  [Next]_vars
  <2>1. VerifyRows(v, Head(check[v].todo)) /\ check[v].todo # <<>>
    BY <1>6 DEF CheckRows
  <2>2. Head(check[v].todo) \in Sessions
    BY <2>1, HeadAndTail DEF CheckInv, CheckShape
  <2> QED
    BY <2>1, <2>2 DEF Next
<1>7. ASSUME NEW v \in Verifiers, CheckHead(v)
      PROVE  [Next]_vars
  BY <1>7 DEF CheckHead, Next
<1>8. ASSUME NEW v \in Verifiers, CheckRaises(v) \/ EndCheck(v)
      PROVE  IInv' /\ WholeInv'
  <2>1. CASE CheckRaises(v)
    <3>1. /\ UNCHANGED <<tableVars, writerVars, today, ever, damage>>
          /\ vpc' = [vpc EXCEPT ![v] = "idle"]
          /\ UNCHANGED <<vsession, snap, verdict, due, quiet>>
          /\ failures' \in 0 .. MaxFailures
      BY <1>1, <2>1 DEF CheckRaises
    <3> QED
      BY <3>1, ChainForgets
  <2>2. CASE EndCheck(v)
    <3>1. /\ UNCHANGED <<tableVars, writerVars, today, ever, damage, vpc>> /\ vpc[v] = "idle"
          /\ vsession' = [vsession EXCEPT ![v] = NoSession]
          /\ snap' = [snap EXCEPT ![v] = {}] /\ due' = [due EXCEPT ![v] = {}]
          /\ verdict' = [verdict EXCEPT ![v] = "none"]
          /\ quiet' = [quiet EXCEPT ![v] = TRUE]
          /\ failures' \in 0 .. MaxFailures
      BY <1>1, <2>2 DEF EndCheck
    <3>2. vpc' = [vpc EXCEPT ![v] = "idle"]
      BY <3>1 DEF IInv, Typed, TypeOK
    <3> QED
      BY <3>1, <3>2, ChainForgets
  <2> QED
    BY <1>8, <2>1, <2>2
<1>9. ASSUME NEW v \in Verifiers, Recompute(v) \/ SessionsOn(v)
      PROVE  [Next]_vars
  BY <1>9 DEF Recompute, SessionsOn
<1>10. CASE (TableNext /\ UNCHANGED anchorVars) \/ UNCHANGED allVars
            \/ (\E d \in 0 .. today : ComputeDailyAnchor(d)) \/ (\E a \in pending : RecordAnchor(a))
  BY <1>2, <1>10 DEF Next, allVars, ComputeDailyAnchor, RecordAnchor
<1> QED
  BY <1>2, <1>3, <1>4, <1>5, <1>6, <1>7, <1>8, <1>9, <1>10 DEF AnchorNext

-----------------------------------------------------------------------------
(* What happens to the tables, under the anchors                           *)

\* A row of the table is an old one, or new with an id of its own, or the edit of a
\* row that was as log() committed it.
LEMMA TableEffect ==
    ASSUME IInv, WholeInv, TableNext
    PROVE  /\ UNCHANGED <<verifyVars, today>> /\ ever \subseteq ever'
           /\ damage' = 0 => damage = 0 /\ (rows = ever => rows' = ever')
           /\ \A q \in rows' :
                \/ q \in rows
                \/ q \in ever' /\ \A e \in ever : e.id # q.id
                \/ \E r \in rows \cap ever : r.id = q.id
<1>1. ASSUME NEW w \in Writers, NEW s \in Sessions, NEW k \in Kinds, Log(w, s, k)
      PROVE  UNCHANGED <<rows, ever, verifyVars, today, damage>>
  BY <1>1 DEF Log, tableVars
<1>2. ASSUME NEW w \in Writers, TakeLock(w) \/ ReadPrev(w) \/ InsertRow(w) \/ Fail(w)
      PROVE  UNCHANGED <<rows, ever, verifyVars, today, damage>>
  BY <1>2 DEF TakeLock, ReadPrev, InsertRow, Fail, tableVars
<1>3. ASSUME NEW w \in Writers, Commit(w)
      PROVE  /\ UNCHANGED <<verifyVars, today, damage>>
             /\ \E r : /\ rows' = rows \cup {r} /\ ever' = ever \cup {r}
                       /\ \A e \in ever : e.id # r.id
  <2> DEFINE r == Hashed(mine[w].id, mine[w].session, mine[w].kind, mine[w].day, mine[w].prev)
  <2>1. /\ UNCHANGED <<verifyVars, today, damage>> /\ rows' = rows \cup {r} /\ ever' = ever \cup {r}
        /\ pc[w] = "commit"
    BY <1>3 DEF Commit
  <2>2. r.id = mine[w].id
    BY DEF Hashed
  <2>3. \A e \in ever : e.id # r.id
    BY <2>1, <2>2 DEF IInv, IdInv
  <2> HIDE DEF r
  <2> QED
    BY <2>1, <2>3
<1>4. ASSUME NEW r \in rows, LoseRow(r)
      PROVE  UNCHANGED <<verifyVars, today, ever>> /\ rows' = rows \ {r} /\ damage' = damage + 1
  BY <1>4 DEF LoseRow
<1>5. ASSUME NEW r \in rows, EditRow(r)
      PROVE  /\ UNCHANGED <<verifyVars, today, ever>> /\ r \in ever /\ damage' = damage + 1
             /\ \E e : e.id = r.id /\ rows' = (rows \ {r}) \cup {e}
  <2>1. PICK k \in Kinds : rows' = (rows \ {r}) \cup {[r EXCEPT !.kind = k]}
    BY <1>5 DEF EditRow
  <2>2. [r EXCEPT !.kind = k].id = r.id
    BY DEF IInv, Typed, TypeOK, RowShape
  <2> QED
    BY <1>5, <2>1, <2>2 DEF EditRow
<1>6. damage \in Nat
  BY ChainAssumption DEF IInv, Typed, TypeOK
<1>7. CASE UNCHANGED <<rows, ever, verifyVars, today, damage>>
  BY <1>7
<1>8. CASE \E w \in Writers : Commit(w)
  BY <1>3, <1>8
<1>9. CASE \E r \in rows : LoseRow(r)
  BY <1>4, <1>6, <1>9
<1>10. CASE \E r \in rows : EditRow(r)
  <2>1. PICK r \in rows : EditRow(r)
    BY <1>10
  <2>2. PICK e : e.id = r.id /\ rows' = (rows \ {r}) \cup {e}
    BY <1>5, <2>1
  <2>3. UNCHANGED <<verifyVars, today, ever>> /\ r \in ever /\ damage' = damage + 1
    BY <1>5, <2>1
  <2> QED
    BY <1>6, <2>2, <2>3
<1> QED
  BY <1>1, <1>2, <1>7, <1>8, <1>9, <1>10 DEF TableNext, AppendStep

\* A settled day gets no row, and no writer starts one that carries its date.
LEMMA AnchorStays ==
    ASSUME IInv, WholeInv, TableNext, NEW a, AnchorOk(a)
    PROVE  AnchorOk(a)'
<1> SUFFICES ASSUME a.settled, damage' = 0
             PROVE  /\ a.day < today'
                    /\ \A w \in Writers : pc'[w] = "idle" \/ mine'[w].day # a.day
                    /\ a.leaves = Leaves(DateRows(a.day)')
  BY DEF AnchorOk, Leaves
<1>1. damage = 0 /\ today' = today
  BY TableEffect
<1>2. /\ a.day < today /\ a.leaves = Leaves(DateRows(a.day))
      /\ \A w \in Writers : pc[w] = "idle" \/ mine[w].day # a.day
  BY <1>1 DEF AnchorOk
<1>3. ASSUME rows' = rows PROVE DateRows(a.day)' = DateRows(a.day)
  BY <1>3 DEF DateRows
<1>4. ASSUME NEW w \in Writers, NEW s \in Sessions, NEW k \in Kinds, Log(w, s, k)
      PROVE  /\ rows' = rows
             /\ \A x \in Writers : pc'[x] = "idle" \/ mine'[x].day # a.day
  <2>1. /\ rows' = rows /\ mine'[w].day = today
        /\ \A x \in Writers \ {w} : mine'[x] = mine[x] /\ pc'[x] = pc[x]
    BY <1>4 DEF Log, tableVars, Draft, IInv, Typed, TypeOK
  <2>2. today # a.day
    <3>1. today \in Nat
      BY ChainAssumption DEF IInv, Typed, TypeOK
    <3> QED
      BY <1>2, <3>1
  <2> QED
    BY <1>2, <2>1, <2>2
<1>5. ASSUME NEW w \in Writers, TakeLock(w) \/ ReadPrev(w) \/ InsertRow(w)
      PROVE  /\ rows' = rows
             /\ \A x \in Writers : pc'[x] = "idle" \/ mine'[x].day # a.day
  <2>1. /\ rows' = rows /\ mine'[w].day = mine[w].day /\ pc[w] # "idle"
        /\ \A x \in Writers \ {w} : mine'[x] = mine[x] /\ pc'[x] = pc[x]
    BY <1>5 DEF TakeLock, ReadPrev, InsertRow, tableVars, IInv, Typed, TypeOK, RowShape
  <2> QED
    BY <1>2, <2>1
<1>6. ASSUME NEW w \in Writers, Fail(w)
      PROVE  /\ rows' = rows
             /\ \A x \in Writers : pc'[x] = "idle" \/ mine'[x].day # a.day
  <2>1. /\ rows' = rows /\ pc'[w] = "idle"
        /\ \A x \in Writers \ {w} : mine'[x] = mine[x] /\ pc'[x] = pc[x]
    BY <1>6 DEF Fail, tableVars, IInv, Typed, TypeOK
  <2> QED
    BY <1>2, <2>1
<1>7. ASSUME NEW w \in Writers, Commit(w)
      PROVE  /\ OnDay(rows', a.day) = OnDay(rows, a.day)
             /\ \A x \in Writers : pc'[x] = "idle" \/ mine'[x].day # a.day
  <2> DEFINE r == Hashed(mine[w].id, mine[w].session, mine[w].kind, mine[w].day, mine[w].prev)
  <2>1. /\ rows' = rows \cup {r} /\ pc[w] = "commit" /\ pc'[w] = "idle"
        /\ \A x \in Writers \ {w} : mine'[x] = mine[x] /\ pc'[x] = pc[x]
    BY <1>7 DEF Commit, IInv, Typed, TypeOK
  <2>2. r.day = mine[w].day
    BY DEF Hashed
  <2>3. r.day # a.day
    BY <1>2, <2>1, <2>2
  <2> HIDE DEF r
  <2> QED
    BY <1>2, <2>1, <2>3 DEF OnDay
<1>8. ASSUME NEW r \in rows, LoseRow(r) \/ EditRow(r) PROVE FALSE
  <2>1. damage' = damage + 1
    BY <1>8 DEF LoseRow, EditRow
  <2> QED
    BY <1>1, <2>1
<1>9. /\ OnDay(rows', a.day) = OnDay(rows, a.day)
      /\ \A w \in Writers : pc'[w] = "idle" \/ mine'[w].day # a.day
  BY <1>4, <1>5, <1>6, <1>7, <1>8 DEF TableNext, AppendStep
<1>10. DateRows(a.day)' = DateRows(a.day)
  BY <1>9 DEF DateRows
<1> QED
  BY <1>1, <1>2, <1>9, <1>10

\* What a verifier read stays what it was: an edited row it read is still the one in the
\* table, and no row it read as log() committed it comes back edited under its session.
LEMMA ReadStays ==
    ASSUME IInv, WholeInv, TableNext, LiveInv, UNCHANGED check
    PROVE  LiveInv'
<1>1. /\ UNCHANGED <<vpc, vsession, snap>> /\ ever \subseteq ever'
      /\ \A q \in rows' :
            \/ q \in rows
            \/ q \in ever' /\ \A e \in ever : e.id # q.id
            \/ \E r \in rows \cap ever : r.id = q.id
  BY TableEffect DEF verifyVars
<1> SUFFICES ASSUME NEW v \in Verifiers, check[v].at \in {"sessions", "verify"},
                    NEW r \in ToSet(check[v].live)
             PROVE  /\ WasRead(r, check[v].day)'
                    /\ check[v].at = "verify" /\ check[v].listed => Shown(v, r)'
  BY DEF LiveInv, LiveOk
<1>2. /\ WasRead(r, check[v].day)
      /\ check[v].at = "verify" /\ check[v].listed => Shown(v, r)
  BY DEF LiveInv, LiveOk
<1>3. PICK e \in ever : Same(r, e)
  BY <1>2 DEF WasRead
<1>4. RowShape(r)' /\ r.day = check[v].day /\ e \in ever' /\ Same(r, e)'
  BY <1>1, <1>2, <1>3 DEF WasRead, RowShape, Same
<1>5. ASSUME r \notin ever, NEW q \in rows', q.id = r.id PROVE q = r /\ q \in rows
  <2>1. \A x \in rows : x.id = r.id => x = r
    BY <1>2, <1>5 DEF WasRead
  <2>2. e.id = q.id
    BY <1>3, <1>5 DEF Same
  <2> QED
    BY <1>1, <1>3, <1>5, <2>1, <2>2
<1>6. WasRead(r, check[v].day)'
  BY <1>1, <1>4, <1>5 DEF WasRead
<1>7. ASSUME check[v].at = "verify", check[v].listed PROVE Shown(v, r)'
  BY <1>1, <1>2, <1>5, <1>7 DEF Shown
<1> QED
  BY <1>6, <1>7

LEMMA TableKeepsAnchors ==
    ASSUME IInv, WholeInv, AnchorsInv, TableNext, UNCHANGED anchorVars
    PROVE  AnchorsInv'
<1>1. /\ UNCHANGED <<vpc, vsession, snap, due, today>> /\ ever \subseteq ever'
      /\ damage' = 0 => damage = 0 /\ (rows = ever => rows' = ever')
      /\ UNCHANGED <<anchors, pending, computed, check, report>>
  BY TableEffect DEF verifyVars, anchorVars
<1>2. \A a : AnchorOk(a) => AnchorOk(a)'
  BY AnchorStays
<1>3. StoreInv'
  BY <1>1, <1>2 DEF AnchorsInv, StoreInv, IsList, ToSet
<1>4. CheckInv'
  BY <1>1, <1>2 DEF AnchorsInv, CheckInv, CheckShape, CheckRecord, IsList, ToSet, NoAnchor
<1>5. LiveInv'
  BY <1>1, ReadStays DEF AnchorsInv
<1>6. CalmInv'
  BY <1>1 DEF AnchorsInv, CalmInv, CalmOk, Leaves
<1>7. MatchMeansUnchanged' /\ SettledDayVerifies'
  BY <1>1 DEF AnchorsInv, MatchMeansUnchanged, SettledDayVerifies, Leaves
<1> QED
  BY <1>3, <1>4, <1>5, <1>6, <1>7 DEF AnchorsInv

-----------------------------------------------------------------------------
(* The clock, the store of anchors, and the steps of verify_anchor         *)

\* An anchor is settled until damage is done, whatever else happens.
LEMMA MidnightKeeps ==
    ASSUME IInv, AnchorsInv, Midnight
    PROVE  AnchorsInv'
<1>1. /\ UNCHANGED <<rows, pc, mine, ever, damage, vpc, vsession, snap, due>>
      /\ UNCHANGED <<anchors, pending, computed, check, report>>
      /\ today \in Nat /\ today' = today + 1
  BY DEF Midnight, tableVars, writerVars, verifyVars, anchorVars, IInv, Typed, TypeOK
<1>2. ASSUME NEW a, AnchorOk(a) PROVE AnchorOk(a)'
  <2> SUFFICES ASSUME a.settled, damage = 0
               PROVE  /\ a.day < today'
                      /\ \A w \in Writers : pc[w] = "idle" \/ mine[w].day # a.day
                      /\ a.leaves = Leaves(DateRows(a.day)')
    BY <1>1, <1>2 DEF AnchorOk, Leaves
  <2>1. /\ a.day \in Nat /\ a.day < today /\ a.leaves = Leaves(DateRows(a.day))
        /\ \A w \in Writers : pc[w] = "idle" \/ mine[w].day # a.day
    BY <1>2 DEF AnchorOk
  <2>2. DateRows(a.day)' = DateRows(a.day)
    BY <1>1 DEF DateRows
  <2> QED
    BY <1>1, <2>1, <2>2
<1>3. StoreInv'
  BY <1>1, <1>2 DEF AnchorsInv, StoreInv, IsList, ToSet
<1>4. CheckInv'
  BY <1>1, <1>2 DEF AnchorsInv, CheckInv, CheckShape, CheckRecord, IsList, ToSet, NoAnchor
<1>5. LiveInv'
  <2>1. ASSUME NEW u \in Verifiers PROVE LiveOk(u)'
    <3>1. LiveOk(u)
      BY DEF AnchorsInv, LiveInv
    <3> QED
      BY <1>1, <3>1 DEF LiveOk, WasRead, Shown, RowShape, Same, ToSet, Leaves
  <2> QED
    BY <2>1 DEF LiveInv
<1>6. CalmInv'
  BY <1>1 DEF AnchorsInv, CalmInv, CalmOk, Leaves
<1>7. MatchMeansUnchanged' /\ SettledDayVerifies'
  BY <1>1 DEF AnchorsInv, MatchMeansUnchanged, SettledDayVerifies, Leaves
<1> QED
  BY <1>3, <1>4, <1>5, <1>6, <1>7 DEF AnchorsInv

\* What the steps of verify_anchor and of the store of anchors leave as it is.
LEMMA AnchorOkKept ==
    ASSUME UNCHANGED <<rows, pc, mine, damage, today>>
    PROVE  \A a : AnchorOk(a) = AnchorOk(a)'
BY DEF AnchorOk, DateRows, Leaves

LEMMA OfTheDay ==
    ASSUME IInv, WholeInv, NEW d \in 0 .. today
    PROVE  AnchorOk(AnchorOf(d))
<1>1. /\ AnchorOf(d).day = d /\ AnchorOf(d).leaves = Leaves(DateRows(d))
      /\ AnchorOf(d).root = MerkleRoot(Leaves(DateRows(d)))
      /\ AnchorOf(d).settled = (d < today /\ \A w \in Writers : pc[w] = "idle" \/ mine[w].day # d)
  BY DEF AnchorOf
<1>2. LeafList(Leaves(DateRows(d)))
  BY DayRows
<1>3. d \in Nat
  BY DEF IInv, Typed, TypeOK
<1> QED
  BY <1>1, <1>2, <1>3 DEF AnchorOk

LEMMA StoreKeeps ==
    ASSUME IInv, WholeInv, AnchorsInv,
           \/ \E d \in 0 .. today : ComputeDailyAnchor(d)
           \/ \E a \in pending : RecordAnchor(a) \/ RecordFails(a)
    PROVE  AnchorsInv'
<1>1. /\ UNCHANGED <<rows, pc, mine, ever, damage, today, vpc, vsession, snap, due>>
      /\ UNCHANGED <<check, report>>
  BY DEF ComputeDailyAnchor, RecordAnchor, RecordFails, vars, tableVars, writerVars, verifyVars
<1>2. \A a : AnchorOk(a) = AnchorOk(a)'
  BY <1>1, AnchorOkKept
<1>3. IsList(anchors') /\ \A a \in pending' \cup ToSet(anchors') : AnchorOk(a)
  <2>1. CASE \E d \in 0 .. today : ComputeDailyAnchor(d)
    BY <2>1, OfTheDay DEF ComputeDailyAnchor, AnchorsInv, StoreInv
  <2>2. ASSUME NEW a \in pending, RecordAnchor(a)
        PROVE  IsList(anchors') /\ \A b \in pending' \cup ToSet(anchors') : AnchorOk(b)
    <3>1. anchors' = Append(anchors, a) /\ pending' \subseteq pending /\ AnchorOk(a)
      BY <2>2 DEF RecordAnchor, AnchorsInv, StoreInv
    <3>2. IsList(anchors') /\ ToSet(anchors') = ToSet(anchors) \cup {a}
      BY <3>1, AppendList, AppendSet DEF AnchorsInv, StoreInv
    <3> QED
      BY <3>1, <3>2 DEF AnchorsInv, StoreInv
  <2>3. ASSUME NEW a \in pending, RecordFails(a)
        PROVE  IsList(anchors') /\ \A b \in pending' \cup ToSet(anchors') : AnchorOk(b)
    BY <2>3 DEF RecordFails, AnchorsInv, StoreInv
  <2> QED
    BY <2>1, <2>2, <2>3
<1>4. StoreInv'
  BY <1>2, <1>3 DEF StoreInv, IsList, ToSet
<1>5. CheckInv'
  BY <1>1, <1>2 DEF AnchorsInv, CheckInv, CheckShape, CheckRecord, IsList, ToSet, NoAnchor
<1>6. LiveInv'
  BY <1>1 DEF AnchorsInv, LiveInv, LiveOk, WasRead, Shown, RowShape, Same, ToSet, Leaves
<1>7. CalmInv'
  BY <1>1 DEF AnchorsInv, CalmInv, CalmOk, Leaves
<1>8. MatchMeansUnchanged' /\ SettledDayVerifies'
  BY <1>1 DEF AnchorsInv, MatchMeansUnchanged, SettledDayVerifies, Leaves
<1> QED
  BY <1>4, <1>5, <1>6, <1>7, <1>8 DEF AnchorsInv

\* A step of verifier v leaves the others, the store and the tables as they are: what is
\* left to show is v's own part.
LEMMA CheckKeeps ==
    ASSUME IInv, AnchorsInv, NEW v \in Verifiers,
           UNCHANGED <<rows, ever, pc, mine, today, damage, anchors, pending>>,
           check' = [check EXCEPT ![v] = check'[v]], report' = [report EXCEPT ![v] = report'[v]],
           \A u \in Verifiers \ {v} : /\ vpc'[u] = vpc[u] /\ vsession'[u] = vsession[u]
                                       /\ snap'[u] = snap[u] /\ due'[u] = due[u],
           CheckShape(v)', LiveOk(v)', damage = 0 => CalmOk(v)',
           \/ report'[v] = report[v]
           \/ /\ report'[v].match =>
                    /\ Leaves(report'[v].live) = report'[v].stored.leaves
                    /\ report'[v].listed => report'[v].still \subseteq ever
              /\ damage = 0 /\ report'[v].stored.settled /\ report'[v].calm => ~report'[v].tampered
    PROVE  AnchorsInv'
<1>1. /\ \A u \in Verifiers \ {v} : check'[u] = check[u] /\ report'[u] = report[u]
      /\ check' = [u \in Verifiers |-> check'[u]] /\ report' = [u \in Verifiers |-> report'[u]]
  BY DEF AnchorsInv, CheckInv
<1>2. \A a : AnchorOk(a) = AnchorOk(a)'
  BY AnchorOkKept
<1>3. StoreInv'
  BY <1>2 DEF AnchorsInv, StoreInv, IsList, ToSet
<1>4. ASSUME NEW u \in Verifiers, u # v
      PROVE  /\ CheckShape(u)' /\ LiveOk(u)'
             /\ damage = 0 => CalmOk(u)'
  <2>1. /\ check'[u] = check[u] /\ vpc'[u] = vpc[u] /\ vsession'[u] = vsession[u]
        /\ snap'[u] = snap[u] /\ due'[u] = due[u] /\ rows' = rows /\ ever' = ever
    BY <1>1, <1>4
  <2>2. CheckShape(u)'
    <3>1. CheckShape(u)
      BY DEF AnchorsInv, CheckInv
    <3> QED
      BY <1>2, <2>1, <3>1 DEF CheckShape, CheckRecord, IsList, ToSet, NoAnchor
  <2>3. LiveOk(u)'
    <3>1. LiveOk(u)
      BY DEF AnchorsInv, LiveInv
    <3> QED
      BY <2>1, <3>1 DEF LiveOk, WasRead, Shown, RowShape, Same
  <2>4. damage = 0 => CalmOk(u)'
    BY <2>1 DEF AnchorsInv, CalmInv, CalmOk
  <2> QED
    BY <2>2, <2>3, <2>4
<1>5. CheckInv' /\ LiveInv' /\ CalmInv'
  BY <1>1, <1>4 DEF AnchorsInv, CheckInv, LiveInv, CalmInv
<1>6. ASSUME NEW u \in Verifiers
      PROVE  /\ report'[u].match =>
                    /\ Leaves(report'[u].live) = report'[u].stored.leaves
                    /\ report'[u].listed => report'[u].still \subseteq ever
             /\ damage = 0 /\ report'[u].stored.settled /\ report'[u].calm => ~report'[u].tampered
  <2>1. CASE report'[u] = report[u]
    BY <2>1 DEF AnchorsInv, MatchMeansUnchanged, SettledDayVerifies
  <2>2. CASE report'[u] # report[u]
    BY <1>1, <2>2
  <2> QED
    BY <2>1, <2>2
<1>7. MatchMeansUnchanged' /\ SettledDayVerifies'
  BY <1>6 DEF MatchMeansUnchanged, SettledDayVerifies
<1> QED
  BY <1>3, <1>5, <1>7 DEF AnchorsInv

LEMMA StartCheckKeeps ==
    ASSUME IInv, AnchorsInv, NEW v \in Verifiers, NEW d \in 0 .. today, StartCheck(v, d)
    PROVE  AnchorsInv'
<1>1. /\ check[v].at = "idle" /\ vpc[v] = "idle"
      /\ UNCHANGED <<rows, ever, pc, mine, today, damage, anchors, pending>>
      /\ UNCHANGED <<vpc, vsession, snap, due>>
      /\ report' = [report EXCEPT ![v] = NoReport]
  BY DEF StartCheck, tableVars, writerVars, verifyVars
<1>2. \E a \in {GetAnchor(d), NoAnchor} : \E c :
        /\ check' = [check EXCEPT ![v] = c]
        /\ c.at = "recompute" /\ c.day = d /\ c.stored = a
        /\ c.todo = <<>> /\ c.broken = {} /\ c.calm = TRUE
        /\ CheckRecord(c)
  <2>1. d \in Nat
    BY DEF IInv, Typed, TypeOK
  <2>2. CASE check' = [check EXCEPT ![v] = [Unchecked EXCEPT !.at = "recompute", !.day = d]]
    <3> DEFINE c == [Unchecked EXCEPT !.at = "recompute", !.day = d]
    <3>1. /\ c.at = "recompute" /\ c.day = d /\ c.stored = NoAnchor
          /\ c.todo = <<>> /\ c.broken = {} /\ c.calm = TRUE
          /\ CheckRecord(c)
      BY <2>1 DEF Unchecked, CheckRecord
    <3> HIDE DEF c
    <3> QED
      BY <2>2, <3>1 DEF c
  <2>3. CASE check' = [check EXCEPT ![v] = [Unchecked EXCEPT !.at = "recompute", !.day = d,
                                                           !.stored = GetAnchor(d)]]
    <3> DEFINE c == [Unchecked EXCEPT !.at = "recompute", !.day = d, !.stored = GetAnchor(d)]
    <3>1. /\ c.at = "recompute" /\ c.day = d /\ c.stored = GetAnchor(d)
          /\ c.todo = <<>> /\ c.broken = {} /\ c.calm = TRUE
          /\ CheckRecord(c)
      BY <2>1 DEF Unchecked, CheckRecord
    <3> HIDE DEF c
    <3> QED
      BY <2>3, <3>1 DEF c
  <2> QED
    BY <2>2, <2>3 DEF StartCheck
<1>3. PICK a \in {GetAnchor(d), NoAnchor} : \E c :
        /\ check' = [check EXCEPT ![v] = c]
        /\ c.at = "recompute" /\ c.day = d /\ c.stored = a
        /\ c.todo = <<>> /\ c.broken = {} /\ c.calm = TRUE
        /\ CheckRecord(c)
  BY <1>2
<1>4. PICK c :
        /\ check' = [check EXCEPT ![v] = c]
        /\ c.at = "recompute" /\ c.day = d /\ c.stored = a
        /\ c.todo = <<>> /\ c.broken = {} /\ c.calm = TRUE
        /\ CheckRecord(c)
  BY <1>3
<1>5. a # NoAnchor => AnchorOk(a) /\ a.day = d
  BY AnchorFound DEF AnchorsInv, StoreInv
<1>6. /\ check'[v] = c /\ report'[v] = NoReport
      /\ check' = [check EXCEPT ![v] = check'[v]] /\ report' = [report EXCEPT ![v] = report'[v]]
  BY <1>1, <1>4 DEF AnchorsInv, CheckInv
<1>7. /\ check'[v].at = "recompute" /\ check'[v].day = d /\ check'[v].stored = a
      /\ check'[v].todo = <<>> /\ check'[v].broken = {} /\ check'[v].calm = TRUE
      /\ CheckRecord(check'[v])
  BY <1>4, <1>6
<1>8. CheckShape(v)'
  <2>1. IsList(<<>>) /\ ToSet(<<>>) = {}
    BY DEF IsList, ToSet
  <2>2. AnchorOk(a) = AnchorOk(a)'
    BY <1>1, AnchorOkKept
  <2> QED
    BY <1>1, <1>5, <1>7, <2>1, <2>2 DEF CheckShape, NoAnchor
<1>9. LiveOk(v)' /\ (damage = 0 => CalmOk(v)')
  BY <1>1, <1>7 DEF LiveOk, CalmOk, AnchorsInv, CalmInv
<1>10. report'[v].match = FALSE /\ report'[v].tampered = FALSE
  BY <1>6 DEF NoReport
<1> QED
  BY <1>1, <1>6, <1>8, <1>9, <1>10, CheckKeeps

\* A row of the table was read: it is one that log() committed, or its edit.
LEMMA TableRead ==
    ASSUME IInv, WholeInv, NEW d, NEW r \in OnDay(rows, d)
    PROVE  WasRead(r, d)
BY DEF IInv, Typed, TypeOK, OriginInv, WholeInv, UniqueIds, OnDay, WasRead

LEMMA RecomputeKeeps ==
    ASSUME IInv, WholeInv, AnchorsInv, NEW v \in Verifiers, Recompute(v)
    PROVE  AnchorsInv'
<1> DEFINE c == check[v]
<1>1. /\ c.at = "recompute"
      /\ UNCHANGED <<rows, ever, pc, mine, today, damage, anchors, pending>>
      /\ UNCHANGED <<vpc, vsession, snap, due, report>>
      /\ check' = [check EXCEPT ![v] = [c EXCEPT !.at = "sessions", !.live = DateRows(c.day)]]
  BY DEF Recompute, vars, tableVars, writerVars, verifyVars
<1>2. CheckShape(v) /\ (damage = 0 => rows = ever /\ CalmOk(v))
  BY DEF AnchorsInv, CheckInv, CalmInv
<1>3. /\ check'[v] = [c EXCEPT !.at = "sessions", !.live = DateRows(c.day)]
      /\ check' = [check EXCEPT ![v] = check'[v]] /\ report' = [report EXCEPT ![v] = report'[v]]
      /\ report'[v] = report[v]
  BY <1>1 DEF AnchorsInv, CheckInv
<1>4. /\ check'[v].at = "sessions" /\ check'[v].day = c.day /\ check'[v].stored = c.stored
      /\ check'[v].todo = c.todo /\ check'[v].broken = c.broken /\ check'[v].calm = c.calm
      /\ check'[v].live = DateRows(c.day)
      /\ CheckRecord(check'[v])
  BY <1>2, <1>3 DEF CheckShape, CheckRecord
<1>5. CheckShape(v)'
  <2>1. AnchorOk(c.stored) = AnchorOk(check[v].stored)' /\ check'[v].stored = c.stored
    BY <1>1, <1>4, AnchorOkKept
  <2>2. c.stored # NoAnchor => AnchorOk(check[v].stored)' /\ c.stored.day = c.day
    BY <1>2, <2>1 DEF CheckShape
  <2> QED
    BY <1>1, <1>2, <1>4, <2>2 DEF CheckShape, NoAnchor
<1>6. LiveOk(v)'
  <2>1. ToSet(DateRows(c.day)) = OnDay(rows, c.day) /\ LeafList(Leaves(DateRows(c.day)))
    BY DayRows
  <2>2. \A r \in OnDay(rows, c.day) : WasRead(r, c.day)
    BY TableRead
  <2> QED
    BY <1>1, <1>4, <2>1, <2>2 DEF LiveOk, WasRead, RowShape, Same
<1>7. ASSUME damage = 0 PROVE CalmOk(v)'
  <2>1. ASSUME c.stored.settled PROVE Leaves(DateRows(c.day)) = c.stored.leaves
    <3>1. c.stored # NoAnchor
      BY <2>1 DEF NoAnchor
    <3> QED
      BY <1>2, <1>7, <2>1, <3>1 DEF CheckShape, AnchorOk
  <2> QED
    BY <1>1, <1>2, <1>4, <1>7, <2>1 DEF CalmOk
<1> QED
  BY <1>1, <1>3, <1>5, <1>6, <1>7, CheckKeeps

\* The store cannot be read: nothing is checked any more.
LEMMA RecomputeFailsKeeps ==
    ASSUME IInv, AnchorsInv, NEW v \in Verifiers, RecomputeFails(v)
    PROVE  AnchorsInv'
<1>1. /\ check[v].at \in {"recompute", "sessions"}
      /\ UNCHANGED <<rows, ever, pc, mine, today, damage, anchors, pending>>
      /\ UNCHANGED <<vpc, vsession, snap, due, report>>
      /\ check' = [check EXCEPT ![v] = Unchecked]
  BY DEF RecomputeFails, tableVars, writerVars, verifyVars
<1>2. /\ check'[v] = Unchecked /\ report'[v] = report[v]
      /\ check' = [check EXCEPT ![v] = check'[v]] /\ report' = [report EXCEPT ![v] = report'[v]]
      /\ CheckShape(v) /\ (damage = 0 => CalmOk(v))
  BY <1>1 DEF AnchorsInv, CheckInv, CalmInv
<1>3. CheckShape(v)' /\ LiveOk(v)' /\ (damage = 0 => CalmOk(v)')
  <2>1. IsList(<<>>) /\ ToSet(<<>>) = {}
    BY DEF IsList, ToSet
  <2> QED
    BY <1>1, <1>2, <2>1 DEF CheckShape, CheckRecord, LiveOk, CalmOk, Unchecked, NoAnchor
<1> QED
  BY <1>1, <1>2, <1>3, CheckKeeps

\* Every session that has a row on the day is verified, or counts as broken, unless the
\* list of them could not be read.
LEMMA SessionsKeeps ==
    ASSUME IInv, WholeInv, AnchorsInv, NEW v \in Verifiers,
           SessionsOn(v) \/ NoSessions(v) \/ SessionsUnverified(v)
    PROVE  AnchorsInv'
<1> DEFINE c == check[v]
           todo == SessionsInOrder(c.day)
<1>1. /\ c.at = "sessions"
      /\ UNCHANGED <<rows, ever, pc, mine, today, damage, anchors, pending>>
      /\ UNCHANGED <<vpc, vsession, snap, due, report>>
      /\ \/ check' = [check EXCEPT ![v] = [c EXCEPT !.at = "verify", !.todo = todo]]
         \/ check' = [check EXCEPT ![v] = [c EXCEPT !.at = "verify", !.listed = FALSE]]
         \/ check' = [check EXCEPT ![v] = [c EXCEPT !.at = "verify", !.calm = FALSE,
                                                    !.broken = ToSet(todo)]]
  BY DEF SessionsOn, NoSessions, SessionsUnverified, vars, tableVars, writerVars, verifyVars
<1>2. /\ CheckShape(v) /\ LiveOk(v) /\ vpc[v] = "idle"
      /\ damage = 0 => rows = ever /\ CalmOk(v)
  BY <1>1 DEF AnchorsInv, CheckInv, CheckShape, LiveInv, CalmInv
<1>3. /\ \/ check'[v] = [c EXCEPT !.at = "verify", !.todo = todo]
         \/ check'[v] = [c EXCEPT !.at = "verify", !.listed = FALSE]
         \/ check'[v] = [c EXCEPT !.at = "verify", !.calm = FALSE, !.broken = ToSet(todo)]
      /\ check' = [check EXCEPT ![v] = check'[v]] /\ report' = [report EXCEPT ![v] = report'[v]]
      /\ report'[v] = report[v]
  BY <1>1 DEF AnchorsInv, CheckInv
<1>4. /\ check'[v].at = "verify" /\ check'[v].day = c.day /\ check'[v].stored = c.stored
      /\ check'[v].live = c.live
      /\ \/ check'[v].todo = todo /\ check'[v].broken = c.broken /\ check'[v].calm = c.calm
         \/ /\ check'[v].todo = c.todo /\ check'[v].broken = c.broken
            /\ check'[v].calm = c.calm /\ ~check'[v].listed
         \/ check'[v].todo = c.todo /\ check'[v].broken = ToSet(todo) /\ check'[v].calm = FALSE
      /\ CheckRecord(check'[v])
  <2> HIDE DEF todo
  <2> QED
    BY <1>2, <1>3 DEF CheckShape, CheckRecord
<1>5. /\ IsList(todo) /\ ToSet(todo) = {r.session : r \in OnDay(rows, c.day)}
      /\ ToSet(todo) \subseteq Sessions
  <2>1. IsList(todo) /\ ToSet(todo) = {r.session : r \in OnDay(rows, c.day)}
    BY DayRows
  <2>2. \A r \in OnDay(rows, c.day) : r.session \in Sessions
    BY DEF OnDay, IInv, Typed, TypeOK
  <2> HIDE DEF todo
  <2> QED
    BY <2>1, <2>2
<1> HIDE DEF todo
<1>6. CheckShape(v)'
  <2>1. AnchorOk(c.stored) = AnchorOk(check[v].stored)' /\ check'[v].stored = c.stored
    BY <1>1, <1>4, AnchorOkKept
  <2>2. c.stored # NoAnchor => AnchorOk(check[v].stored)' /\ c.stored.day = c.day
    BY <1>2, <2>1 DEF CheckShape
  <2>3. IsList(check'[v].todo) /\ ToSet(check'[v].todo) \subseteq Sessions
    BY <1>2, <1>4, <1>5 DEF CheckShape
  <2> QED
    BY <1>1, <1>2, <1>4, <2>2, <2>3 DEF CheckShape, NoAnchor, IsList, ToSet
<1>7. LiveOk(v)'
  <2>1. ASSUME NEW r \in ToSet(c.live)
        PROVE  WasRead(r, c.day) /\ (check'[v].listed => Shown(v, r)')
    <3>1. WasRead(r, c.day)
      BY <1>1, <1>2 DEF LiveOk
    <3>2. ASSUME r \in rows PROVE r.session \in ToSet(todo)
      BY <1>5, <3>1, <3>2 DEF WasRead, OnDay
    <3> QED
      BY <1>1, <1>2, <1>4, <3>1, <3>2 DEF Shown, ToSet
  <2> QED
    BY <1>1, <1>2, <1>4, <2>1 DEF LiveOk, WasRead, RowShape, Same
<1>8. ASSUME damage = 0 PROVE CalmOk(v)'
  BY <1>1, <1>2, <1>4, <1>8 DEF CalmOk
<1> QED
  BY <1>1, <1>3, <1>6, <1>7, <1>8, CheckKeeps

\* The rows of the next session are read: the edited ones that are there are among them.
LEMMA CheckRowsKeeps ==
    ASSUME IInv, AnchorsInv, NEW v \in Verifiers, CheckRows(v)
    PROVE  AnchorsInv'
<1> DEFINE c == check[v]
           s == Head(c.todo)
<1>1. /\ c.at = "verify" /\ c.todo # <<>> /\ vpc'[v] = "head" /\ vsession'[v] = s
      /\ snap'[v] = Of(rows, s) /\ due'[v] = Of(ever, s)
      /\ \A u \in Verifiers \ {v} : /\ vpc'[u] = vpc[u] /\ vsession'[u] = vsession[u]
                                  /\ snap'[u] = snap[u] /\ due'[u] = due[u]
      /\ UNCHANGED <<rows, ever, pc, mine, today, damage, anchors, pending, check, report>>
  BY DEF CheckRows, VerifyRows, tableVars, writerVars, anchorVars, IInv, Typed, TypeOK,
         VarsAreFunctions
<1>2. /\ CheckShape(v) /\ LiveOk(v)
      /\ damage = 0 => rows = ever /\ CalmOk(v)
      /\ check' = [check EXCEPT ![v] = check'[v]] /\ report' = [report EXCEPT ![v] = report'[v]]
  BY <1>1 DEF AnchorsInv, CheckInv, LiveInv, CalmInv
<1>3. CheckShape(v)'
  <2>1. AnchorOk(c.stored) = AnchorOk(check[v].stored)'
    BY <1>1, AnchorOkKept
  <2> QED
    BY <1>1, <1>2, <2>1 DEF CheckShape, CheckRecord, NoAnchor, IsList, ToSet
<1>4. LiveOk(v)'
  <2>1. ASSUME NEW r \in ToSet(c.live) PROVE WasRead(r, c.day) /\ (c.listed => Shown(v, r)')
    BY <1>1, <1>2 DEF LiveOk, Shown, Of, ToSet
  <2> QED
    BY <1>1, <1>2, <2>1 DEF LiveOk, WasRead, RowShape, Same
<1>5. damage = 0 => CalmOk(v)'
  BY <1>1, <1>2 DEF CalmOk
<1> QED
  BY <1>1, <1>2, <1>3, <1>4, <1>5, CheckKeeps

\* An edited row that was read fails its hash, and an undamaged session is intact.
LEMMA CheckHeadKeeps ==
    ASSUME IInv, WholeInv', AnchorsInv, NEW v \in Verifiers, CheckHead(v)
    PROVE  AnchorsInv'
<1> DEFINE c == check[v]
           s == vsession[v]
           d == check'[v]
           todo == Tail(c.todo)
<1>1. /\ c.at = "verify" /\ vpc[v] = "head" /\ vpc'[v] = "idle"
      /\ UNCHANGED <<vsession, snap, due, quiet>>
      /\ \A u \in Verifiers \ {v} : vpc'[u] = vpc[u]
      /\ UNCHANGED <<rows, ever, pc, mine, today, damage, anchors, pending, report>>
      /\ verdict'[v] = "intact" \/ verdict'[v] = "broken"
      /\ verdict'[v] = "intact" => RowsHash(snap[v])
  BY DEF CheckHead, VerifyHead, tableVars, writerVars, IInv, Typed, TypeOK
<1>2. /\ CheckShape(v) /\ LiveOk(v)
      /\ damage = 0 => rows = ever /\ CalmOk(v)
  BY <1>1 DEF AnchorsInv, CheckInv, LiveInv, CalmInv
<1>3. /\ d = [c EXCEPT !.todo = todo,
                       !.broken = IF verdict'[v] = "intact" THEN @ ELSE @ \cup {s},
                       !.calm = @ /\ quiet[v] /\ (s \in Legacy => due[v] \subseteq OldRows)]
      /\ check' = [check EXCEPT ![v] = check'[v]] /\ report' = [report EXCEPT ![v] = report'[v]]
      /\ report'[v] = report[v]
  BY <1>1 DEF CheckHead, AnchorsInv, CheckInv
<1>4. /\ d.at = "verify" /\ d.day = c.day /\ d.stored = c.stored /\ d.live = c.live
      /\ d.todo = todo
      /\ d.broken = IF verdict'[v] = "intact" THEN c.broken ELSE c.broken \cup {s}
      /\ d.calm = (c.calm /\ quiet[v] /\ (s \in Legacy => due[v] \subseteq OldRows))
      /\ d.listed = c.listed /\ CheckRecord(d)
  <2> HIDE DEF todo
  <2> QED
    BY <1>1, <1>2, <1>3 DEF CheckShape, CheckRecord
<1>5. /\ s = Head(c.todo) /\ c.todo # <<>>
      /\ IsList(todo) /\ ToSet(c.todo) = {s} \cup ToSet(todo)
  <2>1. s = Head(c.todo) /\ c.todo # <<>> /\ IsList(c.todo)
    BY <1>1, <1>2 DEF CheckShape
  <2> QED
    BY <2>1, HeadAndTail
<1> HIDE DEF todo, d
<1>6. CheckShape(v)'
  <2>1. AnchorOk(c.stored) = AnchorOk(check[v].stored)' /\ check'[v].stored = c.stored
    BY <1>1, <1>4, AnchorOkKept DEF d
  <2>2. c.stored # NoAnchor => AnchorOk(check[v].stored)' /\ c.stored.day = c.day
    BY <1>2, <2>1 DEF CheckShape
  <2>3. IsList(d.todo) /\ ToSet(d.todo) \subseteq Sessions
    BY <1>2, <1>4, <1>5 DEF CheckShape
  <2> QED
    BY <1>1, <1>2, <1>4, <2>2, <2>3 DEF CheckShape, CheckRecord, NoAnchor, IsList, ToSet, d
<1>7. LiveOk(v)'
  <2>1. ASSUME NEW r \in ToSet(c.live), r \in rows \ ever, c.listed
        PROVE  r.session \in d.broken \/ r.session \in ToSet(todo)
    <3>1. Shown(v, r) /\ WasRead(r, c.day)
      BY <1>1, <1>2, <2>1 DEF LiveOk
    <3>2. CASE r.session \in c.broken
      BY <1>4, <3>2
    <3>3. CASE r.session \in ToSet(c.todo) /\ r.session # s
      BY <1>5, <3>3
    <3>4. CASE r.session = s /\ r \in snap[v]
      <4>1. PICK e \in ever : Same(r, e)
        BY <3>1 DEF WasRead
      <4>2. RowShape(r) /\ RowShape(e) /\ e.hash = RowHash(e)
        BY <3>1 DEF WasRead, IInv, Typed, TypeOK, OriginInv
      <4>3. r.hash # RowHash(r)
        BY <2>1, <4>1, <4>2, HashBindsRow
      <4>4. verdict'[v] # "intact"
        BY <1>1, <3>4, <4>3 DEF RowsHash
      <4> QED
        BY <1>4, <3>4, <4>4
    <3> QED
      BY <1>1, <2>1, <3>1, <3>2, <3>3, <3>4 DEF Shown
  <2>2. ASSUME NEW r \in ToSet(c.live) PROVE WasRead(r, c.day) /\ (c.listed => Shown(v, r)')
    BY <1>1, <1>2, <1>4, <2>1 DEF LiveOk, Shown, d, ToSet
  <2> QED
    BY <1>1, <1>2, <1>4, <2>2 DEF LiveOk, WasRead, RowShape, Same, d
<1>8. ASSUME damage = 0 PROVE CalmOk(v)'
  <2>1. CalmOk(v)
    BY <1>2, <1>8
  <2>2. d.calm => d.broken = {}
    <3> SUFFICES ASSUME d.calm PROVE d.broken = {}
      OBVIOUS
    <3>1. c.calm /\ quiet[v] /\ (s \in Legacy => due[v] \subseteq OldRows)
      BY <1>4
    <3>2. verdict'[v] # "broken"
      BY <1>1, <2>1, <3>1 DEF WholeInv, IntactAccepted, CalmOk
    <3> QED
      BY <1>1, <1>4, <2>1, <3>1, <3>2 DEF CalmOk
  <2> QED
    BY <1>1, <1>4, <2>1, <2>2 DEF CalmOk, d
<1> QED
  BY <1>1, <1>3, <1>6, <1>7, <1>8, CheckKeeps

LEMMA CheckRaisesKeeps ==
    ASSUME IInv, AnchorsInv, NEW v \in Verifiers, CheckRaises(v)
    PROVE  AnchorsInv'
<1> DEFINE c == check[v]
           s == Head(c.todo)
           d == check'[v]
           todo == Tail(c.todo)
<1>1. /\ c.at = "verify" /\ c.todo # <<>> /\ vpc'[v] = "idle"
      /\ UNCHANGED <<vsession, snap, due>>
      /\ \A u \in Verifiers \ {v} : vpc'[u] = vpc[u]
      /\ UNCHANGED <<rows, ever, pc, mine, today, damage, anchors, pending, report>>
  BY DEF CheckRaises, tableVars, writerVars, IInv, Typed, TypeOK
<1>2. /\ CheckShape(v) /\ LiveOk(v)
      /\ damage = 0 => rows = ever /\ CalmOk(v)
  BY <1>1 DEF AnchorsInv, CheckInv, LiveInv, CalmInv
<1>3. /\ d = [c EXCEPT !.todo = todo, !.broken = @ \cup {s}, !.calm = FALSE]
      /\ check' = [check EXCEPT ![v] = check'[v]] /\ report' = [report EXCEPT ![v] = report'[v]]
      /\ report'[v] = report[v]
  BY <1>1 DEF CheckRaises, AnchorsInv, CheckInv
<1>4. /\ d.at = "verify" /\ d.day = c.day /\ d.stored = c.stored /\ d.live = c.live
      /\ d.todo = todo /\ d.broken = c.broken \cup {s} /\ d.calm = FALSE
      /\ d.listed = c.listed /\ CheckRecord(d)
  <2> HIDE DEF todo, s
  <2> QED
    BY <1>1, <1>2, <1>3 DEF CheckShape, CheckRecord
<1>5. IsList(todo) /\ ToSet(c.todo) = {s} \cup ToSet(todo)
  BY <1>1, <1>2, HeadAndTail DEF CheckShape
<1> HIDE DEF todo, d, s
<1>6. CheckShape(v)'
  <2>1. AnchorOk(c.stored) = AnchorOk(check[v].stored)' /\ check'[v].stored = c.stored
    BY <1>1, <1>4, AnchorOkKept DEF d
  <2>2. c.stored # NoAnchor => AnchorOk(check[v].stored)' /\ c.stored.day = c.day
    BY <1>2, <2>1 DEF CheckShape
  <2>3. IsList(d.todo) /\ ToSet(d.todo) \subseteq Sessions
    BY <1>2, <1>4, <1>5 DEF CheckShape
  <2> QED
    BY <1>1, <1>2, <1>4, <2>2, <2>3 DEF CheckShape, CheckRecord, NoAnchor, IsList, ToSet, d
<1>7. LiveOk(v)'
  <2>1. ASSUME NEW r \in ToSet(c.live) PROVE WasRead(r, c.day) /\ (c.listed => Shown(v, r)')
    BY <1>1, <1>2, <1>4, <1>5 DEF LiveOk, Shown, d
  <2> QED
    BY <1>1, <1>2, <1>4, <2>1 DEF LiveOk, WasRead, RowShape, Same, d
<1>8. damage = 0 => CalmOk(v)'
  BY <1>1, <1>2, <1>4 DEF CalmOk, d
<1> QED
  BY <1>1, <1>3, <1>6, <1>7, <1>8, CheckKeeps

\* The report is that of a day whose rows are the anchored ones, none of them edited.
LEMMA EndCheckKeeps ==
    ASSUME IInv, AnchorsInv, NEW v \in Verifiers, EndCheck(v)
    PROVE  AnchorsInv'
<1> DEFINE c == check[v]
           e == report'[v]
<1>1. /\ c.at = "verify" /\ c.todo = <<>> /\ vpc[v] = "idle" /\ vpc' = vpc
      /\ vsession'[v] = NoSession /\ snap'[v] = {} /\ due'[v] = {}
      /\ \A u \in Verifiers \ {v} : /\ vsession'[u] = vsession[u]
                                  /\ snap'[u] = snap[u] /\ due'[u] = due[u]
      /\ UNCHANGED <<rows, ever, pc, mine, today, damage, anchors, pending>>
      /\ check' = [check EXCEPT ![v] = Unchecked]
  BY DEF EndCheck, tableVars, writerVars, IInv, Typed, TypeOK, VarsAreFunctions
<1>2. /\ CheckShape(v) /\ LiveOk(v)
      /\ damage = 0 => CalmOk(v)
  BY <1>1 DEF AnchorsInv, CheckInv, LiveInv, CalmInv
<1>3. /\ check'[v] = Unchecked /\ check' = [check EXCEPT ![v] = check'[v]]
      /\ report' = [report EXCEPT ![v] = report'[v]]
      /\ e.match = Matches(c) /\ e.tampered = (c.stored # NoAnchor /\ ~Matches(c))
      /\ e.stored = c.stored /\ e.live = c.live /\ e.still = ToSet(c.live) \cap rows
      /\ e.calm = c.calm /\ e.listed = c.listed
  BY <1>1 DEF EndCheck, AnchorsInv, CheckInv
<1> HIDE DEF e
<1>4. CheckShape(v)' /\ LiveOk(v)' /\ CalmOk(v)'
  <2>1. IsList(<<>>) /\ ToSet(<<>>) = {}
    BY DEF IsList, ToSet
  <2> QED
    BY <1>1, <1>3, <2>1 DEF CheckShape, CheckRecord, LiveOk, CalmOk, Unchecked, NoAnchor
<1>5. c.stored # NoAnchor =>
        LeafList(c.stored.leaves) /\ c.stored.root = MerkleRoot(c.stored.leaves)
  BY <1>2 DEF CheckShape, AnchorOk
<1>6. ASSUME Matches(c)
      PROVE  Leaves(c.live) = c.stored.leaves /\ (e.listed => e.still \subseteq ever)
  <2>1. Leaves(c.live) = c.stored.leaves
    BY <1>1, <1>2, <1>5, <1>6, MerkleInjective DEF Matches, LiveOk
  <2>2. ASSUME NEW r \in ToSet(c.live), r \in rows, c.listed PROVE r \in ever
    <3>1. Shown(v, r) /\ c.broken = {}
      BY <1>1, <1>2, <1>6, <2>2 DEF LiveOk, Matches
    <3>2. ToSet(<<>>) = {}
      BY DEF ToSet
    <3> QED
      BY <1>1, <2>2, <3>1, <3>2 DEF Shown
  <2> QED
    BY <1>3, <2>1, <2>2
<1>7. ASSUME damage = 0, c.stored.settled, c.calm
      PROVE  Matches(c)
  <2>1. c.stored # NoAnchor
    BY <1>7 DEF NoAnchor
  <2> QED
    BY <1>1, <1>2, <1>5, <1>7, <2>1 DEF Matches, CalmOk
<1>8. /\ e.match => Leaves(e.live) = e.stored.leaves /\ (e.listed => e.still \subseteq ever)
      /\ damage = 0 /\ e.stored.settled /\ e.calm => ~e.tampered
  BY <1>3, <1>6, <1>7
<1> QED
  BY <1>1, <1>3, <1>4, <1>8, CheckKeeps DEF e

-----------------------------------------------------------------------------
LEMMA AnchorsInductive == IInv /\ WholeInv /\ AnchorsInv /\ [AnchorNext]_allVars => AnchorsInv'
<1> SUFFICES ASSUME IInv, WholeInv, AnchorsInv, [AnchorNext]_allVars PROVE AnchorsInv'
  OBVIOUS
<1>1. IInv' /\ WholeInv'
  BY ChainHolds DEF AnchorsInv
<1>2. CASE UNCHANGED allVars
  <2>1. /\ UNCHANGED <<rows, pc, mine, ever, damage, today, vpc, vsession, snap, due>>
        /\ UNCHANGED <<anchors, pending, check, report>>
    BY <1>2 DEF allVars, anchorVars, vars, tableVars, writerVars, verifyVars
  <2>2. \A a : AnchorOk(a) = AnchorOk(a)'
    BY <2>1, AnchorOkKept
  <2>3. StoreInv' /\ CheckInv'
    BY <2>1, <2>2 DEF AnchorsInv, StoreInv, CheckInv, CheckShape, CheckRecord, IsList, ToSet, NoAnchor
  <2>4. LiveInv' /\ CalmInv'
    BY <2>1 DEF AnchorsInv, LiveInv, LiveOk, WasRead, Shown, RowShape, Same, ToSet, Leaves,
                CalmInv, CalmOk
  <2>5. MatchMeansUnchanged' /\ SettledDayVerifies'
    BY <2>1 DEF AnchorsInv, MatchMeansUnchanged, SettledDayVerifies, Leaves
  <2> QED
    BY <2>3, <2>4, <2>5 DEF AnchorsInv
<1>3. ASSUME NEW v \in Verifiers,
             \/ Recompute(v) \/ RecomputeFails(v)
             \/ SessionsOn(v) \/ NoSessions(v) \/ SessionsUnverified(v)
             \/ CheckRows(v) \/ CheckHead(v) \/ CheckRaises(v) \/ EndCheck(v)
             \/ \E d \in 0 .. today : StartCheck(v, d)
      PROVE  AnchorsInv'
  BY <1>1, <1>3, StartCheckKeeps, RecomputeKeeps, RecomputeFailsKeeps, SessionsKeeps,
     CheckRowsKeeps, CheckHeadKeeps, CheckRaisesKeeps, EndCheckKeeps
<1> QED
  BY <1>2, <1>3, TableKeepsAnchors, MidnightKeeps, StoreKeeps DEF AnchorNext

LEMMA AnchorsSafety == AnchorSpec => [](IInv /\ WholeInv /\ AnchorsInv)
<1>1. AnchorInit => IInv /\ WholeInv /\ AnchorsInv
  BY InitEstablishes, WholeInitially, AnchorsInitially DEF AnchorInit
<1>2. IInv /\ WholeInv /\ AnchorsInv /\ [AnchorNext]_allVars => (IInv /\ WholeInv /\ AnchorsInv)'
  BY ChainHolds, AnchorsInductive DEF AnchorsInv
<1> QED
  BY <1>1, <1>2, PTL DEF AnchorSpec

\* verify_anchor(): for any number of sessions, writers and anchors, and however many
\* rows are lost or edited between its reads, a match means that no row of the day was
\* lost or inserted between the anchor and its reading of the day and, unless
\* _sessions_on() could not open the SQLite file and answered [], that none of the rows
\* it read is left edited.
THEOREM MatchNeverMistaken == AnchorSpec => []MatchMeansUnchanged
<1>1. AnchorsInv => MatchMeansUnchanged
  BY DEF AnchorsInv
<1> QED
  BY <1>1, AnchorsSafety, PTL

\* verify_anchor(): whatever the writers append to other days and sessions, an undamaged
\* day that was over when it was anchored is not reported tampered.
THEOREM SettledDayNeverAccused == AnchorSpec => []SettledDayVerifies
<1>1. AnchorsInv => SettledDayVerifies
  BY DEF AnchorsInv
<1> QED
  BY <1>1, AnchorsSafety, PTL
=============================================================================
