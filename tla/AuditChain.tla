----------------------------- MODULE AuditChain -----------------------------
(***************************************************************************)
(* The hash-chained audit log (audit.py): concurrent appends to            *)
(* genesis_audit_log and genesis_audit_chain_heads, verify_chain, and rows *)
(* that are lost or edited behind its back.                                *)
(*                                                                         *)
(* A row hash is modelled by the tuple of the fields it binds, which is    *)
(* SHA-256 without collisions; the v1 and the v2 formula bind the same     *)
(* fields and differ only in hashing the payload first.  The empty tuple   *)
(* is the empty string that starts a chain.                                *)
(***************************************************************************)
EXTENDS Naturals, FiniteSets, Sequences

CONSTANTS
    Sessions,    \* session ids
    Legacy,      \* sessions that have a row from before migration 005
    Writers,     \* threads and processes that call log()
    Verifiers,   \* callers of verify_chain()
    OneLock,     \* SQLite: one append lock; Postgres: one per session
    NoSession,
    MaxRows, MaxFailures, MaxDamage, MaxDay    \* bounds

ASSUME ChainAssumption ==
    /\ Legacy \subseteq Sessions /\ IsFiniteSet(Legacy) /\ Cardinality(Legacy) <= 1
    /\ NoSession \notin Sessions
    /\ OneLock \in BOOLEAN
    /\ MaxRows \in Nat /\ MaxFailures \in Nat /\ MaxDamage \in Nat /\ MaxDay \in Nat

Kinds == {"tool_intent", "tool_call"}
EmptyHash == <<>>

VARIABLES
    rows,     \* the committed rows of the table
    head,     \* the chain heads; count 0 when a session has none
    nextId,   \* the id sequence
    today,    \* the date time.time() falls on; no chain depends on it, anchors do
    pc, mine, \* per writer: where it is in log(), and the row it is building
    vpc, vsession, snap, verdict,   \* per verifier: verify_chain()
    ever,     \* history: the rows log() committed, as committed
    due,      \* history: the rows of ever the verifier should have read
    quiet,    \* history: nothing was appended while the verifier ran
    failures, damage

tableVars  == <<rows, head>>
writerVars == <<nextId, pc, mine>>
verifyVars == <<vpc, vsession, snap, verdict, due>>
vars == <<tableVars, writerVars, verifyVars, today, ever, quiet, failures, damage>>

RowHash(r) == <<r.id, r.session, r.kind, r.day, r.prev>>

\* A row with its hash, as the append commits it.
Hashed(id, s, k, d, p) ==
    [id |-> id, session |-> s, kind |-> k, day |-> d, prev |-> p,
     hash |-> RowHash([id |-> id, session |-> s, kind |-> k, day |-> d, prev |-> p])]

Of(R, s) == {r \in R : r.session = s}
IsLast(R, r) == r \in R /\ \A q \in R : q.id <= r.id

NoHead == [id |-> 0, hash |-> EmptyHash, count |-> 0]

\* A row under construction.
Draft(s, k, d) ==
    [id |-> 0, session |-> s, kind |-> k, day |-> d, prev |-> EmptyHash, hash |-> EmptyHash]
Blank == Draft(NoSession, "tool_call", 0)

OldRows == {Hashed(1, s, "tool_call", 0, EmptyHash) : s \in Legacy}

Init ==
    /\ rows = OldRows
    /\ head = [s \in Sessions |-> NoHead]
    /\ nextId = 2
    /\ today = 0
    /\ pc = [w \in Writers |-> "idle"]
    /\ mine = [w \in Writers |-> Blank]
    /\ vpc = [v \in Verifiers |-> "idle"]
    /\ vsession = [v \in Verifiers |-> NoSession]
    /\ snap = [v \in Verifiers |-> {}]
    /\ verdict = [v \in Verifiers |-> "none"]
    /\ ever = OldRows
    /\ due = [v \in Verifiers |-> {}]
    /\ quiet = [v \in Verifiers |-> TRUE]
    /\ failures = 0
    /\ damage = 0

-----------------------------------------------------------------------------
(* AuditLog.log                                                            *)

\* The ids drawn, and those the calls under way will draw, stay within MaxRows.
RoomLeft ==
    Cardinality({x \in Writers : pc[x] \in {"lock", "read", "insert"}}) + nextId <= MaxRows + 1

\* log() takes its timestamp before it waits for the lock.
Log(w, s, k) ==
    /\ pc[w] = "idle" /\ RoomLeft
    /\ pc' = [pc EXCEPT ![w] = "lock"]
    /\ mine' = [mine EXCEPT ![w] = Draft(s, k, today)]
    /\ UNCHANGED <<tableVars, nextId, verifyVars, today, ever, quiet, failures, damage>>

Holding(w) == pc[w] \in {"read", "insert", "commit"}

\* mutant: no lock is taken.
LockIsFree(w) == TRUE

\* pg_advisory_xact_lock on the session, or _sqlite_append_lock and BEGIN
\* IMMEDIATE on the file.
LockFree(w) ==
    \A x \in Writers \ {w} : Holding(x) => ~OneLock /\ mine[x].session # mine[w].session

TakeLock(w) ==
    /\ pc[w] = "lock" /\ LockFree(w)
    /\ pc' = [pc EXCEPT ![w] = "read"]
    /\ UNCHANGED <<tableVars, nextId, mine, verifyVars, today, ever, quiet, failures, damage>>

\* mutant: the first row of the session is taken for the last.
TailHashOldest(s) ==
    IF Of(rows, s) = {} THEN EmptyHash
    ELSE (CHOOSE r \in Of(rows, s) : \A q \in Of(rows, s) : r.id <= q.id).hash

\* SELECT row_hash ... ORDER BY id DESC LIMIT 1
TailHash(s) ==
    IF Of(rows, s) = {} THEN EmptyHash ELSE (CHOOSE r \in Of(rows, s) : IsLast(Of(rows, s), r)).hash

ReadPrev(w) ==
    /\ pc[w] = "read"
    /\ mine' = [mine EXCEPT ![w].prev = TailHash(mine[w].session)]
    /\ pc' = [pc EXCEPT ![w] = "insert"]
    /\ UNCHANGED <<tableVars, nextId, verifyVars, today, ever, quiet, failures, damage>>

\* The INSERT draws the id; the row is not visible to others yet.
InsertRow(w) ==
    /\ pc[w] = "insert"
    /\ mine' = [mine EXCEPT ![w].id = nextId]
    /\ nextId' = nextId + 1
    /\ pc' = [pc EXCEPT ![w] = "commit"]
    /\ UNCHANGED <<tableVars, verifyVars, today, ever, quiet, failures, damage>>

\* mutant: the head is written when the session has none, and never again.
UpsertHeadOnce(r) ==
    IF head[r.session].count = 0
    THEN [id |-> r.id, hash |-> r.hash, count |-> 1] ELSE head[r.session]

UpsertHead(r) ==
    [id |-> r.id, hash |-> r.hash, count |-> head[r.session].count + 1]

\* Row, row hash and head are committed together, and the lock released.
Commit(w) ==
    LET m == mine[w]
        r == Hashed(m.id, m.session, m.kind, m.day, m.prev)
    IN  /\ pc[w] = "commit"
        /\ rows' = rows \cup {r}
        /\ head' = [head EXCEPT ![m.session] = UpsertHead(r)]
        /\ ever' = ever \cup {r}
        /\ quiet' = [v \in Verifiers |-> quiet[v] /\ vsession[v] # m.session]
        /\ pc' = [pc EXCEPT ![w] = "idle"]
        /\ mine' = [mine EXCEPT ![w] = Blank]
        /\ UNCHANGED <<nextId, verifyVars, today, failures, damage>>

\* An error, a statement timeout or a crash: the transaction rolls back.  The
\* Postgres sequence keeps the id, SQLite takes it back with the transaction.
Fail(w) ==
    /\ pc[w] # "idle" /\ failures < MaxFailures
    /\ failures' = failures + 1
    /\ nextId' = IF OneLock /\ pc[w] = "commit" THEN nextId - 1 ELSE nextId
    /\ pc' = [pc EXCEPT ![w] = "idle"]
    /\ mine' = [mine EXCEPT ![w] = Blank]
    /\ UNCHANGED <<tableVars, verifyVars, today, ever, quiet, damage>>

-----------------------------------------------------------------------------
(* AuditLog.verify_chain                                                   *)

\* Check 1: the row hash follows from the row's own fields.
RowsHash(R) == \A r \in R : r.hash = RowHash(r)

\* Check 2: in the order of the ids, each row links to the one before it.
RowsLink(R) ==
    \A r \in R :
        LET before == {q \in R : q.id < r.id}
        IN  IF before = {} THEN r.prev = EmptyHash
            ELSE \E q \in before : IsLast(before, q) /\ r.prev = q.hash

\* mutant: the head's count is not compared.
CompleteByTail(R, h) ==
    h.count > 0 /\ R # {} => \E r \in R : IsLast(R, r) /\ r.hash = h.hash /\ r.id = h.id

\* Check 3: the rows are as many as the head says and end where it says.
Complete(R, h) ==
    h.count > 0 =>
        /\ Cardinality(R) = h.count
        /\ R # {} => \E r \in R : IsLast(R, r) /\ r.hash = h.hash /\ r.id = h.id

\* The rows are read in one transaction ...
VerifyRows(v, s) ==
    /\ vpc[v] = "idle"
    /\ vpc' = [vpc EXCEPT ![v] = "head"]
    /\ vsession' = [vsession EXCEPT ![v] = s]
    /\ snap' = [snap EXCEPT ![v] = Of(rows, s)]
    /\ due' = [due EXCEPT ![v] = Of(ever, s)]
    /\ quiet' = [quiet EXCEPT ![v] = TRUE]
    /\ verdict' = [verdict EXCEPT ![v] = "none"]
    /\ UNCHANGED <<tableVars, writerVars, today, ever, failures, damage>>

\* ... and the head in another.
VerifyHead(v) ==
    /\ vpc[v] = "head"
    /\ verdict' = [verdict EXCEPT ![v] =
            IF /\ Complete(snap[v], head[vsession[v]])
               /\ RowsLink(snap[v]) /\ RowsHash(snap[v])
            THEN "intact" ELSE "broken"]
    /\ vpc' = [vpc EXCEPT ![v] = "idle"]
    /\ UNCHANGED <<tableVars, writerVars, vsession, snap, due, today, ever, quiet,
                   failures, damage>>

-----------------------------------------------------------------------------
(* What happens to the table outside log()                                 *)

\* A failed restore, partial replication or a DELETE with a bad WHERE.
LoseRow(r) ==
    /\ damage < MaxDamage
    /\ damage' = damage + 1
    /\ rows' = rows \ {r}
    /\ UNCHANGED <<head, writerVars, verifyVars, today, ever, quiet, failures>>

\* A bound column of an intact row is rewritten and the row hash left as it was.
EditRow(r) ==
    /\ damage < MaxDamage /\ r \in ever
    /\ damage' = damage + 1
    /\ \E k \in Kinds \ {r.kind} : rows' = (rows \ {r}) \cup {[r EXCEPT !.kind = k]}
    /\ UNCHANGED <<head, writerVars, verifyVars, today, ever, quiet, failures>>

-----------------------------------------------------------------------------
AppendStep(w) == TakeLock(w) \/ ReadPrev(w) \/ InsertRow(w) \/ Commit(w)

\* What happens to the tables, by log() or behind its back.
TableNext ==
    \/ \E w \in Writers, s \in Sessions, k \in Kinds : Log(w, s, k)
    \/ \E w \in Writers : AppendStep(w) \/ Fail(w)
    \/ \E r \in rows : LoseRow(r) \/ EditRow(r)

Next ==
    \/ TableNext
    \/ \E v \in Verifiers, s \in Sessions : VerifyRows(v, s)
    \/ \E v \in Verifiers : VerifyHead(v)

Spec == Init /\ [][Next]_vars

-----------------------------------------------------------------------------
(* Properties                                                              *)

RowShape(r) ==
    r \in [id : Nat, session : Sessions \cup {NoSession}, kind : Kinds, day : Nat,
          prev : {r.prev}, hash : {r.hash}]

\* Types: committed rows have drawn an id from the sequence, and a writer holds
\* one exactly when it is about to commit.
TypeOK ==
    /\ \A r \in rows \cup ever : RowShape(r) /\ r.session \in Sessions /\ r.id < nextId
    /\ head = [s \in Sessions |-> head[s]]
    /\ \A s \in Sessions : head[s] \in [id : Nat, hash : {head[s].hash}, count : Nat]
    /\ nextId \in Nat /\ today \in 0 .. MaxDay
    /\ pc \in [Writers -> {"idle", "lock", "read", "insert", "commit"}]
    /\ mine = [w \in Writers |-> mine[w]]
    /\ \A w \in Writers :
        /\ RowShape(mine[w])
        /\ pc[w] = "idle" <=> mine[w].session = NoSession
        /\ pc[w] = "commit" <=> mine[w].id # 0
    /\ vpc \in [Verifiers -> {"idle", "head"}]
    /\ vsession \in [Verifiers -> Sessions \cup {NoSession}]
    /\ verdict \in [Verifiers -> {"none", "intact", "broken"}]
    /\ quiet \in [Verifiers -> BOOLEAN]
    /\ failures \in 0 .. MaxFailures /\ damage \in 0 .. MaxDamage

\* _log_postgres: the lock keeps the chain from forking.  No two rows of a
\* session link to the same predecessor, even after rows were lost.
NoFork ==
    \A r, q \in rows : r.session = q.session /\ r.prev = q.prev => r = q

\* verify_chain: whatever was lost from or edited in a session whose rows all
\* came with a head, a verification that read the table after that does not
\* report it intact, although it reads rows and head in two transactions.
DamageDetected ==
    \A v \in Verifiers :
        verdict[v] = "intact" /\ vsession[v] \notin Legacy => snap[v] = due[v]

\* The converse, for a verification no append came in between: an undamaged
\* session is reported intact, and so is one older than migration 005 as long as
\* nothing was appended to it since.
IntactAccepted ==
    \A v \in Verifiers :
        /\ verdict[v] = "broken" /\ quiet[v]
        /\ vsession[v] \in Legacy => due[v] \subseteq OldRows
        => snap[v] # due[v]

-----------------------------------------------------------------------------
(* What log() implements                                                   *)

\* What a reader of the table sees: the entries of the rows in the order of their ids.
Place(R, r) == Cardinality({q \in R : q.id <= r.id})
ById(R) == [i \in 1 .. Cardinality(R) |-> (CHOOSE r \in R : Place(R, r) = i).kind]

Ledger == INSTANCE AuditLedger WITH
    ledger <- [s \in Sessions |-> ById(Of(rows, s))],
    losses <- damage,
    Old <- [s \in Sessions |-> IF s \in Legacy THEN <<"tool_call">> ELSE <<>>]

\* log() implements the ledger: what a reader sees of a session grows at its end,
\* by one entry, whatever writers interleave and fail, and changes in no other way
\* but for the rows that are lost or edited outside log().
LedgerSpec == Ledger!Spec
=============================================================================
