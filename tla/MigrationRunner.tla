-------------------------- MODULE MigrationRunner --------------------------
(***************************************************************************)
(* migrations/runner.py: several deploys call migrate() against one        *)
(* database.  Each has its own checkout of the .sql files; a session-level *)
(* advisory lock keeps them apart until its connection is lost.            *)
(***************************************************************************)
EXTENDS Integers, Sequences, FiniteSets

CONSTANTS
    Runners,      \* calls of migrate()
    NoRunner,     \* the lock is free
    Files,        \* the NNN_ prefixes of migrations, ordered as numbers
    Texts,        \* what a migration can say
    NoRow,        \* the ledger has no row for a file
    Disk,         \* per runner, its checkout: a function from files to contents
    MaxLost,      \* bound on lost lock connections
    MaxFailures   \* bound on failing transactions and killed processes

\* The bytes of a file: its text and its line ends.
Contents == Texts \X {"lf", "crlf"}
On(r) == DOMAIN Disk[r]

ASSUME FilesAssumption == Files \subseteq Nat /\ NoRow \notin Contents /\ NoRunner \notin Runners
ASSUME DiskAssumption ==
    /\ DOMAIN Disk = Runners
    /\ \A r \in Runners : On(r) \subseteq Files /\ Disk[r] \in [On(r) -> Contents]
ASSUME FaultsAssumption == MaxLost \in Nat /\ MaxFailures \in Nat

VARIABLES
    ledger,    \* genesis_schema_migrations: the content applied for each file
    schema,    \* the migrations whose DDL the database has executed, in order
    lock,      \* who holds the advisory lock
    pc,        \* per runner
    todo,      \* per runner: the pending files it has still to apply
    lost,      \* lock connections lost
    failures   \* transactions failed and processes killed

vars == <<ledger, schema, lock, pc, todo, lost, failures>>

Init ==
    /\ ledger = [f \in Files |-> NoRow]
    /\ schema = <<>>
    /\ lock = NoRunner
    /\ pc = [r \in Runners |-> "idle"]
    /\ todo = [r \in Runners |-> {}]
    /\ lost = 0 /\ failures = 0

Applied == {f \in Files : ledger[f] # NoRow}

-----------------------------------------------------------------------------
\* checksums a file of this content may have been recorded with
Equivalents(c) == {c, <<c[1], "lf">>, <<c[1], "crlf">>}

\* mutant: line ends are part of the identity.
DriftedRaw(r) == {f \in Applied \cap On(r) : ledger[f] # Disk[r][f]}

Drifted(r) == {f \in Applied \cap On(r) : ledger[f] \notin Equivalents(Disk[r][f])}

Vanished(r) == Applied \ On(r)

Pending(r) == On(r) \ Applied

Late(r) == {f \in Pending(r) : \E g \in Applied : f < g}

\* reconcile raises on each of these.
Reconciled(r) == Drifted(r) = {} /\ Vanished(r) = {} /\ Late(r) = {}

-----------------------------------------------------------------------------
\* mutant: the lock connection stays open.
KeepLock(r) == lock

\* The finally clause of _with_advisory_lock, or the end of the process.
ReleaseLock(r) == IF lock = r THEN NoRunner ELSE lock

End(r, label) ==
    /\ pc' = [pc EXCEPT ![r] = label]
    /\ lock' = ReleaseLock(r)

\* migrate(): connect and ask for the lock.
Begin(r) ==
    /\ pc[r] = "idle"
    /\ pc' = [pc EXCEPT ![r] = "waiting"]
    /\ UNCHANGED <<ledger, schema, lock, todo, lost, failures>>

TakeLock(r) ==
    /\ pc[r] = "waiting" /\ lock = NoRunner
    /\ lock' = r
    /\ pc' = [pc EXCEPT ![r] = "read"]
    /\ UNCHANGED <<ledger, schema, todo, lost, failures>>

\* The ledger is read in a transaction of its own, and reconciled.
ReadLedger(r) ==
    /\ pc[r] = "read" /\ Reconciled(r)
    /\ todo' = [todo EXCEPT ![r] = Pending(r)]
    /\ pc' = [pc EXCEPT ![r] = "next"]
    /\ UNCHANGED <<ledger, schema, lock, lost, failures>>

\* ChecksumMismatch, MissingMigrationFile or OutOfOrderMigration.
Refuse(r) ==
    /\ pc[r] = "read" /\ ~Reconciled(r)
    /\ End(r, "refused")
    /\ UNCHANGED <<ledger, schema, todo, lost, failures>>

Finish(r) ==
    /\ pc[r] = "next" /\ todo[r] = {}
    /\ End(r, "done")
    /\ UNCHANGED <<ledger, schema, todo, lost, failures>>

\* _assert_lock_alive before each file.
AssertLockAlive(r) ==
    /\ pc[r] = "next" /\ todo[r] # {}
    /\ IF lock = r THEN pc' = [pc EXCEPT ![r] = "apply"] /\ UNCHANGED lock
                   ELSE End(r, "failed")
    /\ UNCHANGED <<ledger, schema, todo, lost, failures>>

\* mutant: a file that another runner recorded is applied again.
InsertAnyway(r, f) == TRUE

\* The primary key of the ledger.
InsertAllowed(r, f) == ledger[f] = NoRow

\* mutant: pending files are taken in any order.
AnyPending(r, f) == f \in todo[r]

NextFile(r, f) == f \in todo[r] /\ \A g \in todo[r] : f <= g

\* _apply_one: the DDL and the ledger row commit together.
ApplyOne(r) ==
    /\ pc[r] = "apply"
    /\ \E f \in todo[r] :
          /\ NextFile(r, f) /\ InsertAllowed(r, f)
          /\ schema' = Append(schema, f)
          /\ ledger' = [ledger EXCEPT ![f] = Disk[r][f]]
          /\ todo' = [todo EXCEPT ![r] = @ \ {f}]
    /\ pc' = [pc EXCEPT ![r] = "next"]
    /\ UNCHANGED <<lock, lost, failures>>

\* The ledger already has the row: the transaction is rolled back.
ApplyConflicts(r) ==
    /\ pc[r] = "apply"
    /\ \E f \in todo[r] : NextFile(r, f) /\ ~InsertAllowed(r, f)
    /\ End(r, "failed")
    /\ UNCHANGED <<ledger, schema, todo, lost, failures>>

\* A statement fails, a transaction-control statement is left in the body, the
\* connection drops or the process is killed: the transaction is rolled back.
Fail(r) ==
    /\ pc[r] \in {"waiting", "read", "next", "apply"} /\ failures < MaxFailures
    /\ failures' = failures + 1
    /\ End(r, "failed")
    /\ UNCHANGED <<ledger, schema, todo, lost>>

\* The connection that holds the lock is recycled: the lock is free, and its
\* holder does not know.
LoseLock(r) ==
    /\ lock = r /\ lost < MaxLost
    /\ lost' = lost + 1
    /\ lock' = NoRunner
    /\ UNCHANGED <<ledger, schema, pc, todo, failures>>

Move(r) ==
    \/ TakeLock(r) \/ ReadLedger(r) \/ Refuse(r) \/ Finish(r)
    \/ AssertLockAlive(r) \/ ApplyOne(r) \/ ApplyConflicts(r)

Next == \E r \in Runners : Begin(r) \/ Move(r) \/ Fail(r) \/ LoseLock(r)

Spec == Init /\ [][Next]_vars

\* A runner that can go on does; Postgres hands a free lock to its waiters.
FairSpec == Spec /\ \A r \in Runners : WF_vars(Move(r))

-----------------------------------------------------------------------------
\* Types, and the lock is held only by a runner that is at work.
TypeOK ==
    /\ ledger \in [Files -> Contents \cup {NoRow}]
    /\ schema \in Seq(Files)
    /\ lock \in Runners \cup {NoRunner}
    /\ pc \in [Runners -> {"idle", "waiting", "read", "next", "apply", "done", "refused", "failed"}]
    /\ todo \in [Runners -> SUBSET Files]
    /\ lost \in 0 .. MaxLost /\ failures \in 0 .. MaxFailures
    /\ \A r \in Runners : lock = r => pc[r] \in {"read", "next", "apply"}

Started == {r \in Runners : pc[r] # "idle"}

\* Everyone who has started so far deploys the same files.
OneCheckout == \A r, s \in Started : On(r) = On(s)

\* The ledger records exactly what was executed.  And the database is what some
\* fresh database would become, the migrations having run in the order of their
\* names: as long as no lock was lost, whatever is deployed, or as long as all
\* deploy the same files, however often the lock is lost.
InOrder ==
    /\ Applied = {schema[i] : i \in 1 .. Len(schema)}
    /\ lost = 0 \/ OneCheckout => \A i, j \in 1 .. Len(schema) : i < j => schema[i] < schema[j]

\* No migration is executed twice, whoever else is applying: the ledger's key
\* backs up the lock.
AppliedOnce == \A i, j \in 1 .. Len(schema) : schema[i] = schema[j] => i = j

\* Whoever starts migrate() gets an answer, although runners are killed while
\* they hold the lock.
RunnersEnd == \A r \in Runners : pc[r] = "waiting" ~> pc[r] \in {"done", "refused", "failed"}

\* A runner that only differs in its line ends from what was applied is not
\* turned away.
LineEndsTolerated ==
    \A r \in Started :
        (\A s \in Started : On(s) = On(r) /\ \A f \in On(r) : Disk[s][f][1] = Disk[r][f][1])
            => pc[r] # "refused"
=============================================================================
