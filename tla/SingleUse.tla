----------------------------- MODULE SingleUse ------------------------------
(***************************************************************************)
(* Tokens that may be used once: AP2 nonces (runtime/request_auth.py) and  *)
(* action grants (runtime/action_grants.py), each recorded in a table by a *)
(* transaction of the capped connection pool (runtime/pg_store.py).        *)
(*                                                                         *)
(* A signed token is a member of Tokens; whether its signature, audience,  *)
(* principal, tenant, tool and arguments check out is the caller's input.  *)
(***************************************************************************)
EXTENDS Naturals, FiniteSets

CONSTANTS
    Users,       \* threads that present a token
    Tokens,
    Grants,      \* the tokens that are action grants; the others are nonces
    Expiry,      \* [Tokens -> Nat], the last second a token is valid in
    NoToken,
    Cap,         \* max_connections()
    MaxClock, MaxFaults, MaxOthers    \* bounds

ASSUME SingleUseAssumption ==
    /\ NoToken \notin Tokens /\ Grants \subseteq Tokens
    /\ Expiry \in [Tokens -> Nat]
    /\ Cap \in Nat \ {0} /\ MaxClock \in Nat /\ MaxFaults \in Nat
    /\ MaxOthers \in Nat

VARIABLES
    clock,      \* int(time.time())
    free,       \* what is left of the BoundedSemaphore
    tx,         \* per user: where it is in transaction(), and what it did there
    table,      \* the committed rows: the tokens spent and not swept
    others,     \* slots held by the other stores: audit chain, heads, anchors
    uses,       \* history: per token, the acceptances committed before it expired
    faults

useVars == <<clock, free, others, tx, table, uses, faults>>

Idle == [at |-> "idle", token |-> NoToken, seen |-> 0, swept |-> {}, result |-> "none"]

UseInit ==
    /\ clock = 0 /\ free = Cap
    /\ tx = [u \in Users |-> Idle]
    /\ others = 0 /\ table = {} /\ faults = 0
    /\ uses = [t \in Tokens |-> 0]

\* One step of user u to location loc.
Move(u, loc) == tx' = [tx EXCEPT ![u].at = loc]

\* The transaction is over, the connection still open.
Settle(u, result) == tx' = [tx EXCEPT ![u].at = "close", ![u].swept = {}, ![u].result = result]

Fault == faults < MaxFaults /\ faults' = faults + 1

-----------------------------------------------------------------------------
(* Before the transaction                                                  *)

\* verify_ap2_envelope and consume_action_grant compare the clock they read on
\* entry with the token's dates.
Fresh(t) == clock <= Expiry[t]

\* "good" is the outcome of every other check on the token.
Present(u, t, good) ==
    /\ tx[u].at \in {"idle", "told"}
    /\ tx' = [tx EXCEPT ![u] =
            IF good /\ Fresh(t)
            THEN [Idle EXCEPT !.at = "slot", !.token = t, !.seen = clock]
            ELSE [Idle EXCEPT !.at = "told", !.token = t, !.result = "refused"]]
    /\ UNCHANGED <<clock, free, table, uses, faults, others>>

-----------------------------------------------------------------------------
(* pg_store.transaction                                                    *)

AcquireSlot(u) ==
    /\ tx[u].at = "slot" /\ free > 0
    /\ free' = free - 1
    /\ Move(u, "connect")
    /\ UNCHANGED <<clock, table, uses, faults, others>>

\* acquire(timeout) gives up: StoreUnavailable, which both callers turn into a refusal.
AcquireTimesOut(u) ==
    /\ tx[u].at = "slot" /\ free = 0
    /\ tx' = [tx EXCEPT ![u].at = "told", ![u].result = "refused"]
    /\ UNCHANGED <<clock, free, table, uses, faults, others>>

Connect(u) ==
    /\ tx[u].at = "connect"
    /\ Move(u, "sweep")
    /\ UNCHANGED <<clock, free, table, uses, faults, others>>

\* mutant: the slot is given back on the way out of the body only.
ConnectFailsKeepsSlot(u) ==
    /\ tx[u].at = "connect" /\ Fault
    /\ tx' = [tx EXCEPT ![u].at = "told", ![u].result = "refused"]
    /\ UNCHANGED <<clock, free, table, uses, others>>

\* connect() raises: the slot is given back before the exception goes on.
ConnectFails(u) ==
    /\ tx[u].at = "connect" /\ Fault
    /\ free' = free + 1
    /\ tx' = [tx EXCEPT ![u].at = "told", ![u].result = "refused"]
    /\ UNCHANGED <<clock, table, uses, others>>

Others(u) == Users \ {u}

\* Rows another open transaction has deleted, and the row it has inserted.
Locked(u) ==
    (UNION {tx[v].swept : v \in Others(u)})
    \cup {tx[v].token : v \in {w \in Others(u) : tx[w].at = "commit"}}

\* mutant: a row that expires in this second is swept.
SweptEarly(t, now) == Expiry[t] <= now

\* DELETE ... WHERE expires_at < now
Expired(t, now) == Expiry[t] < now

\* A nonce sweeps with the clock as it is now, a grant with the clock
\* consume_action_grant read.
SweepClock(u) == IF tx[u].token \in Grants THEN tx[u].seen ELSE clock

\* Nonces and grants have a table each.
SameTable(u) == {t \in Tokens : t \in Grants <=> tx[u].token \in Grants}

Old(u) == {t \in table \cap SameTable(u) : Expired(t, SweepClock(u))}

\* The DELETE waits for the transaction that holds one of its rows.
Sweep(u) ==
    /\ tx[u].at = "sweep" /\ Old(u) \cap Locked(u) = {}
    /\ tx' = [tx EXCEPT ![u].at = "insert", ![u].swept = Old(u)]
    /\ UNCHANGED <<clock, free, table, uses, faults, others>>

\* The primary key: the token's row is there and this transaction did not sweep it.
Spent(u) == tx[u].token \in table \ tx[u].swept

\* The INSERT waits for an open transaction that inserted or deleted the key.
Insert(u) ==
    /\ tx[u].at = "insert" /\ tx[u].token \notin Locked(u)
    /\ IF Spent(u) THEN Settle(u, "refused") ELSE Move(u, "commit")
    /\ UNCHANGED <<clock, free, table, uses, faults, others>>

\* A statement that waits for another transaction is cut off by statement_timeout
\* (or, in a cycle of two, by the server's deadlock detector) and rolled back.
StatementTimesOut(u) ==
    /\ \/ tx[u].at = "sweep" /\ Old(u) \cap Locked(u) # {}
       \/ tx[u].at = "insert" /\ tx[u].token \in Locked(u)
    /\ Settle(u, "refused")
    /\ UNCHANGED <<clock, free, table, uses, faults, others>>

\* Lost connection, missing table, a slow statement: rolled back.
BodyFails(u) ==
    /\ tx[u].at \in {"sweep", "insert", "commit"} /\ Fault
    /\ Settle(u, "refused")
    /\ UNCHANGED <<clock, free, table, uses, others>>

Committed(u) == (table \ tx[u].swept) \cup {tx[u].token}

Commit(u) ==
    /\ tx[u].at = "commit"
    /\ table' = Committed(u)
    /\ uses' = IF Fresh(tx[u].token) THEN [uses EXCEPT ![tx[u].token] = @ + 1] ELSE uses
    /\ Settle(u, "accepted")
    /\ UNCHANGED <<clock, free, others, faults>>

\* The server commits and the answer is lost: the token is spent and refused.
CommitUnheard(u) ==
    /\ tx[u].at = "commit" /\ Fault
    /\ table' = Committed(u)
    /\ Settle(u, "refused")
    /\ UNCHANGED <<clock, free, uses, others>>

\* The finally clause: close the connection, whether that works or not, and
\* give the slot back.
Close(u) ==
    /\ tx[u].at = "close"
    /\ free' = free + 1
    /\ Move(u, "told")
    /\ UNCHANGED <<clock, table, uses, faults, others>>

Tick ==
    /\ clock < MaxClock
    /\ clock' = clock + 1
    /\ UNCHANGED <<free, tx, table, uses, faults, others>>

\* Every other store operation goes through transaction() as well.
OthersAcquire ==
    /\ others < MaxOthers /\ free > 0
    /\ others' = others + 1 /\ free' = free - 1
    /\ UNCHANGED <<clock, tx, table, uses, faults>>

OthersRelease ==
    /\ others > 0
    /\ others' = others - 1 /\ free' = free + 1
    /\ UNCHANGED <<clock, tx, table, uses, faults>>

TxStep(u) ==
    \/ AcquireSlot(u) \/ AcquireTimesOut(u) \/ Connect(u) \/ Sweep(u) \/ Insert(u)
    \/ StatementTimesOut(u) \/ Commit(u) \/ Close(u)

TxFault(u) == ConnectFails(u) \/ BodyFails(u) \/ CommitUnheard(u)

-----------------------------------------------------------------------------
(* Properties                                                              *)

\* _consume_nonce, _spend_jti: a token is good once for as long as it is valid,
\* although its expiry is tested with a clock read before the wait for a
\* connection, and although other transactions sweep the table meanwhile.
OnceWhileValid == \A t \in Tokens : uses[t] <= 1

\* transaction(): a slot is held exactly between the acquire and the close, so
\* that no failure costs the process a connection.
SlotsConserved ==
    free + others + Cardinality({u \in Users :
                tx[u].at \in {"connect", "sweep", "insert", "commit", "close"}}) = Cap
=============================================================================
