--------------------------- MODULE GatewayProofs ---------------------------
(***************************************************************************)
(* Single use of tokens, the slots of the pool, idempotency keys and the   *)
(* buyer's reservation, for every number of requests, tokens, faults and   *)
(* seconds.                                                                *)
(***************************************************************************)
EXTENDS Gateway, FiniteSetTheorems, TLAPS

-----------------------------------------------------------------------------
(* The inductive invariant of the transactions                             *)

\* Where a thread has a token in its hands, and where it holds a slot.
Waiting == {"slot", "connect", "sweep", "insert", "commit"}
HoldingAt == {"connect", "sweep", "insert", "commit", "close"}
Holding == {u \in Users : tx[u].at \in HoldingAt}

UseTypes ==
    /\ clock \in Nat /\ free \in Nat /\ others \in Nat
    /\ table \subseteq Tokens /\ uses \in [Tokens -> Nat]
    /\ tx \in [Users -> [at : {"idle", "told", "slot", "connect", "sweep", "insert",
                               "commit", "close"},
                         token : Tokens \cup {NoToken}, seen : Nat,
                         swept : SUBSET Tokens, result : {"none", "refused", "accepted"}]]
    /\ \A u \in Users : tx[u].at \in Waiting => tx[u].token \in Tokens
    /\ \A u \in Users : tx[u].seen <= clock

\* A row that a transaction has swept was out of date for good.
SweptExpired == \A u \in Users : \A t \in tx[u].swept : Expiry[t] < clock

\* Two open transactions never hold the same new row, and a transaction that is
\* about to commit one found no row of its token, or swept it.
NewRows ==
    /\ \A u, v \in Users :
        tx[u].at = "commit" /\ tx[v].at = "commit" /\ u # v => tx[u].token # tx[v].token
    /\ \A u \in Users : tx[u].at = "commit" => ~Spent(u)

\* A token that was accepted has its row for as long as it is valid.
Remembered ==
    \A t \in Tokens :
        /\ uses[t] <= 1
        /\ uses[t] = 1 => t \in table \/ Expiry[t] < clock

TokenInv == UseTypes /\ SweptExpired /\ NewRows /\ Remembered

SlotInv ==
    /\ IsFiniteSet(Holding)
    /\ free + others + Cardinality(Holding) = Cap

UseInv == TokenInv /\ SlotInv

-----------------------------------------------------------------------------
(* The inductive invariant of the handlers                                 *)

Early == {"idle", "auth", "route", "escrow", "select"}
Running == {"execute", "settle", "release", "raised"}
HasRow(r) == \E j \in jobs : j.id = r

Places == {"idle", "auth", "route", "escrow", "select", "execute", "settle", "release",
           "raised", "insert", "refund", "router", "callback", "dispatch", "done", "lost"}
Codes == {"none", "200", "401", "402", "4xx", "5xx"}
Results == {"none", "ok", "failed", "raises"}

RequestType ==
    [at : Places, call : CallType, job : Requests \cup {NoJob}, held : BOOLEAN, ran : Results,
     tools : Nat, model : Nat, attempt : Nat, answer : Codes]

HandlerTypes ==
    /\ req \in [Requests -> RequestType]
    /\ \A r \in Requests : req[r].at # "idle" => Call(r) \in Calls
    /\ escrow \in [Requests -> {"none", "reserved", "settled", "refunded"}]
    /\ runs \in [Requests -> Nat]
    /\ jobs \subseteq [id : Requests, key : Keys \cup {NoKey},
                       terms : {"free", "own", "external"}]
    /\ unsure \subseteq Requests

\* Which route a request that has got to a place is on.
RouteInv ==
    \A r \in Requests :
        /\ req[r].at = "escrow" => Call(r).route \in {"async", "sync"}
        /\ req[r].at \in {"select", "dispatch"} => Call(r).route = "submit"
        /\ req[r].at = "insert" => Call(r).route \in {"async", "submit"}
        /\ req[r].at = "refund" => Call(r).route = "async"
        /\ req[r].at = "execute" => Call(r).route = "sync"

\* A row carries what its request asked for, and only a request that got as far
\* as the insert has one.
RowInv ==
    /\ \A j \in jobs : j.key = Call(j.id).key /\ j.terms \in {Call(j.id).terms, "free"}
    /\ \A r \in Requests : req[r].at \in Early \cup Running \cup {"insert", "router", "callback"}
            => r \in unsure \/ ~HasRow(r)
    /\ \A r \in Requests : req[r].at \in Early \cup {"insert"} => ~HasRow(r)

\* A request is answered with a row of its own key.
KeyInv ==
    /\ \A i, j \in jobs : i.key = j.key /\ i.key # NoKey => i = j
    /\ \A r \in Requests : req[r].at = "idle" => req[r].job = NoJob
    /\ \A r \in Requests : req[r].job # NoJob =>
            \E j \in jobs : j.id = req[r].job /\ j.key = Call(r).key
    /\ \A r \in Requests : req[r].at = "dispatch" => req[r].job = r

\* A row is dispatched by the last step of the request that made it.
RunInv == \A r \in Requests : runs[r] = 0 \/ (runs[r] = 1 /\ req[r].at \in {"done", "lost"})

\* Where the reservation of a request is, place by place.  A handler that is not in the
\* dark knows the id of the reservation it has made.
ReservationInv ==
    \A r \in Requests :
        /\ req[r].at \in Early => escrow[r] = "none" /\ ~req[r].held
        /\ req[r].held => Call(r).terms = "own"
        /\ r \notin unsure =>
            /\ req[r].at = "dispatch" => escrow[r] = "none"
            /\ req[r].at \in Running \cup {"insert", "refund"} =>
                    escrow[r] = IF req[r].held THEN "reserved" ELSE "none"
            /\ req[r].at = "refund" => ~HasRow(r)
            /\ req[r].at \in {"router", "callback"} => escrow[r] # "reserved"

\* How the run ended, place by place, and what was done with the money then.
RanInv ==
    \A r \in Requests :
        /\ req[r].at \in Early \cup {"insert", "refund", "dispatch", "execute"} => req[r].ran = "none"
        /\ req[r].at = "settle" => req[r].ran = "ok"
        /\ req[r].at = "release" => req[r].ran = "failed"
        /\ req[r].at = "raised" => req[r].ran = "raises"
        /\ req[r].at \in Early \cup {"insert", "execute"} => escrow[r] \in {"none", "reserved"}
        /\ escrow[r] = "settled" => req[r].ran = "ok"
        /\ escrow[r] = "refunded" => req[r].ran # "ok"

HandlerInv ==
    /\ HandlerTypes /\ RouteInv /\ RowInv /\ KeyInv /\ RunInv
    /\ ReservationInv /\ RanInv /\ ReservationAccounted

-----------------------------------------------------------------------------
(* Steps of the transactions                                               *)

LEMMA UseInvInit == UseInit => UseInv
<1> SUFFICES ASSUME UseInit PROVE UseInv
  OBVIOUS
<1> USE SingleUseAssumption DEF UseInit, Idle
<1>1. TokenInv
  BY DEF TokenInv, UseTypes, SweptExpired, NewRows, Remembered, Waiting
<1>2. Holding = {}
  BY DEF Holding, HoldingAt
<1>3. SlotInv
  BY <1>2, FS_EmptySet DEF SlotInv
<1> QED BY <1>1, <1>3 DEF UseInv

\* Nothing a token or a slot depends on is changed by the rest of a handler.
LEMMA UseQuiet ==
    ASSUME UseInv, UNCHANGED <<clock, free, others, tx, table, uses>>
    PROVE  UseInv'
<1>1. TokenInv'
  BY DEF UseInv, TokenInv, UseTypes, SweptExpired, NewRows, Remembered, Spent
<1>2. Holding' = Holding
  BY DEF Holding
<1>3. SlotInv'
  BY <1>2 DEF UseInv, SlotInv
<1> QED BY <1>1, <1>3 DEF UseInv

\* The two records a thread may begin with.
LEMMA PresentedRecord ==
    ASSUME NEW t \in Tokens, NEW now \in Nat
    PROVE  /\ [Idle EXCEPT !.at = "slot", !.token = t, !.seen = now]
                = [at |-> "slot", token |-> t, seen |-> now, swept |-> {}, result |-> "none"]
           /\ [Idle EXCEPT !.at = "told", !.token = t, !.result = "refused"]
                = [at |-> "told", token |-> t, seen |-> 0, swept |-> {}, result |-> "refused"]
<1> DEFINE At(loc) == [Idle EXCEPT !.at = loc]
           With(loc) == [At(loc) EXCEPT !.token = t]
<1>1. \A loc \in {"slot", "told"} :
        At(loc) = [at |-> loc, token |-> NoToken, seen |-> 0, swept |-> {}, result |-> "none"]
  BY DEF Idle
<1> HIDE DEF At
<1>2. \A loc \in {"slot", "told"} :
        With(loc) = [at |-> loc, token |-> t, seen |-> 0, swept |-> {}, result |-> "none"]
  BY <1>1
<1> HIDE DEF With
<1>3. [With("slot") EXCEPT !.seen = now]
        = [at |-> "slot", token |-> t, seen |-> now, swept |-> {}, result |-> "none"]
  BY <1>2
<1>4. [With("told") EXCEPT !.result = "refused"]
        = [at |-> "told", token |-> t, seen |-> 0, swept |-> {}, result |-> "refused"]
  BY <1>2
<1> QED BY <1>3, <1>4 DEF With, At

\* A token is presented: no slot is held yet.
LEMMA UsePresent ==
    ASSUME UseInv, NEW u \in Users, NEW t \in Tokens, NEW good \in BOOLEAN,
           Present(u, t, good)
    PROVE  UseInv'
<1>0. /\ tx' = [tx EXCEPT ![u] =
            IF good /\ Fresh(t)
            THEN [at |-> "slot", token |-> t, seen |-> clock, swept |-> {}, result |-> "none"]
            ELSE [at |-> "told", token |-> t, seen |-> 0, swept |-> {}, result |-> "refused"]]
      /\ tx[u].at \in {"idle", "told"}
      /\ UNCHANGED <<clock, free, table, uses, others>>
  BY PresentedRecord DEF Present, UseInv, TokenInv, UseTypes
<1> USE SingleUseAssumption, <1>0 DEF UseInv
<1>1. UseTypes'
  BY DEF TokenInv, UseTypes, Waiting
<1>2. SweptExpired'
  BY DEF TokenInv, UseTypes, SweptExpired
<1>3. NewRows'
  BY DEF TokenInv, UseTypes, NewRows, Spent
<1>4. Remembered'
  BY DEF TokenInv, UseTypes, Remembered
<1>5. Holding' = Holding
  BY DEF TokenInv, UseTypes, Holding, HoldingAt
<1>6. SlotInv'
  BY <1>5 DEF SlotInv
<1> QED BY <1>1, <1>2, <1>3, <1>4, <1>6 DEF TokenInv

\* The steps of transaction() that move one thread and no row.
LEMMA TokenQuietStep ==
    ASSUME TokenInv, NEW u \in Users,
           \/ AcquireSlot(u) \/ AcquireTimesOut(u) \/ Connect(u) \/ ConnectFails(u)
           \/ StatementTimesOut(u) \/ BodyFails(u) \/ Close(u)
    PROVE  TokenInv'
<1> USE SingleUseAssumption
    DEF AcquireSlot, AcquireTimesOut, Connect, ConnectFails, StatementTimesOut, BodyFails,
        Close, Move, Settle
<1>1. UseTypes'
  BY DEF TokenInv, UseTypes, Waiting
<1>2. SweptExpired'
  BY DEF TokenInv, UseTypes, SweptExpired
<1>3. NewRows'
  BY DEF TokenInv, UseTypes, NewRows, Spent
<1>4. Remembered'
  BY DEF TokenInv, UseTypes, Remembered
<1> QED BY <1>1, <1>2, <1>3, <1>4 DEF TokenInv

LEMMA TokenSweep ==
    ASSUME TokenInv, NEW u \in Users, Sweep(u)
    PROVE  TokenInv'
<1> USE SingleUseAssumption DEF Sweep
<1>1. Old(u) \subseteq Tokens
  BY DEF TokenInv, UseTypes, Old
<1>2. \A t \in Old(u) : Expiry[t] < clock
  BY <1>1 DEF TokenInv, UseTypes, Old, Expired, SweepClock
<1>3. UseTypes'
  <2>1. tx'[u].swept \in SUBSET Tokens
    BY <1>1 DEF TokenInv, UseTypes
  <2>2. tx' = [tx EXCEPT ![u].at = "insert", ![u].swept = tx'[u].swept]
    BY DEF TokenInv, UseTypes
  <2> HIDE DEF Sweep
  <2>3. tx[u].at = "sweep" /\ UNCHANGED <<clock, free, others, table, uses>>
    BY DEF Sweep
  <2> QED BY <2>1, <2>2, <2>3 DEF TokenInv, UseTypes, Waiting
<1>4. SweptExpired'
  BY <1>2 DEF TokenInv, UseTypes, SweptExpired
<1>5. NewRows'
  BY DEF TokenInv, UseTypes, NewRows, Spent
<1>6. Remembered'
  BY DEF TokenInv, UseTypes, Remembered
<1> QED BY <1>3, <1>4, <1>5, <1>6 DEF TokenInv

LEMMA TokenInsert ==
    ASSUME TokenInv, NEW u \in Users, Insert(u)
    PROVE  TokenInv'
<1> USE SingleUseAssumption DEF Insert, Move, Settle
<1>1. UseTypes'
  BY DEF TokenInv, UseTypes, Waiting
<1>2. SweptExpired'
  BY DEF TokenInv, UseTypes, SweptExpired
<1>3. NewRows'
  <2>1. ASSUME NEW v \in Users, v # u, tx[v].at = "commit"
        PROVE  tx[v].token # tx[u].token
    <3>1. v \in {w \in Others(u) : tx[w].at = "commit"}
      BY <2>1 DEF Others
    <3>2. tx[v].token \in {tx[w].token : w \in {x \in Others(u) : tx[x].at = "commit"}}
      BY <3>1
    <3>3. tx[v].token \in Locked(u)
      BY <3>2 DEF Locked
    <3> QED BY <3>3
  <2>2. \A v \in Users : tx'[v].token = tx[v].token
    BY DEF TokenInv, UseTypes
  <2>3. \A v \in Users : tx'[v].at = "commit" => v = u \/ tx[v].at = "commit"
    BY DEF TokenInv, UseTypes
  <2>4. \A v \in Users : tx'[v].at = "commit" => ~Spent(v)'
    BY DEF TokenInv, UseTypes, NewRows, Spent
  <2> QED BY <2>1, <2>2, <2>3, <2>4 DEF TokenInv, NewRows
<1>4. Remembered'
  BY DEF TokenInv, UseTypes, Remembered
<1> QED BY <1>1, <1>2, <1>3, <1>4 DEF TokenInv

\* A commit that is heard or not: the new row is there, and only rows that are out
\* of date have gone.
LEMMA TokenCommit ==
    ASSUME TokenInv, NEW u \in Users, Commit(u) \/ CommitUnheard(u)
    PROVE  TokenInv'
<1> USE SingleUseAssumption DEF Commit, CommitUnheard, Settle, Committed
<1> DEFINE tok == tx[u].token
<1>1. tx[u].at = "commit" /\ tok \in Tokens /\ tok \notin table \ tx[u].swept
  BY DEF TokenInv, UseTypes, NewRows, Spent, Waiting
<1>2. UseTypes'
  BY <1>1 DEF TokenInv, UseTypes, Waiting, Fresh
<1>3. SweptExpired'
  BY DEF TokenInv, UseTypes, SweptExpired
<1>4. NewRows'
  <2>1. \A v \in Users : tx'[v].at = "commit" => v # u /\ tx[v].at = "commit" /\ tx'[v] = tx[v]
    BY DEF TokenInv, UseTypes
  <2>2. ASSUME NEW v \in Users, tx'[v].at = "commit"
        PROVE  ~Spent(v)'
    BY <1>1, <2>1, <2>2 DEF TokenInv, NewRows, Spent
  <2> QED BY <2>1, <2>2 DEF TokenInv, NewRows
<1>5. Remembered'
  <2> SUFFICES ASSUME NEW t \in Tokens
               PROVE  uses'[t] <= 1 /\ (uses'[t] = 1 => t \in table' \/ Expiry[t] < clock')
    BY DEF Remembered
  <2>1. t \in table => t \in table' \/ Expiry[t] < clock
    BY DEF TokenInv, SweptExpired
  <2>2. tok \in table'
    OBVIOUS
  <2>3. ASSUME Fresh(tok) PROVE uses[tok] = 0
    <3>1. ~(Expiry[tok] < clock)
      BY <1>1, <2>3 DEF Fresh, TokenInv, UseTypes
    <3>2. tok \notin table
      BY <1>1, <3>1, Zenon DEF TokenInv, SweptExpired
    <3>3. uses[tok] \in Nat
      BY <1>1 DEF TokenInv, UseTypes
    <3>4. uses[tok] <= 1 /\ (uses[tok] = 1 => tok \in table \/ Expiry[tok] < clock)
      BY <1>1, Zenon DEF TokenInv, Remembered
    <3> HIDE DEF tok
    <3> QED BY <3>1, <3>2, <3>3, <3>4
  <2>4. CASE t = tok /\ Fresh(tok) /\ uses' # uses
    BY <1>1, <2>2, <2>3, <2>4 DEF TokenInv, UseTypes
  <2>5. CASE ~(t = tok /\ Fresh(tok) /\ uses' # uses)
    <3>1. uses'[t] = uses[t]
      BY <2>5 DEF TokenInv, UseTypes
    <3> QED BY <2>1, <3>1 DEF TokenInv, Remembered
  <2> QED BY <2>4, <2>5
<1> QED BY <1>2, <1>3, <1>4, <1>5 DEF TokenInv

\* A slot is taken by AcquireSlot and given back by Close and ConnectFails; every
\* other step leaves the threads that hold one as they are.
LEMMA SlotStep ==
    ASSUME UseInv, NEW u \in Users, TxStep(u) \/ TxFault(u)
    PROVE  SlotInv'
<1> USE DEF UseInv, TokenInv, UseTypes, Move, Settle
<1>1. CASE AcquireSlot(u)
  <2>1. Holding' = Holding \cup {u} /\ u \notin Holding
    BY <1>1 DEF AcquireSlot, Holding, HoldingAt
  <2>2. IsFiniteSet(Holding') /\ Cardinality(Holding') = Cardinality(Holding) + 1
    BY <2>1, FS_AddElement DEF SlotInv
  <2>3. Cardinality(Holding) \in Nat
    BY FS_CardinalityType DEF SlotInv
  <2> QED BY <1>1, <2>2, <2>3 DEF AcquireSlot, SlotInv
<1>2. CASE Close(u) \/ ConnectFails(u)
  <2>1. Holding' = Holding \ {u} /\ u \in Holding
    BY <1>2 DEF Close, ConnectFails, Holding, HoldingAt
  <2>2. IsFiniteSet(Holding') /\ Cardinality(Holding') = Cardinality(Holding) - 1
    BY <2>1, FS_RemoveElement DEF SlotInv
  <2>3. Cardinality(Holding) \in Nat
    BY FS_CardinalityType DEF SlotInv
  <2> QED BY <1>2, <2>2, <2>3 DEF Close, ConnectFails, SlotInv
<1>3. CASE \/ AcquireTimesOut(u) \/ Connect(u) \/ Sweep(u) \/ Insert(u)
           \/ StatementTimesOut(u) \/ BodyFails(u) \/ Commit(u) \/ CommitUnheard(u)
  <2>1. \A v \in Users : tx'[v].at \in HoldingAt <=> tx[v].at \in HoldingAt
    <3>1. CASE AcquireTimesOut(u)
      BY <3>1 DEF AcquireTimesOut, HoldingAt
    <3>2. CASE Connect(u)
      BY <3>2 DEF Connect, HoldingAt
    <3>3. CASE Sweep(u)
      BY <3>3 DEF Sweep, HoldingAt
    <3>4. CASE Insert(u)
      BY <3>4 DEF Insert, HoldingAt
    <3>5. CASE StatementTimesOut(u)
      BY <3>5 DEF StatementTimesOut, HoldingAt
    <3>6. CASE BodyFails(u)
      BY <3>6 DEF BodyFails, HoldingAt
    <3>7. CASE Commit(u)
      BY <3>7 DEF Commit, HoldingAt
    <3>8. CASE CommitUnheard(u)
      BY <3>8 DEF CommitUnheard, HoldingAt
    <3> QED BY <1>3, <3>1, <3>2, <3>3, <3>4, <3>5, <3>6, <3>7, <3>8
  <2>2. UNCHANGED <<free, others>>
    BY <1>3 DEF AcquireTimesOut, Connect, Sweep, Insert, StatementTimesOut, BodyFails,
         Commit, CommitUnheard
  <2>3. Holding' = Holding
    BY <2>1 DEF Holding
  <2> QED BY <2>2, <2>3 DEF SlotInv
<1> QED BY <1>1, <1>2, <1>3 DEF TxStep, TxFault

LEMMA UseTxStep ==
    ASSUME UseInv, NEW u \in Users, TxStep(u) \/ TxFault(u)
    PROVE  UseInv'
<1>1. TokenInv'
  BY TokenQuietStep, TokenSweep, TokenInsert, TokenCommit DEF UseInv, TxStep, TxFault
<1>2. SlotInv'
  BY SlotStep
<1> QED BY <1>1, <1>2 DEF UseInv

\* The clock, and the other stores of the process.
LEMMA UseEnvironment ==
    ASSUME UseInv, Tick \/ OthersAcquire \/ OthersRelease
    PROVE  UseInv'
<1> USE SingleUseAssumption DEF UseInv, Tick, OthersAcquire, OthersRelease
<1>1. TokenInv'
  BY DEF TokenInv, UseTypes, SweptExpired, NewRows, Remembered, Spent
<1>2. Holding' = Holding
  BY DEF Holding
<1>3. Cardinality(Holding) \in Nat
  BY FS_CardinalityType DEF SlotInv
<1>4. SlotInv'
  BY <1>2, <1>3 DEF SlotInv, TokenInv, UseTypes
<1> QED BY <1>1, <1>4

\* A restart closes the connections: open transactions roll back, and the new
\* semaphore has all its slots.
LEMMA UseRestart ==
    ASSUME UseInv, Restart
    PROVE  UseInv'
<1>0. /\ \A u \in Users : \/ tx[u].at \in {"idle", "told"} /\ tx'[u] = tx[u]
                        \/ tx'[u] = [at |-> "told", token |-> tx[u].token, seen |-> 0,
                                     swept |-> {}, result |-> "refused"]
      /\ tx' = [u \in Users |-> tx'[u]]
      /\ free' = Cap /\ others' = 0
      /\ UNCHANGED <<clock, table, uses>>
  BY Zenon DEF Restart, Idle
<1> USE SingleUseAssumption, <1>0 DEF UseInv
<1>1. UseTypes'
  BY DEF TokenInv, UseTypes, Waiting
<1>2. SweptExpired'
  BY DEF TokenInv, UseTypes, SweptExpired
<1>3. NewRows'
  BY DEF TokenInv, UseTypes, NewRows
<1>4. Remembered'
  BY DEF TokenInv, UseTypes, Remembered
<1>5. Holding' = {}
  BY DEF Holding, HoldingAt
<1>6. SlotInv'
  <2>1. IsFiniteSet({}) /\ Cardinality({}) = 0
    BY FS_EmptySet
  <2> QED BY <1>5, <2>1 DEF SlotInv
<1> QED BY <1>1, <1>2, <1>3, <1>4, <1>6 DEF TokenInv

\* Every step of the gateway, as the transactions see it.
LEMMA UseStep == UseInv /\ [GatewayNext]_gatewayVars => UseInv'
<1> SUFFICES ASSUME UseInv, [GatewayNext]_gatewayVars PROVE UseInv'
  OBVIOUS
<1> USE GatewayAssumption, SingleUseAssumption
<1>1. ASSUME NEW r \in Requests, NEW c \in Calls, Arrive(r, c) PROVE UseInv'
  <2>1. CASE c.token = NoToken
    BY <1>1, <2>1, UseQuiet DEF Arrive, useVars
  <2>2. CASE c.token # NoToken
    <3>1. c.token \in Tokens
      BY <2>2 DEF CallType
    <3>2. PICK good \in BOOLEAN : Present(r, c.token, good)
      BY <1>1, <2>2 DEF Arrive
    <3> QED BY <3>1, <3>2, UsePresent
  <2> QED BY <2>1, <2>2
<1>2. ASSUME NEW r \in Requests, HandlerStep(r) \/ HandlerFault(r) PROVE UseInv'
  BY <1>2, UseQuiet
     DEF HandlerStep, HandlerFault, useVars, Authenticated, Route, InitiateEscrow,
         EscrowDecision, Select, InsertJob, CallbackRefused, Dispatch, Execute, RouterPost,
         NegotiateCallback, InitiateUnheard, EscrowDecisionFails, InsertFails
<1>3. ASSUME NEW r \in Requests, NEW t \in Grants, ConsumeGrant(r, t) PROVE UseInv'
  BY <1>3, UsePresent DEF ConsumeGrant
<1>4. CASE Finished \/ UNCHANGED gatewayVars
  BY <1>4, UseQuiet DEF Finished, gatewayVars, useVars
<1> QED BY <1>1, <1>2, <1>3, <1>4, UseTxStep, UseEnvironment, UseRestart
        DEF GatewayNext, PoolStep

\* A token is accepted at most once before it expires, whatever the tables sweep and
\* whatever a commit is heard of (_consume_nonce, _spend_jti).  One that waited for its
\* connection until the token had expired and the row was swept is not counted.
THEOREM TokensUsedOnce == GatewaySpec => []OnceWhileValid
<1>1. GatewayInit => UseInv
  BY UseInvInit DEF GatewayInit
<1>2. UseInv => OnceWhileValid
  BY DEF UseInv, TokenInv, Remembered, OnceWhileValid
<1> QED BY <1>1, <1>2, UseStep, PTL DEF GatewaySpec

\* No way out of transaction(), and no restart, costs the pool a slot.
THEOREM SlotsNeverLeak == GatewaySpec => []SlotsConserved
<1>1. GatewayInit => UseInv
  BY UseInvInit DEF GatewayInit
<1>2. UseInv => SlotsConserved
  BY DEF UseInv, SlotInv, SlotsConserved, Holding, HoldingAt
<1> QED BY <1>1, <1>2, UseStep, PTL DEF GatewaySpec

-----------------------------------------------------------------------------
(* Steps of the handlers                                                   *)

LEMMA HandlerInvInit == GatewayInit => HandlerInv
<1> SUFFICES ASSUME GatewayInit PROVE HandlerInv
  OBVIOUS
<1> USE GatewayAssumption DEF GatewayInit, NoReq, Call
<1>1. HandlerTypes
  BY DEF HandlerTypes, RequestType, Places, Codes, Results, CallType, AnyCall, Routes
<1>2. RouteInv /\ RowInv /\ KeyInv /\ RunInv
  BY DEF RouteInv, RowInv, KeyInv, RunInv, HasRow
<1>3. ReservationInv /\ RanInv /\ ReservationAccounted
  BY DEF ReservationInv, RanInv, ReservationAccounted, HasRow, Early, Running
<1> QED BY <1>1, <1>2, <1>3 DEF HandlerInv

\* Request r moves to a place with its call, and no other request moves.
Moves(r, loc) ==
    /\ req' \in [Requests -> RequestType]
    /\ \A q \in Requests : q # r => req'[q] = req[q]
    /\ req'[r].at = loc
    /\ req'[r].call = req[r].call

LEMMA RequestUpdates ==
    ASSUME NEW q \in RequestType
    PROVE  /\ \A loc \in Places : [q EXCEPT !.at = loc] \in RequestType
           /\ \A c \in CallType : [q EXCEPT !.call = c] \in RequestType
           /\ \A j \in Requests \cup {NoJob} : [q EXCEPT !.job = j] \in RequestType
           /\ \A b \in BOOLEAN : [q EXCEPT !.held = b] \in RequestType
           /\ \A result \in Results : [q EXCEPT !.ran = result] \in RequestType
           /\ \A n \in Nat : [q EXCEPT !.tools = n] \in RequestType
           /\ \A n \in Nat : [q EXCEPT !.model = n] \in RequestType
           /\ \A n \in Nat : [q EXCEPT !.attempt = n] \in RequestType
           /\ \A code \in Codes : [q EXCEPT !.answer = code] \in RequestType
    BY DEF RequestType

LEMMA AnswerType ==
    ASSUME HandlerTypes, NEW r \in Requests, NEW loc \in Places, NEW code \in Codes
    PROVE  [req[r] EXCEPT !.at = loc, !.answer = code] \in RequestType
<1>1. [req[r] EXCEPT !.at = loc] \in RequestType
  BY RequestUpdates DEF HandlerTypes
<1> QED BY <1>1, RequestUpdates

LEMMA GoMoves ==
    ASSUME HandlerTypes, NEW r \in Requests, NEW loc \in Places, Go(r, loc)
    PROVE  /\ Moves(r, loc) /\ req'[r].job = req[r].job /\ req'[r].answer = req[r].answer
           /\ req'[r].held = req[r].held /\ req'[r].ran = req[r].ran
<1>1. [req[r] EXCEPT !.at = loc] \in RequestType
  BY RequestUpdates DEF HandlerTypes
<1> QED BY <1>1 DEF HandlerTypes, RequestType, Moves, Go

LEMMA LeftType ==
    ASSUME HandlerTypes, NEW r \in Requests, NEW loc \in Places, NEW code \in Codes
    PROVE  /\ Left(r, loc, code) \in RequestType /\ Left(r, loc, code).at = loc
           /\ Left(r, loc, code).call = req[r].call /\ Left(r, loc, code).job = req[r].job
           /\ Left(r, loc, code).ran = req[r].ran /\ ~Left(r, loc, code).held
           /\ Left(r, loc, code).answer = code
<1>1. req[r] \in RequestType
  BY DEF HandlerTypes
<1> QED BY <1>1 DEF Left, RequestType

LEMMA AnswerMoves ==
    ASSUME HandlerTypes, NEW r \in Requests, NEW code \in Codes, Answer(r, code)
    PROVE  /\ Moves(r, "done") /\ req'[r].job = req[r].job /\ req'[r].answer = code
           /\ req'[r].held = FALSE /\ req'[r].ran = req[r].ran
<1>1. /\ Left(r, "done", code) \in RequestType /\ Left(r, "done", code).at = "done"
      /\ Left(r, "done", code).call = req[r].call /\ Left(r, "done", code).job = req[r].job
      /\ Left(r, "done", code).ran = req[r].ran /\ ~Left(r, "done", code).held
      /\ Left(r, "done", code).answer = code
  BY LeftType DEF Places
<1> QED BY <1>1 DEF HandlerTypes, RequestType, Moves, Answer

\* A step of the handler of r.
Handles(r) ==
    \/ \E c \in Calls : Arrive(r, c)
    \/ HandlerStep(r) \/ HandlerFault(r)
    \/ \E t \in Grants : ConsumeGrant(r, t)

\* What a step of the handler of r leaves alone: the other requests, with their
\* reservations, rows and runs, and every row there is.
Frame(r) ==
    /\ req' \in [Requests -> RequestType]
    /\ escrow' \in [Requests -> {"none", "reserved", "settled", "refunded"}]
    /\ \A q \in Requests : q # r =>
            req'[q] = req[q] /\ escrow'[q] = escrow[q] /\ (q \in unsure' <=> q \in unsure)
    /\ req[r].at # "idle" => req'[r].call = req[r].call
    /\ unsure \subseteq unsure' /\ unsure' \subseteq Requests
    /\ \/ jobs' = jobs
       \/ jobs' = jobs \cup {NewRow(r)} /\ req[r].at = "insert" /\ ~Duplicate(Call(r).key)

\* The places a step of the handler of r may lead to, and with which route.
Leads(r) ==
    /\ req'[r].at \notin {"idle", "lost"} /\ Call(r)' \in Calls
    /\ req'[r].at = "escrow" => Call(r)'.route \in {"async", "sync"}
    /\ req'[r].at \in {"select", "dispatch"} => Call(r)'.route = "submit"
    /\ req'[r].at = "insert" => Call(r)'.route \in {"async", "submit"}
    /\ req'[r].at = "refund" => Call(r)'.route = "async"
    /\ req'[r].at = "execute" => Call(r)'.route = "sync"

LEMMA HandlerFrame ==
    ASSUME HandlerTypes, RouteInv, NEW r \in Requests, Handles(r)
    PROVE  Frame(r) /\ Leads(r)
<1> USE GatewayAssumption DEF Frame, Leads, Call
<1>0. /\ \A loc \in Places : Go(r, loc) => Moves(r, loc)
      /\ \A code \in Codes : Answer(r, code) => Moves(r, "done")
  BY GoMoves, AnswerMoves
<1>1. ASSUME NEW c \in Calls, Arrive(r, c) PROVE Frame(r) /\ Leads(r)
  <2>1. c \in CallType
    OBVIOUS
  <2> DEFINE asked(loc) == [req[r] EXCEPT !.at = loc, !.call = c]
  <2>2. /\ \A loc \in Places : asked(loc) \in RequestType
        /\ [asked("done") EXCEPT !.answer = "401"] \in RequestType
    <3>1. \A loc \in Places : [req[r] EXCEPT !.at = loc] \in RequestType
      BY RequestUpdates DEF HandlerTypes
    <3>2. \A loc \in Places : asked(loc) \in RequestType
      BY <2>1, <3>1, RequestUpdates
    <3> HIDE DEF asked
    <3> QED BY <3>2, RequestUpdates DEF Places, Codes
  <2>3. /\ req' \in [Requests -> RequestType]
        /\ \A q \in Requests : q # r => req'[q] = req[q]
        /\ req'[r].at \in {"route", "done", "auth"} /\ req'[r].call = c
    BY <1>1, <2>2 DEF Arrive, HandlerTypes, RequestType, Places
  <2> QED BY <1>1, <2>3 DEF Arrive, HandlerTypes
<1>2. CASE Authenticated(r)
  BY <1>0, <1>2 DEF Authenticated, Moves, HandlerTypes, Places, Codes
<1>3. CASE Route(r)
  BY <1>0, <1>3 DEF Route, First, CallType, Routes, Moves, HandlerTypes, Places, Codes
<1>4. CASE InitiateEscrow(r)
  <2>1. [[req[r] EXCEPT !.at = AfterEscrow(r)] EXCEPT !.held = TRUE] \in RequestType
    BY RequestUpdates DEF HandlerTypes, AfterEscrow, Places
  <2>2. CASE req' = [req EXCEPT ![r].at = AfterEscrow(r), ![r].held = TRUE]
    <3>1. Moves(r, AfterEscrow(r))
      BY <2>1, <2>2 DEF Moves, HandlerTypes, RequestType
    <3> QED BY <1>4, <3>1 DEF InitiateEscrow, AfterEscrow, Moves, HandlerTypes, RouteInv
  <2> QED
    BY <1>0, <1>4, <2>2 DEF InitiateEscrow, AfterEscrow, Moves, HandlerTypes, RouteInv, Places, Codes
<1>5. CASE EscrowDecision(r)
  BY <1>0, <1>5 DEF EscrowDecision, AfterDecision, Decide, Moves, HandlerTypes, Places, Codes
<1>6. CASE Select(r)
  <2> DEFINE row == CHOOSE j \in SelectKey(Call(r).key) : TRUE
  <2>1. CASE SelectKey(Call(r).key) = {}
    BY <1>0, <1>6, <2>1 DEF Select, Moves, HandlerTypes, RouteInv, Places
  <2>2. CASE SelectKey(Call(r).key) # {}
    <3>1. row \in jobs /\ row.id \in Requests
      BY <2>2 DEF SelectKey, RowsWith, HandlerTypes
    <3> HIDE DEF row
    <3>2. [req[r] EXCEPT !.at = "done", !.answer = "200"] \in RequestType
      BY AnswerType DEF Places, Codes
    <3>3. [[req[r] EXCEPT !.at = "done", !.answer = "200"] EXCEPT !.job = row.id] \in RequestType
      BY <3>1, <3>2, RequestUpdates
    <3>4. req' = [req EXCEPT ![r].at = "done", ![r].answer = "200", ![r].job = row.id]
      BY <1>6, <2>2 DEF Select, row, Call
    <3>5. /\ req' \in [Requests -> RequestType]
          /\ \A q \in Requests : q # r => req'[q] = req[q]
          /\ req'[r].at = "done" /\ req'[r].call = req[r].call
      BY <3>3, <3>4 DEF HandlerTypes, RequestType
    <3> QED BY <1>6, <3>5 DEF Select, HandlerTypes
  <2> QED BY <2>1, <2>2
<1>7. CASE InsertJob(r)
  <2>1. CASE Duplicate(Call(r).key) /\ FailInsert(r) /\ UNCHANGED jobs
    BY <1>0, <1>7, <2>1 DEF InsertJob, FailInsert, Moves, HandlerTypes, Places, Codes
  <2>2. CASE ~(Duplicate(Call(r).key) /\ FailInsert(r) /\ UNCHANGED jobs)
    <3>1. PICK loc \in {"dispatch", "done"}, code \in {"none", "200"} :
            /\ req' = [req EXCEPT ![r].at = loc, ![r].job = r, ![r].answer = code]
            /\ loc = "dispatch" => Call(r).route = "submit"
      BY <1>7, <2>2 DEF InsertJob
    <3>2. [[[req[r] EXCEPT !.at = loc] EXCEPT !.job = r] EXCEPT !.answer = code] \in RequestType
      <4>1. [req[r] EXCEPT !.at = loc] \in RequestType
        BY RequestUpdates DEF HandlerTypes, Places
      <4>2. [[req[r] EXCEPT !.at = loc] EXCEPT !.job = r] \in RequestType
        BY <4>1, RequestUpdates
      <4> QED BY <4>2, RequestUpdates DEF Codes
    <3>3. /\ req' \in [Requests -> RequestType]
          /\ \A q \in Requests : q # r => req'[q] = req[q]
          /\ req'[r].at = loc /\ req'[r].call = req[r].call
      BY <3>1, <3>2 DEF HandlerTypes, RequestType
    <3> QED BY <1>7, <2>2, <3>1, <3>3 DEF InsertJob, HandlerTypes
  <2> QED BY <2>1, <2>2
<1>8. CASE CallbackRefused(r)
  BY <1>0, <1>8 DEF CallbackRefused, FailInsert, Moves, HandlerTypes, Places, Codes
<1>9. CASE Dispatch(r)
  BY <1>0, <1>9 DEF Dispatch, Moves, HandlerTypes, Places, Codes
<1>10. CASE Execute(r)
  <2>1. PICK result \in {"ok", "failed", "raises"} :
          req' = [req EXCEPT ![r].at = AfterRun(result), ![r].ran = result]
    BY <1>10 DEF Execute
  <2>2. [[req[r] EXCEPT !.at = AfterRun(result)] EXCEPT !.ran = result] \in RequestType
    BY RequestUpdates DEF HandlerTypes, AfterRun, Places, Results
  <2>3. Moves(r, AfterRun(result))
    BY <2>1, <2>2 DEF Moves, HandlerTypes, RequestType
  <2> QED BY <1>10, <2>3 DEF Execute, AfterRun, Moves, HandlerTypes
<1>11. CASE RouterPost(r)
  <2>1. CASE Go(r, "callback") \/ \E code \in Codes : Answer(r, code)
    BY <1>0, <1>11, <2>1 DEF RouterPost, Moves, HandlerTypes, Places
  <2>2. CASE \/ req' = [req EXCEPT ![r].attempt = 1]
             \/ req' = [req EXCEPT ![r].model = @ + 1, ![r].attempt = 0]
    <3>1. [req[r] EXCEPT !.attempt = 1] \in RequestType
      BY RequestUpdates DEF HandlerTypes
    <3>2. req[r].model + 1 \in Nat
      BY DEF HandlerTypes, RequestType
    <3>3. [req[r] EXCEPT !.model = req[r].model + 1] \in RequestType
      BY <3>2, RequestUpdates DEF HandlerTypes
    <3>4. [[req[r] EXCEPT !.model = req[r].model + 1] EXCEPT !.attempt = 0] \in RequestType
      BY <3>3, RequestUpdates
    <3>5. /\ req' \in [Requests -> RequestType]
          /\ \A q \in Requests : q # r => req'[q] = req[q]
          /\ req'[r].at = req[r].at /\ req'[r].call = req[r].call
      BY <2>2, <3>1, <3>4 DEF HandlerTypes, RequestType
    <3> QED BY <1>11, <3>5 DEF RouterPost, HandlerTypes
  <2> QED BY <1>11, <2>1, <2>2 DEF RouterPost, RetryModel, NextModel, RouterGivesUp, Codes
<1>12. CASE NegotiateCallback(r)
  BY <1>0, <1>12 DEF NegotiateCallback, Moves, HandlerTypes, Places, Codes
<1>13. CASE InitiateUnheard(r)
  BY <1>0, <1>13 DEF InitiateUnheard, AfterEscrow, Moves, HandlerTypes, RouteInv, Places, Codes
<1>14. CASE EscrowDecisionFails(r)
  BY <1>0, <1>14 DEF EscrowDecisionFails, AfterDecision, Decide, Moves, HandlerTypes, Places, Codes
<1>15. CASE InsertFails(r)
  BY <1>0, <1>15 DEF InsertFails, FailInsert, Moves, HandlerTypes, Places, Codes
<1>16. ASSUME NEW t \in Grants, ConsumeGrant(r, t) PROVE Frame(r) /\ Leads(r)
  <2>1. [req[r] EXCEPT !.tools = @ + 1] \in RequestType
    BY DEF HandlerTypes, RequestType
  <2> QED BY <1>16, <2>1 DEF ConsumeGrant, HandlerTypes, RequestType, RouteInv
<1> QED BY <1>1, <1>2, <1>3, <1>4, <1>5, <1>6, <1>7, <1>8, <1>9, <1>10, <1>11, <1>12,
           <1>13, <1>14, <1>15, <1>16 DEF Handles, HandlerStep, HandlerFault

LEMMA HandlerTypesStep ==
    ASSUME HandlerTypes, RouteInv, NEW r \in Requests, Handles(r)
    PROVE  HandlerTypes' /\ RouteInv'
<1>1. Frame(r) /\ Leads(r)
  BY HandlerFrame
<1>2. jobs' \subseteq [id : Requests, key : Keys \cup {NoKey}, terms : {"free", "own", "external"}]
  <2>1. Call(r) \in CallType
    BY DEF Call, HandlerTypes, RequestType
  <2>2. NewRow(r) \in [id : Requests, key : Keys \cup {NoKey}, terms : {"free", "own", "external"}]
    BY <2>1 DEF NewRow, CallType
  <2> QED BY <1>1, <2>2 DEF Frame, HandlerTypes
<1>3. runs' \in [Requests -> Nat]
  <2>1. UNCHANGED runs \/ \E j : runs' = [runs EXCEPT ![j] = @ + 1]
    BY DEF Handles, HandlerStep, HandlerFault, Arrive, Authenticated, Route,
           InitiateEscrow, EscrowDecision, Select, InsertJob, CallbackRefused, Dispatch,
           Execute, RouterPost, NegotiateCallback, InitiateUnheard, EscrowDecisionFails,
           InsertFails, ConsumeGrant
  <2> QED BY <2>1 DEF HandlerTypes
<1>4. \A q \in Requests : req'[q].at # "idle" => Call(q)' \in Calls
  BY <1>1 DEF Frame, Leads, Call, HandlerTypes
<1>5. RouteInv'
  BY <1>1 DEF Frame, Leads, Call, RouteInv
<1> QED BY <1>1, <1>2, <1>3, <1>4, <1>5 DEF HandlerTypes, Frame

\* A handler forgets the id of its reservation only when it ends.
Holds(r) ==
    /\ req'[r].held => req[r].held
    /\ req'[r].at # "done" => req'[r].held = req[r].held

\* The effects a step of the handler of r may have.  Nothing but its place:
Quiet(r) ==
    /\ UNCHANGED <<escrow, jobs, runs, unsure>> /\ req'[r].job = req[r].job
    /\ Holds(r)
    /\ \/ /\ req[r].at \in {"idle", "auth", "route"}
          /\ req'[r].at \in Early \cup {"router", "done"}
       \/ /\ req[r].at = "escrow" /\ ~OwnEscrow(r) /\ req'[r].at = AfterEscrow(r)
       \/ req[r].at = "escrow" /\ req'[r].at = "done"
       \/ req[r].at = "select" /\ req'[r].at = "insert"
       \/ req[r].at = "insert" /\ Call(r).route = "async" /\ req'[r].at = "refund"
       \/ req[r].at = "insert" /\ Call(r).route # "async" /\ req'[r].at = "done"
       \/ req[r].at = "execute" /\ req'[r].at \in Running
       \/ req[r].at \in {"router", "callback"} /\ req'[r].at \in {"router", "callback", "done"}

\* a reservation:
Reserves(r) ==
    /\ req[r].at = "escrow" /\ OwnEscrow(r) /\ req'[r].at = AfterEscrow(r)
    /\ escrow' = [escrow EXCEPT ![r] = "reserved"]
    /\ \/ req'[r].held /\ unsure' = unsure
       \/ req'[r].held = req[r].held /\ r \in unsure'
    /\ UNCHANGED <<jobs, runs>> /\ req'[r].job = req[r].job

\* a payment or a refund:
Decides(r) ==
    /\ req[r].at \in {"settle", "refund", "release", "raised"}
    /\ \/ req[r].at # "raised" /\ req'[r].at = "done"
       \/ req[r].at \in {"settle", "raised"} /\ req'[r].at = "router"
    /\ Decide(r, IF req[r].at = "settle" THEN "settled" ELSE "refunded")
    /\ Holds(r)
    /\ UNCHANGED <<jobs, runs, unsure>> /\ req'[r].job = req[r].job

\* a call or a commit that nobody can be sure of:
Doubts(r) ==
    /\ req[r].at \in {"escrow", "settle", "refund", "release", "raised", "insert"}
    /\ req'[r].at \in {"done", "router", "refund"}
    /\ req'[r].at = "refund" => req[r].at = "insert"
    /\ r \in unsure' /\ UNCHANGED runs /\ req'[r].job = req[r].job
    /\ \/ UNCHANGED escrow
       \/ req[r].at = "escrow" /\ escrow' = [escrow EXCEPT ![r] = "reserved"]
       \/ /\ req[r].at \in {"settle", "refund", "release", "raised"}
          /\ Decide(r, IF req[r].at = "settle" THEN "settled" ELSE "refunded")
    /\ Holds(r)

\* an idempotency key that is found, a row that is made, a row that is dispatched.
Finds(r) ==
    /\ req[r].at = "select" /\ req'[r].at = "done"
    /\ \E j \in jobs : j.id = req'[r].job /\ j.key = Call(r).key
    /\ Holds(r)
    /\ UNCHANGED <<escrow, jobs, runs, unsure>>

Inserts(r) ==
    /\ req[r].at = "insert" /\ req'[r].job = r
    /\ req'[r].at = IF Call(r).route = "submit" THEN "dispatch" ELSE "done"
    /\ jobs' = jobs \cup {NewRow(r)} /\ Holds(r)
    /\ UNCHANGED <<escrow, runs, unsure>>

Dispatches(r) ==
    /\ req[r].at = "dispatch" /\ req'[r].at = "done" /\ req'[r].job = req[r].job
    /\ runs' = [runs EXCEPT ![req[r].job] = @ + 1] \/ UNCHANGED runs
    /\ Holds(r)
    /\ UNCHANGED <<escrow, jobs, unsure>>

Effect(r) ==
    \/ Quiet(r) \/ Reserves(r) \/ Decides(r) \/ Doubts(r)
    \/ Finds(r) \/ Inserts(r) \/ Dispatches(r)

LEMMA HandlerEffect ==
    ASSUME HandlerTypes, RouteInv, NEW r \in Requests, Handles(r)
    PROVE  Effect(r)
<1> USE DEF Effect, Holds
<1>0. /\ \A loc \in Places : Go(r, loc) =>
            Moves(r, loc) /\ req'[r].job = req[r].job /\ req'[r].held = req[r].held
      /\ \A code \in Codes : Answer(r, code) =>
            Moves(r, "done") /\ req'[r].job = req[r].job /\ ~req'[r].held
  BY GoMoves, AnswerMoves
<1>1. ASSUME NEW c \in Calls, Arrive(r, c) PROVE Quiet(r)
  BY <1>1 DEF Arrive, Quiet, HandlerTypes, RequestType, Early
<1>2. CASE Authenticated(r)
  BY <1>0, <1>2 DEF Authenticated, Quiet, Moves, Early, Places, Codes
<1>3. CASE Route(r)
  <2>1. First[Call(r).route] \in {"escrow", "router", "select"}
    <3>1. Call(r).route \in Routes
      BY DEF Call, HandlerTypes, RequestType, CallType
    <3> QED BY <3>1 DEF First, Routes
  <2> QED BY <1>0, <1>3, <2>1 DEF Route, Quiet, Moves, Early, Places, Codes
<1>4. CASE InitiateEscrow(r)
  <2>1. CASE /\ OwnEscrow(r) /\ escrow' = [escrow EXCEPT ![r] = "reserved"]
             /\ req' = [req EXCEPT ![r].at = AfterEscrow(r), ![r].held = TRUE]
    BY <1>4, <2>1 DEF InitiateEscrow, AfterEscrow, Reserves, HandlerTypes, RequestType
  <2>2. CASE UNCHANGED escrow /\ (Answer(r, "402") \/ (~OwnEscrow(r) /\ Go(r, AfterEscrow(r))))
    BY <1>0, <1>4, <2>2 DEF InitiateEscrow, AfterEscrow, Quiet, Moves, Places, Codes
  <2>3. \/ UNCHANGED escrow /\ (Answer(r, "402") \/ (~OwnEscrow(r) /\ Go(r, AfterEscrow(r))))
        \/ /\ OwnEscrow(r) /\ escrow' = [escrow EXCEPT ![r] = "reserved"]
           /\ req' = [req EXCEPT ![r].at = AfterEscrow(r), ![r].held = TRUE]
    BY <1>4, Zenon DEF InitiateEscrow
  <2> QED
    BY <2>1, <2>2, <2>3, Zenon
<1>5. CASE EscrowDecision(r)
  BY <1>0, <1>5 DEF EscrowDecision, AfterDecision, Decides, Moves, Places, Codes
<1>6. CASE Select(r)
  <2> DEFINE row == CHOOSE j \in SelectKey(Call(r).key) : TRUE
  <2>1. CASE SelectKey(Call(r).key) = {}
    BY <1>0, <1>6, <2>1 DEF Select, Quiet, Moves, Places
  <2>2. CASE SelectKey(Call(r).key) # {}
    <3>1. row \in jobs /\ row.key = Call(r).key
      BY <2>2 DEF SelectKey, RowsWith
    <3> HIDE DEF row
    <3>2. /\ req[r].at = "select" /\ UNCHANGED <<escrow, jobs, runs, unsure>>
          /\ req' = [req EXCEPT ![r].at = "done", ![r].answer = "200", ![r].job = row.id]
      BY <1>6, <2>2 DEF Select, row
    <3> QED BY <3>1, <3>2 DEF Finds, HandlerTypes, RequestType
  <2> QED BY <2>1, <2>2
<1>7. CASE InsertJob(r)
  <2>1. CASE FailInsert(r) /\ UNCHANGED jobs
    BY <1>0, <1>7, <2>1 DEF InsertJob, FailInsert, Quiet, Moves, Places, Codes
  <2>2. CASE ~(FailInsert(r) /\ UNCHANGED jobs)
    BY <1>7, <2>2 DEF InsertJob, Inserts, HandlerTypes, RequestType
  <2> QED BY <2>1, <2>2
<1>8. CASE CallbackRefused(r)
  BY <1>0, <1>8 DEF CallbackRefused, FailInsert, Quiet, Moves, Places
<1>9. CASE Dispatch(r)
  BY <1>0, <1>9 DEF Dispatch, Dispatches, Moves, Places, Codes
<1>10. CASE Execute(r)
  BY <1>10 DEF Execute, AfterRun, Quiet, Running, HandlerTypes, RequestType
<1>11. CASE RouterPost(r)
  BY <1>0, <1>11 DEF RouterPost, RetryModel, NextModel, RouterGivesUp, Quiet, Moves,
       HandlerTypes, RequestType, Places, Codes
<1>12. CASE NegotiateCallback(r)
  BY <1>0, <1>12 DEF NegotiateCallback, Quiet, Moves, Places, Codes
<1>13. CASE InitiateUnheard(r)
  <2>1. CASE Answer(r, "402")
    BY <1>0, <1>13, <2>1 DEF InitiateUnheard, Doubts, Moves, Codes
  <2>2. CASE Go(r, AfterEscrow(r))
    BY <1>0, <1>13, <2>2 DEF InitiateUnheard, AfterEscrow, Reserves, Moves, Places
  <2> QED BY <1>13, <2>1, <2>2 DEF InitiateUnheard
<1>14. CASE EscrowDecisionFails(r)
  BY <1>0, <1>14 DEF EscrowDecisionFails, AfterDecision, Doubts, Moves, Places, Codes
<1>15. CASE InsertFails(r)
  BY <1>0, <1>15 DEF InsertFails, FailInsert, Doubts, Quiet, Moves, Places, Codes
<1>16. ASSUME NEW t \in Grants, ConsumeGrant(r, t) PROVE Quiet(r)
  BY <1>16 DEF ConsumeGrant, Quiet, Running, HandlerTypes, RequestType
<1> QED BY <1>1, <1>2, <1>3, <1>4, <1>5, <1>6, <1>7, <1>8, <1>9, <1>10, <1>11, <1>12,
           <1>13, <1>14, <1>15, <1>16 DEF Effect, Handles, HandlerStep, HandlerFault

\* The run of a request ends once, and the place it leads to says how.
Runs(r) ==
    \/ req'[r].ran = req[r].ran /\ (req[r].at = "execute" => req'[r].at = "execute")
    \/ /\ req[r].at = "execute" /\ req'[r].ran \in {"ok", "failed", "raises"}
       /\ req'[r].at = AfterRun(req'[r].ran)

LEMMA HandlerRuns ==
    ASSUME HandlerTypes, NEW r \in Requests, Handles(r)
    PROVE  Runs(r)
<1>0. /\ \A loc \in Places : Go(r, loc) => req'[r].ran = req[r].ran
      /\ \A code \in Codes : Answer(r, code) => req'[r].ran = req[r].ran
  BY GoMoves, AnswerMoves
<1>1. CASE Execute(r)
  BY <1>1 DEF Execute, Runs, HandlerTypes, RequestType
<1>2. CASE \/ \E c \in Calls : Arrive(r, c)
           \/ \E t \in Grants : ConsumeGrant(r, t)
  <2>1. ASSUME NEW c \in Calls, Arrive(r, c) PROVE Runs(r)
    BY <2>1 DEF Arrive, Runs, HandlerTypes, RequestType
  <2>2. ASSUME NEW t \in Grants, ConsumeGrant(r, t) PROVE Runs(r)
    BY <2>2 DEF ConsumeGrant, Runs, HandlerTypes, RequestType
  <2> QED BY <1>2, <2>1, <2>2
<1>3. CASE Select(r) \/ InsertJob(r)
  BY <1>0, <1>3 DEF Select, InsertJob, FailInsert, Runs, HandlerTypes, RequestType, Places, Codes
<1>4. CASE RouterPost(r)
  BY <1>0, <1>4 DEF RouterPost, RetryModel, NextModel, RouterGivesUp, Runs, HandlerTypes,
       RequestType, Places, Codes
<1>5. CASE Authenticated(r) \/ Route(r) \/ NegotiateCallback(r) \/ CallbackRefused(r) \/ Dispatch(r)
  <2>1. Call(r).route \in Routes
    BY DEF Call, HandlerTypes, RequestType, CallType
  <2>2. First[Call(r).route] \in Places
    BY <2>1 DEF First, Routes, Places
  <2> QED BY <1>0, <1>5, <2>2 DEF Authenticated, Route, NegotiateCallback, CallbackRefused, FailInsert,
       Dispatch, Runs, Places, Codes
<1>6. CASE InitiateEscrow(r) \/ InitiateUnheard(r)
  BY <1>0, <1>6 DEF InitiateEscrow, InitiateUnheard, AfterEscrow, Runs, HandlerTypes,
       RequestType, Places, Codes
<1>7. CASE EscrowDecision(r) \/ EscrowDecisionFails(r)
  BY <1>0, <1>7 DEF EscrowDecision, EscrowDecisionFails, AfterDecision, Runs, Places, Codes
<1>8. CASE InsertFails(r)
  BY <1>0, <1>8 DEF InsertFails, FailInsert, Runs, Places, Codes
<1> QED BY <1>1, <1>2, <1>3, <1>4, <1>5, <1>6, <1>7, <1>8 DEF Handles, HandlerStep, HandlerFault

\* What was paid was paid for a run that ended ok, and what was given back was not.
LEMMA RanStep ==
    ASSUME HandlerTypes, RouteInv, ReservationInv, RanInv, NEW r \in Requests, Handles(r)
    PROVE  RanInv'
<1>1. Frame(r) /\ Leads(r) /\ Effect(r) /\ Runs(r)
  BY HandlerFrame, HandlerEffect, HandlerRuns
<1> DEFINE Ended(q) ==
        /\ req[q].at \in Early \cup {"insert", "refund", "dispatch", "execute"} => req[q].ran = "none"
        /\ req[q].at = "settle" => req[q].ran = "ok"
        /\ req[q].at = "release" => req[q].ran = "failed"
        /\ req[q].at = "raised" => req[q].ran = "raises"
        /\ req[q].at \in Early \cup {"insert", "execute"} => escrow[q] \in {"none", "reserved"}
        /\ escrow[q] = "settled" => req[q].ran = "ok"
        /\ escrow[q] = "refunded" => req[q].ran # "ok"
<1>2. \A q \in Requests : Ended(q)
  BY DEF RanInv
<1>3. ASSUME NEW q \in Requests, q # r PROVE Ended(q)'
  BY <1>1, <1>2, <1>3 DEF Frame
<1>4. Ended(r)'
  <2> USE <1>1, <1>2 DEF Early, Running, AfterEscrow
  <2>1. CASE Quiet(r)
    BY <2>1 DEF Quiet, Runs, AfterRun
  <2>2. CASE Reserves(r)
    BY <2>2 DEF Reserves, Runs, HandlerTypes
  <2>3. CASE Decides(r) \/ Doubts(r)
    <3>1. /\ req[r].at \in {"escrow", "settle", "refund", "release", "raised", "insert"}
          /\ req'[r].at \in {"done", "router", "refund"} /\ req'[r].ran = req[r].ran
          /\ req'[r].at = "refund" => req[r].at = "insert"
      BY <2>3 DEF Decides, Doubts, Runs
    <3>2. \/ escrow'[r] = escrow[r]
          \/ req[r].at = "escrow" /\ escrow'[r] = "reserved"
          \/ req[r].at = "settle" /\ escrow'[r] = "settled"
          \/ req[r].at \in {"refund", "release", "raised"} /\ escrow'[r] = "refunded"
      BY <2>3 DEF Decides, Doubts, Decide, HandlerTypes
    <3> QED BY <3>1, <3>2
  <2>5. CASE Finds(r) \/ Inserts(r) \/ Dispatches(r)
    BY <2>5 DEF Finds, Inserts, Dispatches, Runs
  <2> QED BY <2>1, <2>2, <2>3, <2>5 DEF Effect
<1> QED BY <1>3, <1>4 DEF RanInv

\* Where a row can come from, and where a request with a row can be.
LEMMA RowStep ==
    ASSUME HandlerTypes, RouteInv, RowInv, NEW r \in Requests, Handles(r)
    PROVE  RowInv'
<1>1. Frame(r) /\ Leads(r)
  BY HandlerFrame
<1>2. \A q \in Requests : q # r => (HasRow(q)' <=> HasRow(q))
  BY <1>1 DEF Frame, HasRow, NewRow
<1>3. ASSUME NEW j \in jobs'
      PROVE  j.key = Call(j.id)'.key /\ j.terms \in {Call(j.id)'.terms, "free"}
  <2>1. CASE j \in jobs
    <3>1. req[j.id].at # "idle" /\ j.id \in Requests
      BY <2>1 DEF RowInv, HasRow, Early, HandlerTypes
    <3> QED BY <1>1, <2>1, <3>1 DEF RowInv, Frame, Call
  <2>2. CASE j \notin jobs
    <3>1. j = NewRow(r) /\ req[r].at = "insert"
      BY <1>1, <2>2 DEF Frame
    <3> QED BY <1>1, <3>1 DEF Frame, NewRow, Call
  <2> QED BY <2>1, <2>2
<1>4. /\ req'[r].at \in Early \cup Running \cup {"insert", "router", "callback"}
            => r \in unsure' \/ ~HasRow(r)'
      /\ req'[r].at \in Early \cup {"insert"} => ~HasRow(r)'
  <2> USE DEF RowInv, HasRow, Early, Running
  <2>1. CASE Quiet(r)
    BY <2>1 DEF Quiet, AfterEscrow
  <2>2. CASE Reserves(r)
    BY <2>2 DEF Reserves, AfterEscrow
  <2>3. CASE Decides(r)
    BY <2>3 DEF Decides
  <2>4. CASE Doubts(r)
    BY <2>4 DEF Doubts
  <2>5. CASE Finds(r)
    BY <2>5 DEF Finds
  <2>6. CASE Inserts(r)
    BY <2>6 DEF Inserts
  <2>7. CASE Dispatches(r)
    BY <2>7 DEF Dispatches
  <2> QED BY HandlerEffect, <2>1, <2>2, <2>3, <2>4, <2>5, <2>6, <2>7 DEF Effect
<1> QED BY <1>1, <1>2, <1>3, <1>4 DEF RowInv, Frame

\* An idempotency key names one row, and the row of an answer is of its key.
LEMMA KeyStep ==
    ASSUME HandlerTypes, RouteInv, RowInv, KeyInv, RunInv, NEW r \in Requests, Handles(r)
    PROVE  KeyInv' /\ RunInv'
<1>1. Frame(r) /\ Leads(r) /\ Effect(r)
  BY HandlerFrame, HandlerEffect
<1>2. \A i, j \in jobs' : i.key = j.key /\ i.key # NoKey => i = j
  BY <1>1 DEF KeyInv, Frame, Duplicate, RowsWith, NewRow
<1>3. ASSUME NEW q \in Requests, q # r
      PROVE  /\ req'[q].at = "idle" => req'[q].job = NoJob
             /\ req'[q].job # NoJob => \E j \in jobs' : j.id = req'[q].job /\ j.key = Call(q)'.key
             /\ req'[q].at = "dispatch" => req'[q].job = q
  BY <1>1, <1>3 DEF KeyInv, Frame, Call
<1>4. /\ req'[r].at = "dispatch" => req'[r].job = r
      /\ req'[r].job # NoJob => \E j \in jobs' : j.id = req'[r].job /\ j.key = Call(r)'.key
  <2> USE <1>1 DEF KeyInv, Frame, Call
  <2>1. CASE Quiet(r)
    BY <2>1 DEF Quiet, Early, Running, AfterEscrow
  <2>2. CASE Reserves(r)
    BY <2>2 DEF Reserves, AfterEscrow
  <2>3. CASE Decides(r)
    BY <2>3 DEF Decides
  <2>4. CASE Doubts(r)
    BY <2>4 DEF Doubts
  <2>5. CASE Finds(r)
    BY <2>5 DEF Finds
  <2>6. CASE Inserts(r)
    <3>1. NewRow(r) \in jobs' /\ req'[r].job = r
      BY <2>6 DEF Inserts
    <3>2. NewRow(r).id = r /\ NewRow(r).key = Call(r)'.key
      BY <2>6 DEF Inserts, NewRow
    <3>3. \E j \in jobs' : j.id = req'[r].job /\ j.key = Call(r)'.key
      BY <3>1, <3>2, Zenon
    <3> QED BY <3>1, <3>3 DEF Call
  <2>7. CASE Dispatches(r)
    BY <2>7 DEF Dispatches
  <2> QED BY <2>1, <2>2, <2>3, <2>4, <2>5, <2>6, <2>7 DEF Effect
<1>5. KeyInv'
  BY <1>1, <1>2, <1>3, <1>4 DEF KeyInv, Leads
<1>6. RunInv'
  <2> SUFFICES ASSUME NEW q \in Requests
               PROVE  runs'[q] = 0 \/ (runs'[q] = 1 /\ req'[q].at \in {"done", "lost"})
    BY DEF RunInv
  <2>1. CASE q # r
    <3>1. runs'[q] = runs[q]
      BY <1>1, <2>1 DEF Effect, Quiet, Reserves, Decides, Doubts, Finds, Inserts, Dispatches,
           KeyInv, HandlerTypes
    <3> QED BY <1>1, <2>1, <3>1 DEF Frame, RunInv
  <2>2. CASE q = r
    <3>1. CASE Dispatches(r)
      BY <2>2, <3>1 DEF Dispatches, RunInv, KeyInv, HandlerTypes
    <3>2. CASE ~Dispatches(r)
      BY <1>1, <2>2, <3>2 DEF Effect, Quiet, Reserves, Decides, Doubts, Finds, Inserts, RunInv
    <3> QED BY <3>1, <3>2
  <2> QED BY <2>1, <2>2
<1> QED BY <1>5, <1>6

\* The reservation, effect by effect.  A submit_job row is the caller's to pay for:
\* that is where the assumption on Calls is needed.
LEMMA ReservationStep ==
    ASSUME HandlerTypes, RouteInv, RowInv, ReservationInv, RanInv, ReservationAccounted,
           NEW r \in Requests, Handles(r)
    PROVE  ReservationInv' /\ RanInv' /\ ReservationAccounted'
<1>1. Frame(r) /\ Leads(r) /\ Effect(r) /\ RowInv' /\ RanInv'
  BY HandlerFrame, HandlerEffect, RowStep, RanStep
<1> DEFINE Place(q) ==
        /\ req[q].at \in Early => escrow[q] = "none" /\ ~req[q].held
        /\ req[q].held => Call(q).terms = "own"
        /\ q \notin unsure =>
            /\ req[q].at = "dispatch" => escrow[q] = "none"
            /\ req[q].at \in Running \cup {"insert", "refund"} =>
                    escrow[q] = IF req[q].held THEN "reserved" ELSE "none"
            /\ req[q].at = "refund" => ~HasRow(q)
            /\ req[q].at \in {"router", "callback"} => escrow[q] # "reserved"
        Done(q) ==
            req[q].at = "done" /\ q \notin unsure =>
                (escrow[q] = "reserved" <=> \E j \in jobs : j.id = q /\ j.terms = "own")
<1>2. Place(r) /\ Done(r)
  BY DEF ReservationInv, ReservationAccounted
<1>3. ASSUME NEW q \in Requests, q # r PROVE Place(q)' /\ Done(q)'
  <2>1. Place(q) /\ Done(q)
    BY DEF ReservationInv, ReservationAccounted
  <2>2. /\ req'[q] = req[q] /\ escrow'[q] = escrow[q] /\ (q \in unsure' <=> q \in unsure)
        /\ HasRow(q)' <=> HasRow(q)
        /\ (\E j \in jobs' : j.id = q /\ j.terms = "own") <=> \E j \in jobs : j.id = q /\ j.terms = "own"
    BY <1>1, <1>3 DEF Frame, NewRow, HasRow
  <2> QED BY <2>1, <2>2 DEF Call, OwnEscrow
<1>4. Place(r)' /\ Done(r)'
  <2>a. /\ req[r].at \in Early \cup {"insert"} => ~HasRow(r)
        /\ req[r].at \in Running \cup {"router", "callback"} => r \in unsure \/ ~HasRow(r)
    BY DEF RowInv
  <2>b. jobs' = jobs => (HasRow(r)' <=> HasRow(r))
    BY DEF HasRow
  <2>c. ~HasRow(r)' => ~\E j \in jobs' : j.id = r /\ j.terms = "own"
    BY DEF HasRow
  <2>d. req[r].at # "idle" => Call(r)' = Call(r) /\ (OwnEscrow(r)' <=> OwnEscrow(r))
    BY <1>1 DEF Frame, Call, OwnEscrow
  <2>e. escrow[r] \in {"none", "reserved", "settled", "refunded"}
    BY DEF HandlerTypes
  <2>f. /\ Call(r).route = "submit" /\ req[r].at # "idle" => Call(r).terms # "own"
        /\ req[r].held \in BOOLEAN /\ req'[r].held \in BOOLEAN
    BY <1>1, GatewayAssumption DEF Frame, HandlerTypes, RequestType
  <2> USE <1>2, <2>a, <2>b, <2>c, <2>d, <2>e, <2>f DEF Holds
  <2>1. CASE Quiet(r)
    <3>1. UNCHANGED <<escrow, jobs, unsure>>
      BY <2>1 DEF Quiet
    <3>2. Place(r)'
      BY <2>1, <3>1 DEF Quiet, AfterEscrow, RouteInv, Early, Running
    <3>3. Done(r)'
      BY <2>1, <3>1 DEF Quiet, AfterEscrow, RouteInv, Early, Running
    <3> QED BY <3>2, <3>3
  <2>2. CASE Reserves(r)
    <3>1. /\ escrow'[r] = "reserved" /\ UNCHANGED jobs /\ req'[r].at \in {"insert", "execute"}
          /\ req'[r].held \/ r \in unsure'
          /\ Call(r).terms = "own"
      BY <2>2 DEF Reserves, AfterEscrow, OwnEscrow, HandlerTypes, Early
    <3>2. Call(r)'.terms = "own"
      BY <2>2, <3>1 DEF Reserves
    <3>3. r \in unsure' \/ req'[r].held
      BY <3>1
    <3>4. /\ req'[r].at \notin Early \cup {"dispatch", "done", "refund", "router", "callback"}
      BY <3>1 DEF Early
    <3>5. Place(r)'
      BY <3>1, <3>2, <3>3, <3>4
    <3> QED BY <3>4, <3>5
  <2>3. CASE Decides(r)
    <3>1. UNCHANGED <<jobs, unsure>>
      BY <2>3 DEF Decides
    <3>2. req'[r].at \in {"done", "router"} /\ (r \notin unsure => escrow'[r] # "reserved")
      BY <2>3, <3>1 DEF Decides, Decide, Running, HandlerTypes
    <3>3. r \notin unsure /\ req'[r].at = "done" => ~HasRow(r)
      BY <2>3 DEF Decides, Running
    <3> QED BY <2>3, <3>1, <3>2, <3>3 DEF Decides, Early, Running
  <2>4. CASE Doubts(r)
    BY <1>1, <2>4 DEF Doubts, Frame, Early
  <2>5. CASE Finds(r)
    BY <2>5 DEF Finds, Early, Running
  <2>6. CASE Inserts(r)
    <3>1. UNCHANGED <<escrow, unsure>> /\ req[r].at = "insert"
      BY <2>6 DEF Inserts
    <3>2. CASE Call(r).route = "submit"
      BY <2>6, <3>1, <3>2 DEF Inserts, Early, Running
    <3>3. CASE Call(r).route = "async"
      <4>1. req'[r].at = "done" /\ jobs' = jobs \cup {NewRow(r)}
        BY <2>6, <3>3 DEF Inserts
      <4>2. (\E j \in jobs' : j.id = r /\ j.terms = "own") <=> req[r].held
        <5>1. NewRow(r) \in jobs' /\ NewRow(r).id = r /\ (NewRow(r).terms = "own" <=> req[r].held)
          BY <4>1 DEF NewRow
        <5>2. \A j \in jobs' : j.id = r => j = NewRow(r)
          BY <3>1, <4>1 DEF HasRow
        <5> QED BY <5>1, <5>2 DEF OwnEscrow
      <4>3. req'[r].held => Call(r)'.terms = "own"
        BY <2>6, <3>1 DEF Inserts
      <4> QED BY <3>1, <3>3, <4>1, <4>2, <4>3 DEF Early, Running
    <3> QED BY <3>1, <3>2, <3>3 DEF RouteInv
  <2>7. CASE Dispatches(r)
    <3>1. Call(r).terms # "own"
      BY <2>7, GatewayAssumption DEF Dispatches, RouteInv, HandlerTypes
    <3>2. \A j \in jobs : j.id = r => j.terms # "own"
      BY <3>1 DEF RowInv
    <3> QED BY <2>7, <3>2 DEF Dispatches, Early, Running
  <2> QED BY <1>1, <2>1, <2>2, <2>3, <2>4, <2>5, <2>6, <2>7 DEF Effect
<1> QED BY <1>1, <1>3, <1>4 DEF ReservationInv, RanInv, ReservationAccounted

LEMMA HandlerQuiet ==
    ASSUME HandlerInv, UNCHANGED handlerVars
    PROVE  HandlerInv'
BY DEF HandlerInv, handlerVars, HandlerTypes, RouteInv, RowInv, KeyInv, RunInv, ReservationInv,
       RanInv, ReservationAccounted, HasRow, Call, OwnEscrow

\* A restart loses the requests that are not answered; their rows and reservations
\* stay, and a lost request promises nothing.
LEMMA HandlerRestart ==
    ASSUME HandlerInv, Restart
    PROVE  HandlerInv'
<1> USE DEF HandlerInv
<1>1. /\ req' \in [Requests -> RequestType]
      /\ \A r \in Requests :
            /\ Call(r)' = Call(r) /\ req'[r].job = req[r].job /\ req'[r].ran = req[r].ran
            /\ \/ req'[r] = req[r] /\ req[r].at \in {"idle", "done"}
               \/ req'[r].at = "lost" /\ req[r].at # "idle" /\ ~req'[r].held
  <2>1. \A r \in Requests :
            /\ Left(r, "lost", "none") \in RequestType /\ Left(r, "lost", "none").at = "lost"
            /\ Left(r, "lost", "none").call = req[r].call /\ Left(r, "lost", "none").job = req[r].job
            /\ Left(r, "lost", "none").ran = req[r].ran /\ ~Left(r, "lost", "none").held
    BY LeftType DEF Places, Codes
  <2> QED BY <2>1 DEF Restart, HandlerTypes, RequestType, Call
<1>2. UNCHANGED <<escrow, jobs, runs, unsure>>
  BY DEF Restart
<1>3. HandlerTypes' /\ RouteInv'
  BY <1>1, <1>2 DEF HandlerTypes, RouteInv
<1>4. RowInv'
  <2>1. \A r \in Requests : HasRow(r)' <=> HasRow(r)
    BY <1>2 DEF HasRow
  <2>2. \A j \in jobs : j.id \in Requests
    BY DEF HandlerTypes
  <2> QED BY <1>1, <1>2, <2>1, <2>2 DEF RowInv, Early, Running
<1>5. KeyInv' /\ RunInv'
  BY <1>1, <1>2 DEF KeyInv, RunInv
<1>6. ReservationInv' /\ RanInv' /\ ReservationAccounted'
  BY <1>1, <1>2 DEF ReservationInv, RanInv, ReservationAccounted, Early, Running
<1> QED BY <1>3, <1>4, <1>5, <1>6

LEMMA HandlerInvStep == HandlerInv /\ [GatewayNext]_gatewayVars => HandlerInv'
<1> SUFFICES ASSUME HandlerInv, [GatewayNext]_gatewayVars PROVE HandlerInv'
  OBVIOUS
<1>1. ASSUME NEW r \in Requests, Handles(r) PROVE HandlerInv'
  BY <1>1, HandlerTypesStep, RowStep, KeyStep, ReservationStep DEF HandlerInv
<1>2. CASE UNCHANGED handlerVars
  BY <1>2, HandlerQuiet
<1>3. CASE Restart
  BY <1>3, HandlerRestart
<1> QED BY <1>1, <1>2, <1>3 DEF GatewayNext, Handles, PoolStep, Finished, gatewayVars, handlerVars

\* Requests with the same idempotency key get the same job, and its row is
\* dispatched once (submit_job, create_job).
THEOREM KeysNameOneJob == GatewaySpec => []KeyNamesOneJob
<1>1. GatewayInit => HandlerInv
  BY HandlerInvInit
<1>2. HandlerInv => KeyNamesOneJob
  BY DEF HandlerInv, KeyInv, RunInv, KeyNamesOneJob
<1> QED BY <1>1, <1>2, HandlerInvStep, PTL DEF GatewaySpec

\* A request that is answered leaves its reservation open exactly when a queued
\* row carries it, and none is paid but for a run that ended ok (run_agent).
THEOREM ReservationsAccounted == GatewaySpec => []ReservationAccounted
<1>1. GatewayInit => HandlerInv
  BY HandlerInvInit
<1>2. HandlerInv => ReservationAccounted
  BY DEF HandlerInv
<1> QED BY <1>1, <1>2, HandlerInvStep, PTL DEF GatewaySpec
=============================================================================
