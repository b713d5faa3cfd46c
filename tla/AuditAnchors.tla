---------------------------- MODULE AuditAnchors ----------------------------
(***************************************************************************)
(* Daily Merkle anchors over the audit log (anchor_logger.py): computing,  *)
(* recording and verifying them while rows are appended, lost and edited.  *)
(***************************************************************************)
EXTENDS AuditChain, SequencesExt

CONSTANTS MaxAnchors    \* bound on the calls that compute an anchor

ASSUME AnchorAssumption == MaxAnchors \in Nat

VARIABLES
    anchors,    \* genesis_audit_anchors, or the JSONL file, in insertion order
    pending,    \* anchors computed and not recorded yet
    computed,   \* how many were computed
    check,      \* per verifier: verify_anchor under way
    report      \* per verifier: what verify_anchor returned

anchorVars == <<anchors, pending, computed, check, report>>
allVars == <<vars, anchorVars>>

-----------------------------------------------------------------------------
(* _build_merkle_tree: a parent is the hash of its two children, modelled  *)
(* by the pair; an odd node is paired with itself.                         *)

Parents(level) ==
    [i \in 1 .. (Len(level) + 1) \div 2 |->
        <<level[2 * i - 1], IF 2 * i <= Len(level) THEN level[2 * i] ELSE level[2 * i - 1]>>]

EmptyRoot == <<"empty">>

\* The levels of the tree, halved until one node is left, at most Len(leaves) times.
Levels(leaves) ==
    LET Level[n \in 0 .. Len(leaves)] ==
            IF n = 0 THEN leaves
            ELSE IF Len(Level[n - 1]) > 1 THEN Parents(Level[n - 1]) ELSE Level[n - 1]
    IN  Level

MerkleRoot(leaves) ==
    IF leaves = <<>> THEN EmptyRoot ELSE Levels(leaves)[Len(leaves)][1]

-----------------------------------------------------------------------------
\* mutant: the end of the day is not tested.
OnDayOrLater(R, d) == {r \in R : r.day >= d}

OnDay(R, d) == {r \in R : r.day = d}

\* The rows in the order of their ids.
InOrder(R) == [i \in 1 .. Cardinality(R) |-> CHOOSE r \in R : Place(R, r) = i]

\* SELECT ... WHERE timestamp in the day ORDER BY id
DateRows(d) == InOrder(OnDay(rows, d))

Leaves(seq) == [i \in 1 .. Len(seq) |-> seq[i].hash]

\* compute_daily_anchor.  "settled" is history: the day was over and no call of
\* log() under way carries its date.
AnchorOf(d) ==
    [day |-> d, root |-> MerkleRoot(Leaves(DateRows(d))), leaves |-> Leaves(DateRows(d)),
     settled |-> d < today /\ \A w \in Writers : pc[w] = "idle" \/ mine[w].day # d]

NoAnchor == [day |-> 0, root |-> <<>>, leaves |-> <<>>, settled |-> FALSE]

ComputeDailyAnchor(d) ==
    /\ computed < MaxAnchors
    /\ computed' = computed + 1
    /\ pending' = pending \cup {AnchorOf(d)}
    /\ UNCHANGED <<vars, anchors, check, report>>

\* record_anchor: insert only, a second anchor of a day does not replace the first.
RecordAnchor(a) ==
    /\ anchors' = Append(anchors, a)
    /\ pending' = pending \ {a}
    /\ UNCHANGED <<vars, computed, check, report>>

\* The insert fails and the computed anchor is gone with its process.
RecordFails(a) ==
    /\ failures < MaxFailures
    /\ failures' = failures + 1
    /\ pending' = pending \ {a}
    /\ UNCHANGED <<tableVars, writerVars, verifyVars, today, ever, quiet, damage,
                   anchors, computed, check, report>>

\* The first anchor recorded for the day.
GetAnchor(d) ==
    LET days == {i \in 1 .. Len(anchors) : anchors[i].day = d}
    IN  IF days = {} THEN NoAnchor ELSE anchors[CHOOSE i \in days : \A j \in days : i <= j]

-----------------------------------------------------------------------------
(* verify_anchor reads the store again and again: the stored anchor, the   *)
(* rows of the day, the sessions of the day, and for each of them rows and *)
(* head.  Every read is a transaction of its own.                          *)

Unchecked == [at |-> "idle", day |-> 0, stored |-> NoAnchor, live |-> <<>>,
              todo |-> <<>>, broken |-> {}, calm |-> TRUE, listed |-> TRUE]
\* "still" is history: the rows it read that were in the table when it returned; and
\* so is "listed": it was told which sessions the day has.
NoReport == [match |-> FALSE, tampered |-> FALSE, stored |-> NoAnchor, live |-> <<>>,
             still |-> {}, calm |-> TRUE, listed |-> TRUE]

\* get_anchor answers None when the store cannot be read.
StartCheck(v, d) ==
    /\ check[v].at = "idle" /\ vpc[v] = "idle"
    /\ \/ check' = [check EXCEPT ![v] = [Unchecked EXCEPT !.at = "recompute", !.day = d,
                                                         !.stored = GetAnchor(d)]]
          /\ UNCHANGED failures
       \/ /\ failures < MaxFailures /\ failures' = failures + 1
          /\ check' = [check EXCEPT ![v] = [Unchecked EXCEPT !.at = "recompute", !.day = d]]
    /\ report' = [report EXCEPT ![v] = NoReport]
    /\ UNCHANGED <<tableVars, writerVars, verifyVars, today, ever, quiet, damage,
                   anchors, pending, computed>>

Recompute(v) ==
    /\ check[v].at = "recompute"
    /\ check' = [check EXCEPT ![v].at = "sessions", ![v].live = DateRows(check[v].day)]
    /\ UNCHANGED <<vars, anchors, pending, computed, report>>

\* The store cannot be read: AnchorError, no report.
RecomputeFails(v) ==
    /\ check[v].at \in {"recompute", "sessions"}
    /\ failures < MaxFailures /\ failures' = failures + 1
    /\ check' = [check EXCEPT ![v] = Unchecked]
    /\ UNCHANGED <<tableVars, writerVars, verifyVars, today, ever, quiet, damage,
                   anchors, pending, computed, report>>

\* _sessions_on: the sessions of the day in the order of their first row.
AddSession(seen, r) == IF Contains(seen, r.session) THEN seen ELSE Append(seen, r.session)

SessionsInOrder(d) == FoldLeft(AddSession, <<>>, DateRows(d))

SessionsOn(v) ==
    /\ check[v].at = "sessions"
    /\ check' = [check EXCEPT ![v].at = "verify", ![v].todo = SessionsInOrder(check[v].day)]
    /\ UNCHANGED <<vars, anchors, pending, computed, report>>

\* On SQLite, the file that _sessions_on reads cannot be opened (_open_db): it answers
\* that the day has no session, whether the log was connected or not.
NoSessions(v) ==
    /\ OneLock /\ check[v].at = "sessions"
    /\ failures < MaxFailures /\ failures' = failures + 1
    /\ check' = [check EXCEPT ![v].at = "verify", ![v].listed = FALSE]
    /\ UNCHANGED <<tableVars, writerVars, verifyVars, today, ever, quiet, damage,
                   anchors, pending, computed, report>>

\* The audit log cannot be connected: every session of the day is broken.
SessionsUnverified(v) ==
    /\ check[v].at = "sessions"
    /\ failures < MaxFailures /\ failures' = failures + 1
    /\ check' = [check EXCEPT ![v].at = "verify", ![v].calm = FALSE,
                              ![v].broken = ToSet(SessionsInOrder(check[v].day))]
    /\ UNCHANGED <<tableVars, writerVars, verifyVars, today, ever, quiet, damage,
                   anchors, pending, computed, report>>

\* _broken_sessions: verify_chain of the next session.
CheckRows(v) ==
    /\ check[v].at = "verify" /\ check[v].todo # <<>>
    /\ VerifyRows(v, Head(check[v].todo))
    /\ UNCHANGED anchorVars

\* "calm" is history: nothing was appended while a session was verified, and nothing
\* ever to one that is older than the heads.
CheckHead(v) ==
    /\ check[v].at = "verify"
    /\ VerifyHead(v)
    /\ check' = [check EXCEPT
            ![v].todo = Tail(check[v].todo),
            ![v].broken = IF verdict'[v] = "intact" THEN @ ELSE @ \cup {vsession[v]},
            ![v].calm = @ /\ quiet[v] /\ (vsession[v] \in Legacy => due[v] \subseteq OldRows)]
    /\ UNCHANGED <<anchors, pending, computed, report>>

\* verify_chain raises: the session counts as broken.
CheckRaises(v) ==
    /\ check[v].at = "verify" /\ check[v].todo # <<>>
    /\ failures < MaxFailures /\ failures' = failures + 1
    /\ vpc' = [vpc EXCEPT ![v] = "idle"]
    /\ check' = [check EXCEPT ![v].todo = Tail(@), ![v].broken = @ \cup {Head(check[v].todo)},
                              ![v].calm = FALSE]
    /\ UNCHANGED <<tableVars, writerVars, vsession, snap, verdict, due, today, ever, quiet,
                   damage, anchors, pending, computed, report>>

\* mutant: the roots are compared and the rows are not.
MatchesByRoot(c) == c.stored # NoAnchor /\ c.stored.root = MerkleRoot(Leaves(c.live))

Matches(c) ==
    /\ c.stored # NoAnchor
    /\ c.stored.root = MerkleRoot(Leaves(c.live))
    /\ c.broken = {}

\* The locals of verify_chain are gone when verify_anchor returns.
EndCheck(v) ==
    LET c == check[v]
    IN  /\ c.at = "verify" /\ c.todo = <<>> /\ vpc[v] = "idle"
        /\ report' = [report EXCEPT ![v] =
                [match |-> Matches(c), tampered |-> c.stored # NoAnchor /\ ~Matches(c),
                 stored |-> c.stored, live |-> c.live, still |-> ToSet(c.live) \cap rows,
                 calm |-> c.calm, listed |-> c.listed]]
        /\ check' = [check EXCEPT ![v] = Unchecked]
        /\ vsession' = [vsession EXCEPT ![v] = NoSession]
        /\ snap' = [snap EXCEPT ![v] = {}] /\ due' = [due EXCEPT ![v] = {}]
        /\ verdict' = [verdict EXCEPT ![v] = "none"]
        /\ quiet' = [quiet EXCEPT ![v] = TRUE]
        /\ UNCHANGED <<tableVars, writerVars, vpc, today, ever, failures, damage,
                       anchors, pending, computed>>

-----------------------------------------------------------------------------
AnchorInit ==
    /\ Init
    /\ anchors = <<>> /\ pending = {} /\ computed = 0
    /\ check = [v \in Verifiers |-> Unchecked]
    /\ report = [v \in Verifiers |-> NoReport]

\* The days go by, which only the anchors notice.
Midnight ==
    /\ today < MaxDay
    /\ today' = today + 1
    /\ UNCHANGED <<tableVars, writerVars, verifyVars, ever, quiet, failures, damage, anchorVars>>

AnchorNext ==
    \/ TableNext /\ UNCHANGED anchorVars
    \/ Midnight
    \/ \E d \in 0 .. today : ComputeDailyAnchor(d)
    \/ \E a \in pending : RecordAnchor(a) \/ RecordFails(a)
    \/ \E v \in Verifiers, d \in 0 .. today : StartCheck(v, d)
    \/ \E v \in Verifiers :
        \/ Recompute(v) \/ RecomputeFails(v)
        \/ SessionsOn(v) \/ NoSessions(v) \/ SessionsUnverified(v)
        \/ CheckRows(v) \/ CheckHead(v) \/ CheckRaises(v) \/ EndCheck(v)

AnchorSpec == AnchorInit /\ [][AnchorNext]_allVars

-----------------------------------------------------------------------------
(* Properties                                                              *)

\* verify_anchor: when it reports a match, no row of the day was lost or inserted
\* between the anchor and its own reading of the day, and if it was told which
\* sessions the day has, those of the rows it read that are still there when it
\* returns are as log() committed them, although the root covers the stored hashes
\* only and the rows are verified in later reads.  On SQLite _sessions_on() answers []
\* when the file cannot be opened; the match then vouches for the root alone.
MatchMeansUnchanged ==
    \A v \in Verifiers :
        report[v].match =>
            /\ Leaves(report[v].live) = report[v].stored.leaves
            /\ report[v].listed => report[v].still \subseteq ever

\* verify_anchor: a day anchored after its last row was committed is not reported
\* tampered when nothing was damaged, whatever other days append, as long as nothing
\* is appended to a session while it is verified or to one older than the heads.
SettledDayVerifies ==
    \A v \in Verifiers :
        damage = 0 /\ report[v].stored.settled /\ report[v].calm => ~report[v].tampered
=============================================================================
