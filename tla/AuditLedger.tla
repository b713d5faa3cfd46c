---------------------------- MODULE AuditLedger ----------------------------
(***************************************************************************)
(* What the audit log promises its writers: one list of entries per        *)
(* session that only grows at its end, as long as nobody touches the table *)
(* behind its back.                                                        *)
(***************************************************************************)
EXTENDS Naturals, Sequences

CONSTANTS Sessions, Kinds, Old

VARIABLES
    ledger,   \* ledger[s]: the entries of session s
    losses    \* how often an entry was lost or rewritten

\* Sessions written before the heads existed start with the entries Old.
Init == ledger = Old /\ losses = 0

OthersKept(s) == \A t \in Sessions \ {s} : ledger'[t] = ledger[t]

Record(s, k) ==
    /\ ledger'[s] = Append(ledger[s], k)
    /\ OthersKept(s) /\ UNCHANGED losses

Without(e, i) == SubSeq(e, 1, i - 1) \o SubSeq(e, i + 1, Len(e))

\* One entry of one session disappears or says something else.
Damage(s, i) ==
    /\ losses' = losses + 1
    /\ \/ ledger'[s] = Without(ledger[s], i)
       \/ \E k \in Kinds : ledger'[s] = [ledger[s] EXCEPT ![i] = k]
    /\ OthersKept(s)

Next ==
    \E s \in Sessions :
        \/ \E k \in Kinds : Record(s, k)
        \/ \E i \in DOMAIN ledger[s] : Damage(s, i)

Spec == Init /\ [][Next]_<<ledger, losses>>
=============================================================================
