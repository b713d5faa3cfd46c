----------------------------- MODULE ReadAccess -----------------------------
(***************************************************************************)
(* Who may read what: continuation tokens and job ownership                *)
(* (runtime/request_auth.py, main.py), and the retrieval route             *)
(* (retrieval_route.py) over the vault index (retrieval_store.py) and the  *)
(* company knowledge rows (knowledge_backbone.py).                         *)
(*                                                                         *)
(* Signatures hold: a token is one that issue_principal_token made, and an *)
(* envelope comes from the client it names.  The routes only read, so they *)
(* are operators; the state is what they read, put together step by step.  *)
(***************************************************************************)
EXTENDS Ranking, Sequences, SequencesExt, FiniteSetsExt

CONSTANTS
    Clients,     \* trusted_ap2_clients.json: [client ids -> [sub, tenant, scopes]]
    JobIds,
    Null,        \* NULL
    Instants,    \* times at which tokens are issued and presented
    Ttl,         \* PRINCIPAL_TOKEN_TTL_SECONDS
    Leeway,      \* how long before its issue a token is accepted
    VaultRows, BackboneRows,    \* rows of the two indexes
    MaxTokens, MaxIndexed,      \* bounds
    MinScore     \* RETRIEVAL_MIN_SCORE

ASSUME ReadAssumption ==
    /\ Instants \subseteq Int /\ Ttl \in Nat /\ Leeway \in Nat
    /\ MaxTokens \in Nat /\ MaxIndexed \in Nat /\ MinScore \in Int

\* What knowledge_backbone.py and retrieval_store.py say of their rows.
ASSUME RowsAssumption ==
    /\ \A r \in VaultRows : r.score \in Int /\ r.updated \in Int
    /\ \A r \in BackboneRows : r.score \in Int /\ r.class \in {"canonical", "controller"}

VARIABLES
    subject,     \* what this instance is about: "none", "jobs", "vault", "backbone"
    rows,        \* genesis_jobs: Null or the row's [tenant, owner]
    issued,      \* tokens given out
    creator,     \* history: on whose behalf a row was made
    recorded,    \* history: rows that were not made by a run without a row
    index        \* the rows of the index that is asked

readVars == <<subject, rows, issued, creator, recorded, index>>

-----------------------------------------------------------------------------
(* runtime/request_auth.py: principals and tokens                          *)

HasScope(p, scope) == scope \in p.scopes \/ "*" \in p.scopes

\* What verify_ap2_envelope returns for client c.
Envelope(c) ==
    [sub |-> Clients[c].sub, tenant |-> Clients[c].tenant, scopes |-> Clients[c].scopes,
     method |-> "ap2"]

\* The shared secrets name nobody in particular.
Legacy ==
    [sub |-> "legacy:gateway", tenant |-> "legacy",
     scopes |-> {"agent.invoke", "job.read", "artifact.read"}, method |-> "legacy_gateway"]

\* What a row records of the principal it was made for.
OwnerOf(p) == [tenant |-> p.tenant, owner |-> p.sub]
Unowned == [tenant |-> Null, owner |-> Null]

\* The identity of a client is a text that is not empty and not the one request_auth.py
\* gives to the shared secrets; NULL is none of the values it is compared with.  Two
\* client ids may stand for one principal: that is how the registry rotates a key.
ASSUME ClientsAssumption ==
    /\ Null \notin {"legacy", Legacy.tenant, OwnerOf(Legacy), Unowned}
    /\ \A c \in DOMAIN Clients :
        /\ c \notin {Null, "legacy"}
        /\ Clients[c].sub # "" /\ Clients[c].tenant # Null
        /\ OwnerOf(Envelope(c)) \notin {Null, OwnerOf(Legacy)}

IssueToken(p, at) ==
    [sub |-> p.sub, tenant |-> p.tenant, scopes |-> p.scopes, iat |-> at, exp |-> at + Ttl]

TokenValid(t, now) ==
    /\ now <= t.exp /\ now >= t.iat - Leeway
    /\ t.sub # "" /\ t.tenant # ""

TokenPrincipal(t) ==
    [sub |-> t.sub, tenant |-> t.tenant, scopes |-> t.scopes, method |-> "principal_token"]

\* mutant: whoever belongs to the tenant owns its rows.
OwnsByTenant(p, row) ==
    IF row.tenant = Null /\ row.owner = Null THEN p.method = "legacy_gateway"
    ELSE row.tenant = p.tenant

\* A row from before ownership belongs to the shared secrets.
OwnsResource(p, row) ==
    IF row.tenant = Null /\ row.owner = Null THEN p.method = "legacy_gateway"
    ELSE row.tenant = p.tenant /\ row.owner = p.sub

-----------------------------------------------------------------------------
(* main.py: the read routes                                                *)

RequireOwnedJob(p, j, scope) ==
    IF rows[j] = Null THEN 404
    ELSE IF ~HasScope(p, scope) THEN 403
    ELSE IF ~OwnsResource(p, rows[j]) THEN 403
    ELSE 200

\* /events, /sandbox and /trace let the shared secrets pass unconditionally.
AuthorizeJobRead(p, j) ==
    IF p.method = "legacy_gateway" THEN 200 ELSE RequireOwnedJob(p, j, "job.read")

ReadJob(route, p, j) ==
    CASE route = "status" -> RequireOwnedJob(p, j, "job.read")
      [] route = "artifacts" -> RequireOwnedJob(p, j, "artifact.read")
      [] route = "trace" -> AuthorizeJobRead(p, j)

ReadRoutes == {"status", "artifacts", "trace"}

\* verify_continuation_principal on a token, then the route.
ReadWithToken(route, t, now, j) ==
    IF TokenValid(t, now) THEN ReadJob(route, TokenPrincipal(t), j) ELSE 401

-----------------------------------------------------------------------------
(* Rows and tokens come into being                                         *)

NewRow(j, row, who) ==
    /\ rows[j] = Null
    /\ rows' = [rows EXCEPT ![j] = row]
    /\ creator' = [creator EXCEPT ![j] = who]

\* verify_agent_principal
MayInvoke(c) == HasScope(Envelope(c), "agent.invoke")

\* run_agent and submit_job answer an envelope with a token of its principal.
Issue(c, at) ==
    /\ MayInvoke(c) /\ Cardinality(issued) < MaxTokens
    /\ issued' = issued \cup {IssueToken(Envelope(c), at)}

CreateJob(j, c, at) ==
    /\ NewRow(j, OwnerOf(Envelope(c)), c)
    /\ Issue(c, at)
    /\ UNCHANGED <<subject, recorded, index>>

CreateLegacyJob(j) ==
    /\ NewRow(j, OwnerOf(Legacy), "legacy")
    /\ UNCHANGED <<subject, issued, recorded, index>>

\* submit_job with a key that somebody has used: the old row and a new token.
RepeatJob(j, c, at) ==
    /\ rows[j] # Null
    /\ Issue(c, at)
    /\ UNCHANGED <<subject, rows, creator, recorded, index>>

\* create_child_job copies the ownership of the parent's row.
DelegateChild(j, parent) ==
    /\ rows[parent] # Null
    /\ NewRow(j, rows[parent], creator[parent])
    /\ recorded' = IF parent \in recorded THEN recorded ELSE recorded \ {j}
    /\ UNCHANGED <<subject, issued, index>>

\* A synchronous run has no row, and its child finds no parent to inherit from.
DelegateFromSync(j, c) ==
    /\ MayInvoke(c)
    /\ NewRow(j, Unowned, c)
    /\ recorded' = recorded \ {j}
    /\ UNCHANGED <<subject, issued, index>>

-----------------------------------------------------------------------------
(* retrieval_route._retrieval_principal                                    *)

Granted(p) == [status |-> 200, principal |-> p]
Denied(code) == [status |-> code, principal |-> Legacy]

\* A signed envelope has to cover the query and every field that widens it; the
\* shared secrets are never enough.
ByEnvelope(c, bound) ==
    IF HasScope(Envelope(c), "retrieval.query") /\ bound THEN Granted(Envelope(c)) ELSE Denied(401)

ByToken(t, now) ==
    IF ~TokenValid(t, now) THEN Denied(401)
    ELSE IF HasScope(TokenPrincipal(t), "retrieval.query") THEN Granted(TokenPrincipal(t))
    ELSE Denied(403)

BySecret == Denied(401)

-----------------------------------------------------------------------------
(* retrieval_store.query_chunks                                            *)

\* WHERE
Eligible(r, entity, superseded) ==
    (superseded \/ r.status # "superseded") /\ (entity = Null \/ r.entity = entity)

\* ORDER BY score DESC, updated DESC
Before(a, b) == a.score > b.score \/ (a.score = b.score /\ a.updated > b.updated)

\* Rows that are Before each other in neither direction keep their order.
QueryChunks(table, k, entity, superseded) ==
    LET found == {i \in DOMAIN table : Eligible(table[i], entity, superseded)}
        Ahead(j, i) ==
            Before(table[j], table[i]) \/ (j < i /\ ~Before(table[i], table[j]))
        ranked == Listed(table, found, Ahead)
    IN SubSeq(ranked, 1, Min({k, Len(ranked)}))

-----------------------------------------------------------------------------
(* knowledge_backbone                                                      *)

\* A snapshot of another shape than the contract's gives nobody access.
HasAccess(row, sub) == row.snapshot.wellformed /\ (row.snapshot.public \/ sub \in row.snapshot.principals)

FilterByPermission(table, sub) == Keep(table, {i \in DOMAIN table : HasAccess(table[i], sub)})

\* The body of a loop that keeps one row for each class of Same, in the order of the
\* first seen, held by the row that no later one beats.
Place(kept, r, Same(_, _), Beats(_, _)) ==
    IF \E i \in DOMAIN kept : Same(kept[i], r)
    THEN [i \in DOMAIN kept |-> IF Same(kept[i], r) /\ Beats(r, kept[i]) THEN r ELSE kept[i]]
    ELSE Append(kept, r)

Higher(a, b) == a.score > b.score

PlaceByIdentity(kept, r) == Place(kept, r, LAMBDA a, b : a.file = b.file, Higher)

DedupByIdentity(table) == FoldLeft(PlaceByIdentity, <<>>, table)

\* A canonical copy goes before any controller copy, whatever their scores.
Precedes(a, b) == IF a.class = b.class THEN Higher(a, b) ELSE a.class = "canonical"

PlaceByContentHash(kept, r) == Place(kept, r, LAMBDA a, b : a.hash = b.hash, Precedes)

DedupByContentHash(table) == FoldLeft(PlaceByContentHash, <<>>, table)

DedupAndPrecede(table) == DedupByContentHash(DedupByIdentity(table))

\* mutant: the permission filter comes last.
ResolveThenFilter(table, sub) == FilterByPermission(DedupAndPrecede(table), sub)

Resolve(table, sub) == DedupAndPrecede(FilterByPermission(table, sub))

-----------------------------------------------------------------------------
(* retrieval_route.retrieval_query                                         *)

AboveMin(table) == Keep(table, {i \in DOMAIN table : table[i].score >= MinScore})

\* A failing vault index answers for both; a failing backbone only for itself.
Retrieve(p, ask, vault, backbone) ==
    LET asked == ask.hint # "vault"    \* "drive" is treated as "any"
        found == IF vault.up THEN AboveMin(QueryChunks(vault.rows, ask.k, ask.entity, ask.superseded))
                 ELSE <<>>
        known == IF vault.up /\ asked /\ backbone.up THEN AboveMin(Resolve(backbone.rows, p.sub))
                 ELSE <<>>
    IN [vault |-> found, backbone |-> known,
        refusal |-> found = <<>> /\ known = <<>>,
        degraded |-> ~vault.up,
        partial |-> vault.up /\ asked /\ ~backbone.up]

-----------------------------------------------------------------------------

InitReads ==
    /\ subject \in {"none", "jobs", "vault", "backbone"}
    /\ rows \in [JobIds -> {Null, Unowned}]
    /\ subject # "jobs" => \A j \in JobIds : rows[j] = Null
    /\ issued = {}
    /\ creator = [j \in JobIds |-> Null]
    /\ recorded = JobIds
    /\ index = <<>>

\* The indexes are filled by others.
IndexRow(r) ==
    /\ Len(index) < MaxIndexed
    /\ index' = Append(index, r)
    /\ UNCHANGED <<subject, rows, issued, creator, recorded>>

JobsStep ==
    \/ \E j \in JobIds, c \in DOMAIN Clients, at \in Instants : CreateJob(j, c, at) \/ RepeatJob(j, c, at)
    \/ \E j \in JobIds : CreateLegacyJob(j)
    \/ \E j, parent \in JobIds : DelegateChild(j, parent)
    \/ \E j \in JobIds, c \in DOMAIN Clients : DelegateFromSync(j, c)

ReadStep ==
    \/ subject = "jobs" /\ JobsStep
    \/ subject = "vault" /\ \E r \in VaultRows : IndexRow(r)
    \/ subject = "backbone" /\ \E r \in BackboneRows : IndexRow(r)

ReadsSpec == InitReads /\ [][ReadStep]_readVars

-----------------------------------------------------------------------------
(* Properties                                                              *)

InTime(t, now) == t.iat - Leeway <= now /\ now <= t.iat + Ttl

\* Client d has the identity of client c, as after a rotation of its key.
SamePrincipal(d, c) == d \in DOMAIN Clients /\ OwnerOf(Envelope(d)) = OwnerOf(Envelope(c))

MayRead(j, c, t, now, scope) ==
    /\ SamePrincipal(creator[j], c) /\ j \in recorded
    /\ InTime(t, now) /\ Clients[c].tenant # ""
    /\ {scope, "*"} \cap Clients[c].scopes # {}

TokenOf(t, c) == \E at \in Instants : t = IssueToken(Envelope(c), at)

\* Reading jobs: a token opens exactly the rows made on behalf of its client's
\* principal, children included, for as long as it lives and as far as its scopes go;
\* only a client without a tenant, and a child of a run that had no row, are left out.
\* A key somebody else has used before yields a token, and no access to the row; a
\* token is always some client's own.  The shared secrets open the status and the
\* artifacts of the rows made for them, of the rows from before ownership, and of the
\* children of any run that had no row, a client's included; and they open the events,
\* the sandbox and the trace of every job, whoever owns it.
JobsReadByOwner ==
    /\ \A t \in issued : \E c \in DOMAIN Clients : TokenOf(t, c)
    /\ \A t \in issued, c \in DOMAIN Clients : TokenOf(t, c) =>
          \A j \in JobIds, now \in Instants :
                /\ ReadWithToken("status", t, now, j) = 200 <=> MayRead(j, c, t, now, "job.read")
                /\ ReadWithToken("trace", t, now, j) = 200 <=> MayRead(j, c, t, now, "job.read")
                /\ ReadWithToken("artifacts", t, now, j) = 200
                       <=> MayRead(j, c, t, now, "artifact.read")
    /\ \A j \in JobIds :
          /\ ReadJob("trace", Legacy, j) = 200
          /\ \A route \in {"status", "artifacts"} :
                ReadJob(route, Legacy, j) = 200
                    <=> rows[j] # Null /\ (creator[j] \in {Null, "legacy"} \/ j \notin recorded)

\* Nothing shown that the filters exclude, nothing better left out, contradicting
\* rows side by side.
VaultAnswer(table, ask, shown) ==
    LET eligible == {i \in DOMAIN table : Eligible(table[i], ask.entity, ask.superseded)}
        good == {i \in eligible : table[i].score >= MinScore}
    IN /\ Len(shown) = Min({ask.k, Cardinality(good)})
       /\ ToSet(shown) \subseteq {table[i] : i \in good}
       /\ \A s \in ToSet(shown), i \in good : Before(table[i], s) => table[i] \in ToSet(shown)

\* A document the asker may see and that scores is shown, once, under its best
\* source.  It is hidden only by another version of the same file or, and this is
\* the order of the code, by a canonical copy that itself scores too low.
BackboneAnswer(table, sub, shown) ==
    LET mine == {r \in ToSet(table) : HasAccess(r, sub)}
        Outdone(r) == \E q \in mine \ {r} : q.file = r.file /\ q.score >= r.score
    IN /\ \A r \in ToSet(shown) :
            /\ r \in mine /\ r.score >= MinScore
            /\ r.class = "controller" =>
                  \A q \in mine : q.hash = r.hash /\ q.class = "canonical" => Outdone(q)
       /\ \A i, k \in DOMAIN shown :
            i # k => shown[i].file # shown[k].file /\ shown[i].hash # shown[k].hash
       /\ \A r \in mine :
            \/ r.score < MinScore
            \/ \E s \in ToSet(shown) : s.hash = r.hash
            \/ \E q \in mine : q.file = r.file /\ q.hash # r.hash /\ q.score >= r.score
            \/ \E q \in mine : q.hash = r.hash /\ q.class = "canonical" /\ q.score < MinScore

Asks == [hint : {"vault", "any"}, k : 0..2, entity : {Null} \cup {r.entity : r \in VaultRows},
         superseded : BOOLEAN]
PlainAsks == [hint : {"vault", "any"}, k : {1}, entity : {Null}, superseded : {FALSE}]

Empty == [up |-> TRUE, rows |-> <<>>]
Down == [up |-> FALSE, rows |-> <<>>]
Full == [up |-> TRUE, rows |-> index]

Told(a) == a.refusal <=> a.vault = <<>> /\ a.backbone = <<>>

\* Some client asks an index of the vault, and the backbone is empty or down.
VaultAsked(ask, backbone) ==
    LET a == Retrieve(Envelope(CHOOSE c \in DOMAIN Clients : TRUE), ask, Full, backbone)
    IN /\ Told(a) /\ VaultAnswer(index, ask, a.vault)
       /\ (a.partial <=> backbone = Down /\ ask.hint = "any") /\ ~a.degraded

\* Client c signs a request for an index of the backbone, and the vault is empty or down.
BackboneAsked(c, ask) ==
    LET p == ByEnvelope(c, TRUE)
        a == Retrieve(p.principal, ask, Empty, Full)
    IN p.status = 200 =>
          /\ Told(a)
          /\ IF ask.hint = "vault" THEN a.backbone = <<>>
             ELSE BackboneAnswer(index, Clients[c].sub, a.backbone)
          /\ Retrieve(p.principal, ask, Down, Full).backbone = <<>>

\* Retrieval: the principal that is filtered for is the one that signed, whatever the
\* request says; each index answers as its contract says, a backbone that fails takes
\* nothing from the vault's answer, and a refusal says that nothing was found.
RetrievalSound ==
    /\ subject = "vault" => \A ask \in Asks, backbone \in {Empty, Down} : VaultAsked(ask, backbone)
    /\ subject = "backbone" => \A c \in DOMAIN Clients, ask \in PlainAsks : BackboneAsked(c, ask)
    /\ BySecret.status = 401 /\ \A c \in DOMAIN Clients : ByEnvelope(c, FALSE).status = 401
    /\ subject = "jobs" => \A t \in issued, now \in Instants :
          ByToken(t, now).status = 200 => InTime(t, now) /\ ByToken(t, now).principal.sub = t.sub
=============================================================================
