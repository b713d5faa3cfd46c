----------------------------- MODULE MCDatabase -----------------------------
(* Instances for TLC of what keeps and reads the rows of the database: the  *)
(* runner of its migrations with three checkouts, the read routes over all  *)
(* short tables, and the money reports over all short lists of rows.  They  *)
(* share no state, so TLC explores them beside each other and not in every  *)
(* combination.                                                            *)
EXTENDS MigrationRunner, MoneyReports, ReadAccess, TLC

CONSTANTS r1, r2, r3    \* model values: runners

\* Two checkouts of the main line that differ in their line ends, and a branch
\* without file 2 and with another file 3.
Checkouts ==
    [r \in Runners |->
        IF r = r3 THEN (1 :> <<"text", "lf">> @@ 3 :> <<"edited", "lf">>)
        ELSE [f \in 1 .. 3 |-> <<"text", IF r = r1 THEN "lf" ELSE "crlf">>]]

\* Two clients of one tenant, one of them with every scope; a third for the same
\* principal as the first, with fewer scopes; and one without a tenant.
MCClients ==
    [cato |-> [sub |-> "service:cato", tenant |-> "e4l",
               scopes |-> {"agent.invoke", "job.read", "artifact.read", "retrieval.query"}],
     cato2 |-> [sub |-> "service:cato", tenant |-> "e4l", scopes |-> {"agent.invoke", "artifact.read"}],
     peer |-> [sub |-> "service:peer", tenant |-> "e4l", scopes |-> {"*"}],
     bare |-> [sub |-> "client:bare", tenant |-> "", scopes |-> {"agent.invoke", "job.read"}]]

MCVaultRows == [status : {"active", "superseded"}, entity : {"e1", "e2"}, score : 1..2, updated : 1..2]

\* Two canonical files and one of the controller's; snapshots that are open to all,
\* to one client, or to nobody.
MCBackboneRows ==
    [file : {"f1"}, class : {"canonical"}, hash : {"h1", "h2"}, score : 1..3,
     snapshot : {[wellformed |-> TRUE, public |-> TRUE, principals |-> {}],
                 [wellformed |-> TRUE, public |-> FALSE, principals |-> {"service:cato"}]}]
    \cup
    [file : {"f2"}, class : {"canonical"}, hash : {"h1", "h2"}, score : 1..3,
     snapshot : {[wellformed |-> TRUE, public |-> TRUE, principals |-> {}]}]
    \cup
    [file : {"f3"}, class : {"controller"}, hash : {"h1", "h2"}, score : 1..3,
     snapshot : {[wellformed |-> TRUE, public |-> TRUE, principals |-> {}],
                 [wellformed |-> FALSE, public |-> TRUE, principals |-> {}]}]

MCInit ==
    /\ Init /\ InitReports /\ InitReads
    /\ report = "none" \/ subject = "none"

\* No deploy begins in the states a report or a read is explored from.
MCNext ==
    \/ report = "none" /\ subject = "none" /\ Next /\ UNCHANGED <<report, list, readVars>>
    \/ ReportStep /\ UNCHANGED <<vars, readVars>>
    \/ ReadStep /\ UNCHANGED <<vars, report, list>>

MCSpec ==
    /\ MCInit /\ [][MCNext]_<<vars, report, list, readVars>>
    /\ \A r \in Runners : WF_vars(Move(r))

=============================================================================
