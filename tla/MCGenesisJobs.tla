--------------------------- MODULE MCGenesisJobs ---------------------------
(* Small instances of GenesisJobs for TLC.                                 *)
EXTENDS GenesisJobs, TLC

\* Terms of the jobs submitted: an escrow the gateway opened, and a marketplace
\* escrow announced with a webhook.
MCDeals == {[escrow |-> "gateway", hook |-> FALSE],
            [escrow |-> "marketplace", hook |-> TRUE]}

GatewayDeals == {[escrow |-> "gateway", hook |-> FALSE]}
HookDeals == {[escrow |-> "marketplace", hook |-> TRUE]}

JobSymmetry == Permutations(Jobs)
=============================================================================
