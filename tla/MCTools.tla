------------------------------ MODULE MCTools ------------------------------
(* Instances for TLC: the workspace and Xero tools of two jobs that share   *)
(* the gateway process.                                                    *)
EXTENDS XeroPosting, TLC

CONSTANTS j1, j2, v1

MCSlug == (j1 :> "genesis-e4l-ap") @@ (j2 :> "genesis-builder")
MCAsked == {"create_draft_bill", "get_trial_balance"}
MCKeys == MCAsked \X {v1}

=============================================================================
