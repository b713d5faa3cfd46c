----------------------------- MODULE MCGateway ------------------------------
(* Two requests that may carry the same envelope, the same idempotency key *)
(* and the same grants, on a pool that other stores draw from as well.     *)
EXTENDS Gateway, TLC

CONSTANTS n1, g1, g2, k1    \* model values

MCExpiry == [t \in Tokens |-> IF t = g2 THEN 1 ELSE 0]

MCCalls ==
    {[route |-> "submit", token |-> NoToken, key |-> k1, terms |-> "external"],
     [route |-> "async", token |-> n1, key |-> NoKey, terms |-> "own"],
     [route |-> "sync", token |-> NoToken, key |-> NoKey, terms |-> "own"],
     [route |-> "persona", token |-> NoToken, key |-> NoKey, terms |-> "free"],
     [route |-> "negotiate", token |-> NoToken, key |-> NoKey, terms |-> "free"]}

RequestSymmetry == Permutations(Requests)
=============================================================================
