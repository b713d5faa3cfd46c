------------------------------- MODULE Ranking -------------------------------
(***************************************************************************)
(* Lists cut out of other lists: ORDER BY of a query, sorted with a key,   *)
(* and the comprehension that keeps the rows that pass a test.             *)
(***************************************************************************)
EXTENDS Integers, FiniteSets

\* Of the rows at the positions S of a table, the one with n - 1 others ahead of it
\* comes n-th.
Listed(table, S, Ahead(_, _)) ==
    [n \in 1 .. Cardinality(S) |->
        table[CHOOSE i \in S : Cardinality({j \in S : j = i \/ Ahead(j, i)}) = n]]

\* The rows at the positions S, in their order.
Keep(table, S) == Listed(table, S, LAMBDA j, i : j < i)

=============================================================================
