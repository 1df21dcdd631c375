--------------------------------- MODULE Rows ---------------------------------
(***************************************************************************)
(* Rows of a table (SQLite, src/src/dbcmd.c, src/src/nicks.c): those that  *)
(* a condition selects, and ORDER BY a number.                             *)
(***************************************************************************)
EXTENDS Integers, Sequences, FiniteSets

\* The numbers of a finite set in ascending order.
Ranked(S) == [j \in 1..Cardinality(S) |-> CHOOSE n \in S : Cardinality({m \in S : m <= n}) = j]

\* The rows at the places K, in their order.
Kept(rows, K) == LET at == Ranked(K) IN [j \in 1..Cardinality(K) |-> rows[at[j]]]
=============================================================================
