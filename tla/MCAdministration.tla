-------------------------- MODULE MCAdministration --------------------------
(* Administration for TLC: one client more than the table holds, and two     *)
(* databases.                                                                *)
EXTENDS Administration, TLC

CONSTANTS c1, c2, c3, d1, d2

ThreeClients == {c1, c2, c3}
TwoDatabases == {d1, d2}
SameClients == Permutations(ThreeClients) \union Permutations(TwoDatabases)
=============================================================================
