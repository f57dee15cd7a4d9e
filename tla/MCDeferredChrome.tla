-------------------------- MODULE MCDeferredChrome --------------------------
(* DeferredChrome for TLC: two calls of start(), for one account or for two, *)
(* and room for two sessions.                                                *)
EXTENDS DeferredChrome

CONSTANTS s1, s2, u1, a1, a2

TwoStarts == {s1, s2}
TwoAccounts == {a1, a2}
\* The names of the accounts do not matter.
OneAccountOrTwo == {[t \in TwoStarts |-> a1], [t \in TwoStarts |-> IF t = s1 THEN a1 ELSE a2]}
OneUser == {u1}
=============================================================================
