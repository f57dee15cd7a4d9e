--------------------------- MODULE MCAccountGate ---------------------------
(* AccountGate for TLC: four callers, two accounts.  Four callers on one     *)
(* account is the smallest line in which a waiter has somebody in front of   *)
(* it, somebody behind it, and a holder that is neither.                     *)
EXTENDS AccountGate

CONSTANTS t1, t2, t3, t4, a1, a2

Callers == {t1, t2, t3, t4}
BothAccounts == {a1, a2}
=============================================================================
