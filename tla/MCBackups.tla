----------------------------- MODULE MCBackups -----------------------------
(* Backups for TLC: the coordinator, a request and somebody who edits the    *)
(* settings, over two retention counts.                                      *)
EXTENDS Backups, TLC

CONSTANTS r1, p1, p2

OneRequest == {r1}
TwoPasswords == {p1, p2}
SamePasswords == Permutations(TwoPasswords)
OneOrTwo == {1, 2}
=============================================================================
