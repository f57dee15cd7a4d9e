--------------------------- MODULE MCLoginState ---------------------------
(* LoginState for TLC: a run by hand and a run by schedule.                 *)
EXTENDS LoginState, TLC

CONSTANTS r1, r2

TwoRuns == {r1, r2}
SameRuns == Permutations(TwoRuns)
=============================================================================
