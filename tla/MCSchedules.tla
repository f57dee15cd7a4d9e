---------------------------- MODULE MCSchedules ----------------------------
(* Schedules for TLC.                                                        *)
EXTENDS Schedules

CONSTANTS a1, j1, j2

OneAccount == {a1}
TwoJobs == {j1, j2}
TwoTimes == {0, 4}
One == {1}
=============================================================================
