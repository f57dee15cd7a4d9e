----------------------- MODULE MCInteractiveSessions -----------------------
(* InteractiveSessions for TLC: three calls of start(), two of them for the  *)
(* same account, and room for two sessions (the default is one, the settings *)
(* allow up to eight).                                                       *)
EXTENDS InteractiveSessions

CONSTANTS s1, s2, s3, u1, a1, a2

Starts == {s1, s2, s3}
InteractiveOnly == {"interactive"}
TwoSessions == [k \in InteractiveOnly |-> 2]
AllInteractive == [t \in Starts |-> "interactive"]
TwoAccounts == {a1, a2}
Account == [t \in Starts |-> IF t = s3 THEN a2 ELSE a1]
Requests == {u1}

\* For liveness: the default limit, two starts that compete for the one lease.
TwoStarts == {s1, s2}
OneSession == [k \in InteractiveOnly |-> 1]
BothInteractive == [t \in TwoStarts |-> "interactive"]
OneAccount == {a1}
SameAccount == [t \in TwoStarts |-> a1]
=============================================================================
