-------------------------- MODULE MCCapacityGate --------------------------
(* CapacityGate for TLC: the default limits of the code.  One automation     *)
(* more than there are leases, and two interactive callers more, so that two *)
(* of them wait in a line whose order can be wrong.                          *)
EXTENDS CapacityGate

CONSTANTS a1, a2, a3, i1, i2, i3

BrowserKinds == {"automation", "interactive"}
DefaultLimit == [k \in BrowserKinds |-> IF k = "automation" THEN 2 ELSE 1]
Callers == {a1, a2, a3, i1, i2, i3}
CallerKind == [t \in Callers |-> IF t \in {a1, a2, a3} THEN "automation" ELSE "interactive"]
=============================================================================
