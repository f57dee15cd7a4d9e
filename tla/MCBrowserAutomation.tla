------------------------- MODULE MCBrowserAutomation -------------------------
(* BrowserAutomation for TLC: three automations, two leases.                  *)
EXTENDS BrowserAutomation

CONSTANTS a1, a2, a3

Automations == {a1, a2, a3}
AutomationOnly == {"automation"}
TwoLeases == [k \in AutomationOnly |-> 2]
AllAutomation == [t \in Automations |-> "automation"]
=============================================================================
