-------------------------- MODULE MCNotifications --------------------------
(* Notifications for TLC: an old database in which two accounts may share a *)
(* Kuma monitor, and one of them may have half of a NapCat configuration,   *)
(* or a whole one that is invalid; users may set, delete, complete and      *)
(* break up all of these.                                                   *)
EXTENDS Notifications, TLC

CONSTANTS a1, a2, c1, c2, s1, kuma, napcat, x, y, bad

TwoAccounts == {a1, a2}
TwoChannels == {c1, c2}
BothTypes == {kuma, napcat}
Kuma == {kuma}
Settings == {x, y}
OneSender == {s1}
OldSecrets == {[account |-> a1, type |-> kuma, config |-> x, whole |-> TRUE],
               [account |-> a2, type |-> kuma, config |-> x, whole |-> TRUE],
               [account |-> a2, type |-> napcat, config |-> bad, whole |-> TRUE],
               [account |-> a2, type |-> napcat, config |-> x, whole |-> FALSE]}
AnyChannel == Permutations(TwoChannels)
=============================================================================
