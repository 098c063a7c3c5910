-------------------------- MODULE MCFirewallStage --------------------------
(* Small instances of FirewallStage.                                       *)
EXTENDS FirewallStage, TLC

CONSTANTS o1, o2
=============================================================================
