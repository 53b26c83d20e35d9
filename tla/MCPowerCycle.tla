---------------------------- MODULE MCPowerCycle ----------------------------
(* The power cycle on every clock, with every fault the constants allow. *)
EXTENDS PowerCycle

AllSkews == {"exact", "behind", "ahead"}
=============================================================================
