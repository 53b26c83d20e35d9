------------------------------ MODULE VncSlot ------------------------------
(***************************************************************************)
(* What the view server promises about the one VNC connection Sylve gives  *)
(* a VM: the slot is taken once, each reconnect replaces exactly the       *)
(* connection before it, and once released the slot is never taken again.  *)
(***************************************************************************)
EXTENDS Naturals

VARIABLES phase, current
vars == <<phase, current>>

Init == phase = "idle" /\ current = 0

Take == phase = "idle" /\ phase' = "serving" /\ current' = 1

Replace == phase = "serving" /\ current' = current + 1 /\ UNCHANGED phase

Release == phase = "serving" /\ phase' = "released" /\ current' = 0

Next == Take \/ Replace \/ Release

Spec == Init /\ [][Next]_vars
=============================================================================
