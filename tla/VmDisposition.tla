--------------------------- MODULE VmDisposition ---------------------------
(***************************************************************************)
(* What a build owes the Sylve host: it creates at most one VM, a VM it    *)
(* deleted is never brought back, and once the build has reported its      *)
(* outcome it touches the host no more.                                    *)
(***************************************************************************)
VARIABLES vmState,   \* the build's VM: "absent", "present" or "gone"
          outcome    \* "running", "artifact" or "error"
vars == <<vmState, outcome>>

Init == vmState = "absent" /\ outcome = "running"

Create == outcome = "running" /\ vmState = "absent" /\ vmState' = "present" /\ UNCHANGED outcome

Delete == outcome = "running" /\ vmState = "present" /\ vmState' = "gone" /\ UNCHANGED outcome

Report == outcome = "running" /\ outcome' \in {"artifact", "error"} /\ UNCHANGED vmState

Next == Create \/ Delete \/ Report

Spec == Init /\ [][Next]_vars
=============================================================================
