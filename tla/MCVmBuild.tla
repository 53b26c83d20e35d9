----------------------------- MODULE MCVmBuild -----------------------------
(* The instances of VmBuild that TLC checks. *)
EXTENDS VmBuild
=============================================================================
