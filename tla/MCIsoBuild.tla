---------------------------- MODULE MCIsoBuild ----------------------------
(* The instances of IsoBuild that TLC checks. *)
EXTENDS IsoBuild
=============================================================================
