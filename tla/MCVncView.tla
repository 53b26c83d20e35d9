----------------------------- MODULE MCVncView -----------------------------
(* The instance of VncView that TLC checks. *)
EXTENDS VncView
=============================================================================
