---------------------------- MODULE MCLoginWait ----------------------------
(* The login with the bound of the code, five attempts. *)
EXTENDS LoginWait

FiveAttempts == 5
=============================================================================
