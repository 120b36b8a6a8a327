---------------------------- MODULE MCProvision ----------------------------
(* Provision for TLC; the configurations give the constants. *)
EXTENDS Provision
=============================================================================
