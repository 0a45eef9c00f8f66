----------------------- MODULE MCInstanceAndCredential -----------------------
(* InstanceAndCredential for TLC; the constants come from the configurations. *)
EXTENDS InstanceAndCredential
=============================================================================
