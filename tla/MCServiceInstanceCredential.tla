--------------------- MODULE MCServiceInstanceCredential ---------------------
(***************************************************************************)
(* ServiceInstanceCredential for TLC: constants are given in the .cfg      *)
(* files.                                                                  *)
(***************************************************************************)
EXTENDS ServiceInstanceCredential
=============================================================================
