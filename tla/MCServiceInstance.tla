-------------------------- MODULE MCServiceInstance --------------------------
(***************************************************************************)
(* ServiceInstance for TLC: the constants are given in the .cfg files.     *)
(***************************************************************************)
EXTENDS ServiceInstance
=============================================================================
