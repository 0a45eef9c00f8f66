-------------------------- MODULE MCInstanceAdmission --------------------------
(***************************************************************************)
(* InstanceAdmission for TLC: one class with two plans, or two classes     *)
(* with one plan each.                                                     *)
(***************************************************************************)
EXTENDS InstanceAdmission, TLC

CONSTANTS c1, c2, p1, p2

TwoPlans == p1 :> c1 @@ p2 :> c1
TwoClasses == p1 :> c1 @@ p2 :> c2
MCExternalName == c1 :> "db" @@ c2 :> "mail" @@ p1 :> "small" @@ p2 :> "large"
Active == <<"active">>
=============================================================================
