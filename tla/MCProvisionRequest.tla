-------------------------- MODULE MCProvisionRequest --------------------------
(***************************************************************************)
(* ProvisionRequest for TLC: two brokers offer a service of the same name, *)
(* with a plan of the same name; the first one's catalog is there already. *)
(***************************************************************************)
EXTENDS ProvisionRequest, TLC

CONSTANTS c1, c2, p1, p2

MCClasses == {c1, c2}
MCPlans == {p1, p2}
MCClassOf == p1 :> c1 @@ p2 :> c2
MCExternalName == c1 :> "db" @@ c2 :> "db" @@ p1 :> "small" @@ p2 :> "small"
MCCatalogAtStart == {c1, p1}

\* Two values of a secret's parameter, and one that is in the spec already.
MCContents == {"user" :> "1", "user" :> "2", "size" :> "1"}
MCParameters == "size" :> "0"
MCParametersFrom == <<"s">>
MCNamespaceAtStart == <<"absent", "active">>
=============================================================================
