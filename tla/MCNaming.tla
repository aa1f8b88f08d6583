------------------------------ MODULE MCNaming ------------------------------
(* Naming, where the user gives the names: ci-2 begins with ci.             *)
EXTENDS Naming

MCBegins == [w \in Typed |-> IF w = "ci" THEN {"ci", "ci-2"} ELSE {w} \cap VmNames]
=============================================================================
