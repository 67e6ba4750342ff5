------------------------- MODULE MCTenantConnection -------------------------
(* Model-checking instances of TenantConnection.                           *)
EXTENDS TenantConnection, TLC

CONSTANTS i1, i2, r1, r2, r3

\* Two requests on one instance and one on another.
Homes == r1 :> i1 @@ r2 :> i1 @@ r3 :> i2
=============================================================================
