------------------------------ MODULE MCGrants ------------------------------
(***************************************************************************)
(* Values for the constants of Grants: two logins, a card with a sub-card  *)
(* of the one and an expiring card of the other.                           *)
(***************************************************************************)
EXTENDS Grants, TLC

CONSTANTS u1, u2, k1, k2, k3

Owners == k1 :> u1 @@ k2 :> u1 @@ k3 :> u2
Ancestors == k1 :> {k1} @@ k2 :> {k1, k2} @@ k3 :> {k3}
Expiries == k1 :> None @@ k2 :> None @@ k3 :> 1

Same == Permutations(Request) \cup Permutations(Client)
=============================================================================
