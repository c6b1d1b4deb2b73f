-------------------------- MODULE MCCustomerDomains -------------------------
(***************************************************************************)
(* Instance of CustomerDomains for TLC: one customer controls both names;  *)
(* the other's account is registered with one of them.                     *)
(***************************************************************************)
EXTENDS CustomerDomains, TLC

CONSTANTS c1, c2, n1, n2, t1, t2, r1, r2

MCControls == {c1} \X Names
MCPrimary == (c1 :> n2) @@ (c2 :> n1)

Symmetry == Permutations(Tokens) \cup Permutations(Requests)
=============================================================================
