------------------------------ MODULE MCAccounts ------------------------------
(***************************************************************************)
(* Instances of Accounts for TLC: one company and its one address, which   *)
(* is a Google account (gina) and a Microsoft account (mary).              *)
(***************************************************************************)
EXTENDS Accounts, TLC

CONSTANTS gina, mary

Provider == [i \in Identities |-> IF i = gina THEN "google" ELSE "microsoft"]
Email == [i \in Identities |-> "info@corp"]
Domain == [i \in Identities |-> "corp"]

Symmetry == Permutations(Browsers) \cup Permutations(States) \cup Permutations(Calls)
=============================================================================
