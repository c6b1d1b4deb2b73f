----------------------------- MODULE MCTestJobs ------------------------------
(***************************************************************************)
(* Instance of TestJobs for TLC: a pool of two connections, one nested,    *)
(* one serial and one health request beside the one that starts a test.    *)
(***************************************************************************)
EXTENDS TestJobs, TLC

CONSTANTS r1, r2, r3, r4

OneNests == (r1 :> "nested") @@ (r2 :> "serial") @@ (r3 :> "scoped") @@ (r4 :> "health")
=============================================================================
