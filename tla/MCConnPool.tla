----------------------------- MODULE MCConnPool ------------------------------
(***************************************************************************)
(* Instance of ConnPool for TLC: as many nested handlers as connections.   *)
(* MCTestJobs has the instance in which fewer nest.                        *)
(***************************************************************************)
EXTENDS ConnPool, TLC

CONSTANTS r1, r2

TwoNest == (r1 :> "nested") @@ (r2 :> "nested")
=============================================================================
