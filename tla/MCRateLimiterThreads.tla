------------------------ MODULE MCRateLimiterThreads ------------------------
(***************************************************************************)
(* Instances for TLC: one event loop, as the docstring says, and the two   *)
(* that smtp/main.py starts.                                               *)
(***************************************************************************)
EXTENDS RateLimiterThreads

CONSTANTS loop25, loop587

OneLoop  == {loop587}
TwoLoops == {loop25, loop587}
=============================================================================
