------------------------------- MODULE MCGcra --------------------------------
(***************************************************************************)
(* Instances of Gcra for TLC.  With Emission 2 and Burst 4 a bucket admits *)
(* two calls at once and then one every second tick; Ttl = Burst is the    *)
(* shortest lifetime the assumption allows.                                *)
(***************************************************************************)
EXTENDS Gcra
=============================================================================
