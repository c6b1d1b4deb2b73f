---------------------------- MODULE MCAdminPanel ----------------------------
(***************************************************************************)
(* Instance of AdminPanel for TLC: two events about one address, one of    *)
(* them without a customer tag, in a cache for one token; an operator with *)
(* one allowed and one other IP.                                           *)
(***************************************************************************)
EXTENDS AdminPanel, TLC

CONSTANTS k1, k2, e1, c1, nocust

MCStamp == (k1 :> 1) @@ (k2 :> 2)
MCEmail == (k1 :> e1) @@ (k2 :> e1)
MCTag   == (k1 :> c1) @@ (k2 :> nocust)
=============================================================================
