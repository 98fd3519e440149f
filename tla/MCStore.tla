------------------------------- MODULE MCStore -------------------------------
(***************************************************************************)
(* Store for TLC: two locations, the second also the default one.           *)
(***************************************************************************)
EXTENDS Store

CONSTANTS shelf, depot, s1, s2

MCRoute == <<shelf, depot>>
MCOpening == (shelf :> 1) @@ (depot :> 1)
MCDeepOpening == (shelf :> 2) @@ (depot :> 1)
=============================================================================
