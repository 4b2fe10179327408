---------------------------- MODULE MCRouteCache ----------------------------
(* Two instances, a handler on each: one reads while the other writes, and *)
(* each writes while it reads.                                             *)
EXTENDS RouteCache, TLC
CONSTANTS i1, i2, d1, d2
MCHome == d1 :> i1 @@ d2 :> i2
=============================================================================
