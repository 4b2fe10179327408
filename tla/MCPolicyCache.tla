---------------------------- MODULE MCPolicyCache ----------------------------
(* One instance with two handlers; one policy is the default, the other    *)
(* can only be bound.  Instances share nothing but the database: a write   *)
(* through another instance is one whose handler is cancelled here.        *)
EXTENDS PolicyCache, TLC
CONSTANTS i1, d1, d2
MCHome == d1 :> i1 @@ d2 :> i1
=============================================================================
