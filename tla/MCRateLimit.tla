----------------------------- MODULE MCRateLimit -----------------------------
(* A limited service account and one without rpm_limit under a global      *)
(* limit.  Requests are interchangeable.                                   *)
EXTENDS RateLimit, TLC

CONSTANTS a, b

MCRpmLimitOpen == a :> 1 @@ b :> NoLimit
Perms == Permutations(Requests)
=============================================================================
