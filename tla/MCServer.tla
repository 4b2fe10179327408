------------------------------ MODULE MCServer ------------------------------
(* Two connections with the tokens of two admin keys, one active, one not. *)
(* Environments: a good one, and every one that differs in one variable; a *)
(* given pool size behaves as the default one does and is left out.        *)
EXTENDS Server, TLC
CONSTANTS r1, r2, k1, k2
MCMatches == r1 :> {k1} @@ r2 :> {k2}
MCRows == k1 :> "admin" @@ k2 :> "inactive"
Good == [n \in Names |-> IF n \in Urls THEN "given" ELSE "unset"]
Pools == {"PG_POOL_SIZE", "VALKEY_POOL_SIZE"}
MCEnvironments == {[Good EXCEPT ![n] = v] : n \in Names, v \in Values}
                      \ {[Good EXCEPT ![n] = "given"] : n \in Pools}
=============================================================================
