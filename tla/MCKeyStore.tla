----------------------------- MODULE MCKeyStore -----------------------------
(* Two instances, the revoking one with two concurrent lookups. *)
EXTENDS KeyStore, TLC

CONSTANTS i1, i2, r1, r2, r3

MCHome == r1 :> i1 @@ r2 :> i2 @@ r3 :> i1
=============================================================================
