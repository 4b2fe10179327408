---------------------------- MODULE MCConcurrency ----------------------------
(* Three request slots on two instances; r1 and r2 share a process.  Two   *)
(* limits: the instances' cached policies may differ.                      *)
EXTENDS Concurrency, TLC

CONSTANTS r1, r2, r3, i1, i2

MCHost == r1 :> i1 @@ r2 :> i1 @@ r3 :> i2
=============================================================================
