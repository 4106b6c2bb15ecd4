------------------------------ MODULE MCRingQueue ------------------------------
(* Instances of RingQueue for TLC. *)
EXTENDS RingQueue, TLC

CONSTANTS a, b

Weights == a :> 1 @@ b :> 2
====
