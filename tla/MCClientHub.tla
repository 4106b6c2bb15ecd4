------------------------------ MODULE MCClientHub ------------------------------
(* Instances of ClientHub for TLC. *)
EXTENDS ClientHub

CONSTANTS c1, c2, b1, s1

(* Both clients are given the same channel. *)
SharedGrants == [c \in Clients |-> Bases]

(* The first client makes one request, the second comes and goes. *)
FirstOnce == [c \in Clients |-> IF c = c1 THEN 1 ELSE 0]
====
