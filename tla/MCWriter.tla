-------------------------------- MODULE MCWriter --------------------------------
(* Instances of Writer for TLC. *)
EXTENDS Writer

CONSTANTS m1, m2
====
