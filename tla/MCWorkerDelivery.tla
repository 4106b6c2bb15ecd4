--------------------------- MODULE MCWorkerDelivery ---------------------------
(* Instances of WorkerDelivery for TLC. *)
EXTENDS WorkerDelivery, TLC

CONSTANTS c1, c2

TaskAndTrigger == c1 :> "SetTask" @@ c2 :> "Trigger"
====
