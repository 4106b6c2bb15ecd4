----------------------------- MODULE MCWorkerSetup -----------------------------
(* Instances of WorkerSetup for TLC. *)
EXTENDS WorkerSetup

CONSTANTS t1, t2, p1, b1, c1, c2

(* A task on two clients, and a PubSub task.                               *)
WithPubSub == << <<t1, c1>>, <<t1, c2>>, <<p1, "kairos">> >>

(* Two tasks.                                                              *)
TwoTasks == << <<t1, c1>>, <<t2, c2>> >>

NoBroker == <<>>
OneBroker == << <<b1, c1>> >>
====
