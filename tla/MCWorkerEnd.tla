---------------------------- MODULE MCWorkerEnd ----------------------------
(***************************************************************************)
(* Scenarios for WorkerEnd: a workflow with two clients, one that is       *)
(* deleted twice, one with unrecovered records, a workflow that has no     *)
(* clients, and two workflows in a pool of one.                            *)
(***************************************************************************)
EXTENDS WorkerEnd

Create(w) == [cmd |-> "Create", wf |-> w]
Delete(w) == [cmd |-> "Delete", wf |-> w]
Recover(w) == [cmd |-> "Recover", wf |-> w]

Plan(cap, cs, rs, unset, es, n) ==
  [capacity |-> cap, faults |-> n, events |-> es, slow |-> unset,
   clients |-> [w \in Workflows |-> IF w = 1 THEN cs ELSE {1}],
   records |-> [w \in Workflows |-> IF w = 1 THEN rs ELSE {}]]

SomePlans ==
  {Plan(2, {1, 2}, {}, {1}, <<Create(1), Delete(1)>>, 1),
   Plan(2, {1}, {}, {}, <<Create(1), Delete(1), Delete(1)>>, 0),
   Plan(2, {1}, {1, 2}, {}, <<Create(1), Recover(1)>>, 1),
   Plan(2, {1}, {1}, {}, <<Create(1), Recover(1), Delete(1)>>, 1),
   Plan(2, {}, {}, {}, <<Create(1), Delete(1), Delete(1)>>, 0),
   Plan(1, {1}, {}, {1}, <<Create(1), Create(2), Delete(1)>>, 1)}

=============================================================================
