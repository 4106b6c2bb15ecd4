--------------------------- MODULE MCDaemonAgent ---------------------------
(***************************************************************************)
(* Two brokers, and three tasks: one with neither a schedule nor an input, *)
(* a scheduled one, and one with an input.  What comes is chosen at the    *)
(* start: brokers that are set and destroyed repeatedly, an invalid        *)
(* broker, tasks, inputs, a trigger, or some of each.                      *)
(***************************************************************************)
EXTENDS DaemonAgent

Plan(tm, copies, n) ==
  [template |-> tm, faults |-> n,
   copies |-> [c \in Cmds |-> IF \E x \in copies : x[1] = c
                              THEN (CHOOSE x \in copies : x[1] = c)[2] ELSE 0]]

SetTask(t) == <<"SetTaskCmd", t>>
StartTask(t) == <<"TriggerStartTaskCmd", t>>
InputTask(t) == <<"InputTaskCmd", t>>
TriggerTask(t) == <<"TriggerCmd", t>>
SetBroker(b) == <<"SetBrokerCmd", b>>
BothGood == <<"good", "good">>

SomePlans ==
  {Plan(BothGood, {<<SetBroker(1), 2>>, <<SetBroker(2), 1>>, <<Destroy, 2>>}, 0),
   Plan(<<"good", "nofunc">>, {<<SetBroker(1), 1>>, <<SetBroker(2), 1>>, <<Destroy, 1>>}, 1),
   Plan(<<"good", "none">>, {<<SetBroker(1), 1>>, <<SetBroker(2), 1>>}, 0),
   Plan(BothGood, {<<SetTask(1), 1>>, <<SetTask(2), 1>>, <<StartTask(1), 1>>,
                   <<StartTask(2), 2>>, <<Destroy, 1>>}, 1),
   Plan(BothGood, {<<SetBroker(1), 1>>, <<SetTask(3), 1>>, <<SetTask(2), 1>>,
                   <<StartTask(2), 1>>, <<StartTask(3), 1>>, <<Destroy, 1>>}, 0),
   Plan(BothGood, {<<SetTask(2), 1>>, <<StartTask(2), 1>>, <<InputTask(2), 2>>}, 0),
   Plan(BothGood, {<<SetTask(1), 1>>, <<InputTask(1), 1>>, <<SetTask(3), 1>>,
                   <<InputTask(3), 1>>, <<Destroy, 1>>}, 0),
   Plan(BothGood, {<<SetTask(2), 1>>, <<StartTask(2), 1>>, <<TriggerTask(2), 1>>,
                   <<Destroy, 1>>}, 1)}

==============================================================================
