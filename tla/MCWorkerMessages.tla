-------------------------- MODULE MCWorkerMessages --------------------------
(* Scenarios for WorkerMessages: jobs through brokers whose templates      *)
(* exercise the interpreter, the result channel and shared DeliverIDs.     *)
EXTENDS WorkerMessages

Leaf(op, ok, to) == Stmt(Row(op, ok, 0, to), <<>>, <<>>, <<>>)
Block(op, ok, n, body, other) == Stmt(Row(op, ok, n, ""), body, <<>>, other)

ToTask == Leaf("send", TRUE, "task")
ToChannel == Leaf("send", TRUE, "channel")
Unique == Leaf("sendu", TRUE, "task")
Ask == Leaf("sendsync", TRUE, "task")
AskChannel == Leaf("sendsync", TRUE, "channel")
Fails == Leaf("plain", FALSE, "")
Returns == Leaf("return", TRUE, "")
Lost == Leaf("send", TRUE, "missing")

Plan(bs, js, cs, p) == [brokers |-> bs, jobs |-> js, clients |-> cs, pace |-> p]

\* One message through one template.  The families of templates are numbered
\* by the choices for their parts.
Small == <<<<>>, <<ToTask>>, <<Ask>>, <<Returns>>>>
Part(i, k) == Small[((i \div k) % 4) + 1]
Family(size, T(_)) == [i \in 1 .. size |-> T(i - 1)]
Ifs == Family(32, LAMBDA i : Block("if", TRUE, i \div 16, Part(i, 1), Part(i, 4)))
Opens == Family(8, LAMBDA i : Block("open", i < 4, 0, <<Ask>>, Part(i, 1)))
Ranges == Family(16, LAMBDA i : Block("range", i >= 4, i \div 4 - (IF i < 4 THEN 0 ELSE 1), Part(i, 1), <<>>))
IfInRange ==
  Family(32, LAMBDA i : Block("range", TRUE, 2,
                              <<Block("if", TRUE, i \div 16, Part(i, 1), <<ToTask>>)>> \o Part(i, 4), <<>>))
RangeInIf ==
  Family(48, LAMBDA i : Block("if", TRUE, 1,
                              <<Block("range", TRUE, i \div 16, Part(i, 1), <<>>)>> \o Part(i, 4), <<ToChannel>>))
Misreadable ==
  <<Block("range", TRUE, 2, <<Block("range", TRUE, 0, <<Ask>>, <<>>), ToChannel>>, <<>>),
    Block("range", TRUE, 2, <<Block("range", TRUE, 1, <<Ask>>, <<>>), ToChannel>>, <<>>),
    Block("range", TRUE, 2, <<Block("if", TRUE, 1, <<Leaf("break", TRUE, "")>>, <<>>), ToTask>>, <<>>),
    Stmt(Row("if", TRUE, 0, ""), <<ToTask>>,
         <<[row |-> Row("elseif", TRUE, 0, ""), body |-> <<ToChannel>>]>>, <<>>)>>
Blocks == Ifs \o Opens \o Ranges \o IfInRange \o RangeInIf \o Misreadable
Texts == [i \in DOMAIN Blocks |->
            Plan(<<NewBroker(<<Blocks[i], ToChannel>>)>>, <<"msg">>, {1}, "prompt")]

\* Jobs that wait for a result, with late and lost answers, several clients
\* and brokers, failing templates, and receivers that never answer.
One(job, text, cs, pace) == Plan(<<NewBroker(text)>>, <<job>>, cs, pace)
WithMessage(job, text) == Plan(<<NewBroker(text)>>, <<job, "msg">>, {1}, "in time")
Results ==
  <<One("sync", <<Ask>>, {1}, "late"), One("trigger", <<Ask>>, {1}, "late"),
    One("sync", <<ToChannel>>, {1}, "late"), One("trigger", <<ToChannel>>, {1}, "late"),
    One("sync", <<Ask, ToTask>>, {1}, "late"), One("trigger", <<Ask, Ask>>, {1}, "late"),
    One("sync", <<ToChannel, Ask>>, {1}, "in time"),
    One("sync", <<Ask>>, {1, 2}, "in time"), One("trigger", <<Ask>>, {1, 2}, "in time"),
    WithMessage("sync", <<Ask, Fails>>), WithMessage("trigger", <<Ask, ToTask, Fails>>),
    WithMessage("sync", <<Lost>>),
    One("trigger", <<Ask, Lost, ToTask>>, {1}, "in time"),
    One("trigger", <<AskChannel>>, {1}, "in time"),
    One("msg", <<Block("range", TRUE, 2, <<Ask>>, <<>>)>>, {1}, "in time"),
    One("msg", <<Unique>>, {1, 2}, "prompt"),
    Plan(<<NewBroker(<<Ask>>)>>, <<"trigger", "trigger">>, {1}, "in time"),
    Plan(<<NewBroker(<<Ask>>), NewBroker(<<Ask, Returns>>)>>, <<"sync">>, {1}, "in time"),
    Plan(<<EndpointBroker, NewBroker(<<ToTask>>)>>, <<"msg">>, {1}, "in time"),
    Plan(<<EndpointBroker>>, <<"trigger">>, {1}, "in time")>>

SomePlans == Texts \o Results
=============================================================================
