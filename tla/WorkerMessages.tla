--------------------------- MODULE WorkerMessages ---------------------------
(***************************************************************************)
(* How a running Worker (server/runner/worker.go) carries messages through *)
(* its brokers.  A message comes from a daemon or a channel (reciveMessage *)
(* -> computeMsg), as a request whose sender waits for the result          *)
(* (reciveMessageSync), or from a trigger (RunBroker).  Each broker runs   *)
(* its template (module Template) and handleDeliver sends what it says;    *)
(* after a sendsync the callback of the request resumes the template.      *)
(*                                                                         *)
(* Three goroutines take the jobs, one at a time each: the subscription to *)
(* the worker's subject, which also runs the callbacks of the replies, the *)
(* subscription for synchronous requests, and the trigger loop.  The last  *)
(* two wait on an unbuffered resultCh; whoever sends on it waits for them. *)
(*                                                                         *)
(* A publication to NATS succeeds here, and the worker stays open: module  *)
(* WorkerEnd has the failures of the one and the end of the other.         *)
(***************************************************************************)
EXTENDS Naturals, FiniteSets, Sequences, SequencesExt, Template

CONSTANTS
  Plans,       \* the scenarios, a sequence: brokers, jobs, clients of the
               \* task, and the pace of the clients' answers (see TimeUp)
  MaxRetries   \* retries of one delivery (3 in handleRetryDeliver)

VARIABLES
  scenario,    \* the scenario, of Plans
  jobs,        \* what each goroutine is asked for, and how far it is
  runs,        \* passes through a broker in progress
  sub,         \* the subscription to w-<id>, between its two looks at requests
  requests,    \* w.requests
  responses,   \* w.responsesIDs
  watchers,    \* the goroutines of deliverAsync
  retries,     \* deliveries waiting in retryDeliver and its timers
  wire,        \* requests on their way to a client
  replies,     \* replies on their way back
  outputs,     \* outputs of tasks started by a sendu, on their way back
  last,        \* w.deliverCmd
  seen         \* history, read by no action

vars == <<scenario, jobs, runs, sub, requests, responses, watchers, retries, wire,
          replies, outputs, last, seen>>

-----------------------------------------------------------------------------
Reply == <<"reply", 0>>
Sync == <<"sync", 0>>
Proc(j) == <<"process", j>>
Timer(n) == <<"timer", n>>

\* A broker with its template as Build leaves it, or one with Endpoints; text
\* is what the template was built from, meant what it says.
NewBroker(text) ==
  [endpoint |-> FALSE, text |-> text, exps |-> Rows(text), indexRun |-> Build(Rows(text)),
   meant |-> Meaning(text).out]
EndpointBroker == [NewBroker(<<>>) EXCEPT !.endpoint = TRUE]

plan == Plans[scenario]
Kind(j) == plan.jobs[j]
Broker(b) == plan.brokers[b]
\* resultCh is nil for a message.
HasCh(j) == Kind(j) # "msg"
\* The goroutine that runs computeMsg for a job.
By(j) == IF Kind(j) = "msg" THEN Reply ELSE IF Kind(j) = "sync" THEN Sync ELSE Proc(j)

Passing(g) == \E r \in runs : r.by = g
Busy(kind) == \E j \in DOMAIN jobs : Kind(j) = kind /\ jobs[j].at \in {"computing", "receiving"}
ReplyIdle == sub.at = "idle" /\ ~Passing(Reply) /\ ~Busy("msg")

NoSub == [at |-> "idle", id |-> 0, cb |-> {}]

NewJob == [at |-> "new", todo |-> 1, id |-> 0,
           rts |-> [b \in DOMAIN plan.brokers |-> NewRuntime],
           out |-> [b \in DOMAIN plan.brokers |-> <<>>],
           ended |-> [b \in DOMAIN plan.brokers |-> FALSE]]

\* A pass through broker b: the first by Pass, the others by a callback.
NewRun(g, j, b, id, stage) ==
  [by |-> g, job |-> j, broker |-> b, id |-> id, flows |-> <<>>, stage |-> stage,
   first |-> stage = "deliver", silent |-> FALSE]

-----------------------------------------------------------------------------
(* Jobs.                                                                   *)

\* reciveMessage: a message for the brokers.
TakeMessage(j) ==
  /\ jobs[j].at = "new" /\ Kind(j) = "msg"
  /\ ReplyIdle
  /\ jobs' = [jobs EXCEPT ![j].at = "computing"]
  /\ UNCHANGED <<scenario, runs, sub, requests, responses, watchers, retries, wire, replies,
                 outputs, last, seen>>

\* reciveMessageSync: its request has one DeliverID from the start.
TakeSync(j) ==
  /\ jobs[j].at = "new" /\ Kind(j) = "sync"
  /\ ~Busy("sync")
  /\ last' = last + 1
  /\ jobs' = [jobs EXCEPT ![j].at = "computing", ![j].id = last + 1]
  /\ UNCHANGED <<scenario, runs, sub, requests, responses, watchers, retries, wire, replies,
                 outputs, seen>>

\* What the first pass through broker b is.
Pass(j, b) ==
  LET run == NewRun(By(j), j, b, jobs[j].id, "deliver")
      endpoint == <<[to |-> "channel", send |-> "send"]>>
  IN IF Broker(b).endpoint
     THEN /\ runs' = runs \cup {[run EXCEPT !.flows = endpoint, !.silent = TRUE]}
          /\ jobs' = [jobs EXCEPT ![j].at = IF Kind(j) = "trigger" THEN "receiving" ELSE @,
                                  ![j].todo = b + 1]
     ELSE \E x \in {Execute(Broker(b).exps, Broker(b).indexRun, NewRuntime)} :
          /\ runs' = runs \cup {[run EXCEPT !.flows = x.flows]}
          /\ jobs' = [jobs EXCEPT ![j].at = IF Kind(j) = "trigger" THEN "receiving" ELSE @,
                                  ![j].todo = b + 1,
                                  ![j].rts[b] = x.rt,
                                  ![j].out[b] = [i \in DOMAIN x.flows |-> x.flows[i].to],
                                  ![j].ended[b] = ~x.sync]

\* handleTriggerSchedule: RunBroker starts processBroker and waits.
RunBroker(j) ==
  /\ jobs[j].at = "new" /\ Kind(j) = "trigger"
  /\ ~Busy("trigger")
  /\ Pass(j, 1)
  /\ UNCHANGED <<scenario, sub, requests, responses, watchers, retries, wire, replies, outputs,
                 last, seen>>

\* computeMsg: the brokers in turn, in the goroutine of the job.
ComputeMsg(j) ==
  /\ jobs[j].at = "computing" /\ ~Passing(By(j))
  /\ jobs[j].todo \in DOMAIN plan.brokers
  /\ Pass(j, jobs[j].todo)
  /\ UNCHANGED <<scenario, sub, requests, responses, watchers, retries, wire, replies, outputs,
                 last, seen>>

\* After the brokers a message is done; a synchronous request receives.
Computed(j) ==
  /\ jobs[j].at = "computing" /\ ~Passing(By(j))
  /\ jobs[j].todo \notin DOMAIN plan.brokers
  /\ jobs' = [jobs EXCEPT ![j].at = IF HasCh(j) THEN "receiving" ELSE "done"]
  /\ UNCHANGED <<scenario, runs, sub, requests, responses, watchers, retries, wire, replies,
                 outputs, last, seen>>

-----------------------------------------------------------------------------
(* handleDeliver.  A flow to the task goes to each of its clients; one to  *)
(* a point the workflow does not have ends the call there.                 *)

Missing(flows) == SelectInSeq(flows, LAMBDA f : f.to = "missing")
Known(flows) == IF Missing(flows) = 0 THEN flows ELSE SubSeq(flows, 1, Missing(flows) - 1)
Receivers(f) == IF f.to = "task" THEN plan.clients ELSE {1}
Deliveries(flows) == {d \in (1 .. Len(flows)) \X (plan.clients \cup {1}) :
                        d[2] \in Receivers(flows[d[1]])}

\* An InputTaskCmd is retried, a RequestTaskRunSyncCmd is not; the requests a
\* callback sends copy the latter, so they are not retried either.
\*
\* The deliveries are numbered from last; the clients of one flow share a
\* request, whose DeliverID the first of them to come may set for all.
Number(d) == last + 2 * d[1] + d[2] - 2
DeliverID(run, d, share) ==
  LET first == last + 2 * d[1] - 1
  IN IF run.flows[d[1]].send = "sendu" THEN first
     ELSE IF run.id # 0 THEN run.id
     ELSE IF share THEN first ELSE Number(d)

RequestOf(run, d, id) ==
  LET f == run.flows[d[1]]
  IN [id |-> id, n |-> Number(d), job |-> run.job, broker |-> run.broker,
      sync |-> f.send = "sendsync" /\ f.to = "task", unique |-> f.send = "sendu",
      tries |-> IF run.first /\ f.send # "sendsync" THEN 0 ELSE MaxRetries]

\* deliverAsync for a set of new requests: of those with one DeliverID the
\* last to register stays.
Register(rs, kept) ==
  /\ kept \subseteq rs
  /\ \A r \in rs : Cardinality({k \in kept : k.id = r.id}) = 1
  /\ LET over == {q \in requests : \E r \in rs : r.id = q.id} \cup (rs \ kept)
     IN /\ requests' = (requests \ over) \cup kept
        /\ seen' = [seen EXCEPT !.lost = @ \cup {q.job : q \in {x \in over : x.sync}}]
  /\ wire' = wire \cup {[id |-> r.id, n |-> r.n, unique |-> r.unique] : r \in rs}
  /\ watchers' = watchers \cup {[id |-> r.id, n |-> r.n, at |-> "waiting", cb |-> {}] : r \in rs}

\* The run after stage s.
Left(run) == runs \ {run}
Onward(run, s) == Left(run) \cup {[run EXCEPT !.stage = s]}

HasSync(flows) == \E i \in DOMAIN flows : flows[i].send = "sendsync"

\* A result also when a client was asked.
HandleDeliver_always(run) ==
  LET flows == Known(run.flows)
      ds == Deliveries(flows)
  IN /\ run.stage = "deliver"
     /\ \E share \in IF Cardinality(plan.clients) > 1 THEN BOOLEAN ELSE {FALSE} :
          LET rs == {RequestOf(run, d, DeliverID(run, d, share)) : d \in ds}
              us == {DeliverID(run, d, share) : d \in {e \in ds : run.flows[e[1]].send = "sendu"}}
          IN /\ \E kept \in SUBSET rs : Register(rs, kept)
             /\ responses' = responses \cup us
     /\ last' = last + 2 * Len(flows)
     /\ runs' = IF HasCh(run.job) /\ ~run.silent /\ flows = run.flows
                THEN Onward(run, "result") ELSE Left(run)
     /\ jobs' \in {jobs} \cup
          (IF run.silent /\ run.id = 0 THEN {[jobs EXCEPT ![run.job].id = last + 1]} ELSE {})
     /\ UNCHANGED <<scenario, sub, retries, replies, outputs>>

HandleDeliver(run) ==
  LET flows == Known(run.flows)
      ds == Deliveries(flows)
  IN /\ run.stage = "deliver"
     /\ \E share \in IF Cardinality(plan.clients) > 1 THEN BOOLEAN ELSE {FALSE} :
          LET rs == {RequestOf(run, d, DeliverID(run, d, share)) : d \in ds}
              us == {DeliverID(run, d, share) : d \in {e \in ds : run.flows[e[1]].send = "sendu"}}
          IN /\ \E kept \in SUBSET rs : Register(rs, kept)
             /\ responses' = responses \cup us
     /\ last' = last + 2 * Len(flows)
     /\ runs' = IF HasCh(run.job) /\ ~HasSync(flows) /\ ~run.silent /\ flows = run.flows
                THEN Onward(run, "result") ELSE Left(run)
     /\ jobs' \in {jobs} \cup
          (IF run.silent /\ run.id = 0 THEN {[jobs EXCEPT ![run.job].id = last + 1]} ELSE {})
     /\ UNCHANGED <<scenario, sub, retries, replies, outputs>>

\* resultCh <- : the job takes one value and goes on.
SendResult(run) ==
  /\ run.stage \in {"error", "result"}
  /\ jobs[run.job].at = "receiving"
  /\ jobs' = [jobs EXCEPT ![run.job].at = "done"]
  /\ runs' = IF run.stage = "result" THEN Left(run)
             ELSE Onward(run, IF run.flows = <<>> THEN "result" ELSE "deliver")
  /\ UNCHANGED <<scenario, sub, requests, responses, watchers, retries, wire, replies, outputs,
                 last, seen>>

\* No result when nothing is delivered.
Resume_quiet(run) ==
  LET j == run.job
      b == run.broker
  IN /\ run.stage = "start"
     /\ \E x \in {Execute(Broker(b).exps, Broker(b).indexRun, jobs[j].rts[b])} :
          /\ jobs' = [jobs EXCEPT ![j].rts[b] = x.rt,
                                  ![j].out[b] = @ \o [i \in DOMAIN x.flows |-> x.flows[i].to],
                                  ![j].ended[b] = ~x.sync]
          /\ runs' = Left(run) \cup
               IF x.flows = <<>> THEN {}
               ELSE {[run EXCEPT !.flows = x.flows,
                                 !.stage = IF x.err /\ HasCh(j) THEN "error" ELSE "deliver"]}
     /\ UNCHANGED <<scenario, sub, requests, responses, watchers, retries, wire, replies,
                    outputs, last, seen>>

\* The callback of deliverRequestRunTaskSync resumes the template.
Resume(run) ==
  LET j == run.job
      b == run.broker
  IN /\ run.stage = "start"
     /\ \E x \in {Execute(Broker(b).exps, Broker(b).indexRun, jobs[j].rts[b])} :
          /\ jobs' = [jobs EXCEPT ![j].rts[b] = x.rt,
                                  ![j].out[b] = @ \o [i \in DOMAIN x.flows |-> x.flows[i].to],
                                  ![j].ended[b] = ~x.sync]
          /\ runs' = Left(run) \cup
               IF x.flows = <<>> /\ ~HasCh(j) THEN {}
               ELSE {[run EXCEPT !.flows = x.flows,
                                 !.stage = IF x.err /\ HasCh(j) THEN "error"
                                           ELSE IF x.flows = <<>> THEN "result" ELSE "deliver"]}
     /\ UNCHANGED <<scenario, sub, requests, responses, watchers, retries, wire, replies,
                    outputs, last, seen>>

-----------------------------------------------------------------------------
(* Replies and timeouts, as in modules WorkerDelivery and WorkerEnd.       *)

\* Run the callbacks in cb, which is empty or has one; err says whether they
\* are told an error.
Callback(g, cb, err) ==
  /\ runs' = runs \cup {NewRun(g, r.job, r.broker, r.id, "start") : r \in {c \in cb : c.sync}}
  /\ retries' = retries \cup {[r EXCEPT !.tries = @ + 1] :
                               r \in {c \in cb : err /\ c.tries < MaxRetries}}

Called(s, cb) ==
  [s EXCEPT !.twice = @ \/ \E r \in cb : r.n \in s.called,
            !.called = @ \cup {r.n : r \in cb}]

\* removeRequest; a request of a job removed without its callback is lost.
RemoveRequest(id, cb, history) ==
  LET gone == {r \in requests : r.id = id}
  IN /\ requests' = requests \ gone
     /\ seen' = [history EXCEPT !.lost = @ \cup {r.job : r \in {x \in gone \ cb : x.sync}}]

ReadReply(m) ==
  /\ ReplyIdle
  /\ m \in replies
  /\ replies' = replies \ {m}
  /\ sub' = [at |-> "read", id |-> m.id, cb |-> {r \in requests : r.id = m.id}]
  /\ UNCHANGED <<scenario, jobs, runs, requests, responses, watchers, retries, wire, outputs,
                 last, seen>>

HandleReply ==
  /\ sub.at = "read"
  /\ RemoveRequest(sub.id, sub.cb, Called(seen, sub.cb))
  /\ Callback(Reply, sub.cb, FALSE)
  /\ sub' = NoSub
  /\ UNCHANGED <<scenario, jobs, responses, watchers, wire, replies, outputs, last>>

\* The subscription waits on a resultCh.
ReplyBlocked == \E r \in runs : r.by = Reply /\ r.stage \in {"error", "result"}

\* DeliverTimeout passes: at any time where answers may be late or lost, else
\* after the answer or while the subscription cannot take it; where the
\* clients are prompt, after everything else, one by one.
Due(w) ==
  CASE plan.pace = "late" -> TRUE
    [] plan.pace = "in time" -> /\ \A m \in wire : m.n # w.n
                                /\ ReplyBlocked \/ \A m \in replies : m.n # w.n
    [] plan.pace = "prompt" -> /\ wire \cup replies = {} /\ runs = {} /\ ReplyIdle
                               /\ \A j \in DOMAIN jobs : jobs[j].at # "new"
                               /\ \A v \in watchers : v.at = "waiting" /\ v.n >= w.n

TimeUp(w) ==
  /\ w.at = "waiting" /\ Due(w)
  /\ LET cb == {r \in requests : r.id = w.id}
     IN watchers' = (watchers \ {w})
          \cup {[w EXCEPT !.at = IF cb = {} THEN "leaving" ELSE "calling", !.cb = cb]}
  /\ UNCHANGED <<scenario, jobs, runs, sub, requests, responses, retries, wire, replies,
                 outputs, last, seen>>

TimeoutCalls(w) ==
  /\ w.at = "calling"
  /\ Callback(Timer(w.n), w.cb, TRUE)
  /\ seen' = Called(seen, w.cb)
  /\ watchers' = (watchers \ {w}) \cup {[w EXCEPT !.at = "leaving"]}
  /\ UNCHANGED <<scenario, jobs, sub, requests, responses, wire, replies, outputs, last>>

\* The deferred removeRequest, once the callback has returned.
TimeoutLeaves(w) ==
  /\ w.at = "leaving" /\ ~Passing(Timer(w.n))
  /\ RemoveRequest(w.id, w.cb, seen)
  /\ watchers' = watchers \ {w}
  /\ UNCHANGED <<scenario, jobs, runs, sub, responses, retries, wire, replies, outputs, last>>

\* handleRetryDeliver: the same DeliverID, a callback that resumes nothing.
HandleRetryDeliver(r) ==
  /\ r \in retries
  /\ retries' = retries \ {r}
  /\ last' = last + 1
  /\ LET again == {[r EXCEPT !.n = last + 1, !.sync = FALSE]} IN Register(again, again)
  /\ UNCHANGED <<scenario, jobs, runs, sub, responses, replies, outputs>>

\* The output of a task a sendu started, which names the request in RunCount:
\* the worker takes the first one.  No broker listens to it here.
TakeOutput(o) ==
  /\ ReplyIdle
  /\ o \in outputs
  /\ outputs' = outputs \ {o}
  /\ responses' = responses \ {o.id}
  /\ UNCHANGED <<scenario, jobs, runs, sub, requests, watchers, retries, wire, replies, last, seen>>

\* A client answers; a task started by a sendu runs once or twice.
Answer(m) ==
  /\ m \in wire
  /\ wire' = wire \ {m}
  /\ replies' = replies \cup {m}
  /\ outputs' \in {outputs} \cup
       (IF m.unique
        THEN {outputs \cup {[id |-> m.id, n |-> m.n, copy |-> c] : c \in 1 .. k} : k \in 1 .. 2}
        ELSE {})
  /\ UNCHANGED <<scenario, jobs, runs, sub, requests, responses, watchers, retries, last, seen>>

-----------------------------------------------------------------------------
Init ==
  /\ scenario \in DOMAIN Plans
  /\ jobs = [j \in DOMAIN plan.jobs |-> NewJob]
  /\ runs = {} /\ sub = NoSub
  /\ requests = {} /\ responses = {} /\ watchers = {} /\ retries = {}
  /\ wire = {} /\ replies = {} /\ outputs = {}
  /\ last = 0
  /\ seen = [lost |-> {}, called |-> {}, twice |-> FALSE]

Job(j) == TakeMessage(j) \/ TakeSync(j) \/ RunBroker(j) \/ ComputeMsg(j) \/ Computed(j)
Through(run) == HandleDeliver(run) \/ SendResult(run) \/ Resume(run)
Receive == HandleReply \/ \E m \in replies : ReadReply(m)
Watch(w) == TimeUp(w) \/ TimeoutCalls(w) \/ TimeoutLeaves(w)

Next ==
  \/ \E j \in DOMAIN jobs : Job(j)
  \/ \E run \in runs : Through(run)
  \/ Receive
  \/ \E w \in watchers : Watch(w)
  \/ \E r \in retries : HandleRetryDeliver(r)
  \/ \E o \in outputs : TakeOutput(o)
  \/ \E m \in wire : Answer(m)

(* Goroutines that can run do; a timer passes.  Clients answer only where  *)
(* the scenario says they are in time.                                     *)
Fairness ==
  /\ WF_vars(\E j \in DOMAIN jobs : Job(j))
  /\ WF_vars(\E run \in runs : Through(run))
  /\ WF_vars(Receive)
  /\ WF_vars(\E w \in watchers : Watch(w))
  /\ WF_vars(\E o \in outputs : TakeOutput(o))
  /\ WF_vars(plan.pace # "late" /\ \E m \in wire : Answer(m))

Spec == Init /\ [][Next]_vars /\ Fairness

-----------------------------------------------------------------------------
(* Properties.                                                             *)

\* Every statement of a text.
RECURSIVE Within(_)
Within(stmts) ==
  UNION {{s} \cup Within(s.body) \cup Within(s.other)
             \cup UNION {Within(e.body) : e \in Range(s.elseif)} : s \in Range(stmts)}

\* What Execute does not treat as written: elseif, break, a range in a range.
Misread(s) ==
  \/ s.row.op = "break" \/ s.elseif # <<>>
  \/ s.row.op = "range" /\ \E t \in Within(s.body) : t.row.op = "range"

(* The deliveries of a template are those of its text, in order, however   *)
(* often Execute stops at a sendsync and resumes, and complete when it     *)
(* ends; no scope is closed that was not opened.  Except where the text    *)
(* has an elseif, a break or a range inside a range, and where a callback  *)
(* ran twice.                                                              *)
DeliversAsWritten ==
  \A j \in DOMAIN jobs : \A b \in DOMAIN plan.brokers :
    LET out == jobs[j].out[b]
        meant == Broker(b).meant
    IN \/ seen.twice
       \/ /\ jobs[j].rts[b].depth >= 1
          /\ \/ Broker(b).endpoint \/ \E s \in Within(Broker(b).text) : Misread(s)
             \/ IsPrefix(out, meant) /\ (jobs[j].ended[b] => out = meant)

\* Every pass through a broker says something on resultCh or asks a client.
Talks(b) ==
  LET silent(s) == \/ s.row.to = "missing"
                   \/ s.row.op = "sendsync" /\ (s.row.to # "task" \/ plan.clients = {})
  IN ~Broker(b).endpoint /\ \A s \in Within(Broker(b).text) : ~silent(s)
\* The first pass asks a client and stops.
Asks(b) == Execute(Broker(b).exps, Broker(b).indexRun, NewRuntime).sync
Answerable(j) ==
  /\ \A b \in DOMAIN plan.brokers : Talks(b)
  /\ plan.brokers # <<>>
  /\ Kind(j) = "sync" => \A b \in DOMAIN plan.brokers : Asks(b)

(* A trigger and a synchronous request get their result, so that the       *)
(* trigger loop and the subscription take the next one, although clients   *)
(* may be late or silent.  Except where the broker has endpoints, names an *)
(* unknown receiver or asks a channel; where a synchronous request meets a *)
(* broker that asks no client, whose result it sends to itself; and where  *)
(* the request that was to resume the template was overwritten or removed  *)
(* by another delivery with its DeliverID.                                 *)
JobsAnswered ==
  \A j \in 1 .. 2 :
    (j \in DOMAIN jobs /\ Answerable(j) /\ HasCh(j) /\ jobs[j].at \in {"computing", "receiving"})
      ~> (j \in DOMAIN jobs /\ (j \in seen.lost \/ jobs[j].at = "done"))

OneResult ==
  /\ Len(plan.brokers) <= 1 /\ Cardinality(plan.clients) <= 1
  /\ \A b \in DOMAIN plan.brokers : \A s \in Within(Broker(b).text) :
       s.row.op # "plain" \/ s.row.ok

(* The subscription that takes messages and replies is never blocked for   *)
(* good.  Except where a job may be sent more than one result: by several  *)
(* brokers or clients, by a template that fails after a sendsync, or by a  *)
(* callback that ran twice.                                                *)
SubscriptionMoves == []<>(ReplyIdle \/ ~OneResult \/ seen.twice)
====
