----------------------------- MODULE WorkerEnd -----------------------------
(***************************************************************************)
(* The end of a workflow in the runner: the pool that runs one worker per  *)
(* workflow (runner.go: execute, DestroyWorker, RecoverWorker) and the two *)
(* operations that end or repair a worker, Destroy and Recover of          *)
(* worker.go, with the requests they make through deliverAsync.            *)
(*                                                                         *)
(* Create holds a goroutine of the pool until the worker's Run returns;    *)
(* Delete and Recover need one for an instant, and then run on their own.  *)
(* Each call has a sync.WaitGroup that the callbacks of its requests count *)
(* down.  A callback is run by the worker's NATS subscription when the     *)
(* reply comes, and by the goroutine that watches the request when it      *)
(* times out or the worker is closed; both read the request first and      *)
(* remove it later.  A panic in either ends the whole runner.              *)
(***************************************************************************)
EXTENDS Naturals, FiniteSets, Sequences

CONSTANTS
  Workflows,
  Plans       \* [capacity, clients, records, slow, events, faults]: what happens

\* Clients and records are known by their row ids.  A workflow is created once:
\* HttpServer's subject is when the runner hears of a workflow twice.
ASSUME PlansAssumption ==
  \A p \in Plans :
    /\ p.clients \in [Workflows -> SUBSET Nat] /\ p.records \in [Workflows -> SUBSET Nat]
    /\ \A w \in Workflows : IsFiniteSet(p.clients[w])
    /\ p.events \in Seq([cmd : {"Create", "Delete", "Recover"}, wf : Workflows])
    /\ \A i, j \in 1..Len(p.events) :
         p.events[i].cmd = "Create" /\ p.events[j] = p.events[i] => i = j
    /\ p.faults \in Nat

VARIABLES
  plan,       \* the scenario: MaxWorkflowConcurrent, the clients and the
              \* unrecovered records of each workflow, the workflows whose
              \* setup is not answered at once
  events,     \* RUNNER_HTTP and wfEvent: events not yet given to the pool
  wfMap,      \* the workflows whose worker the runner can find
  worker,     \* workflow -> its worker
  dropped,    \* workflows whose row has been deleted
  open,       \* workflow -> its records with is_recovered = false
  calls,      \* the calls of DestroyWorker and RecoverWorker
  requests,   \* Worker.requests
  sent,       \* commands on their way to a client
  replies,    \* replies on their way to the worker
  watchers,   \* the goroutines deliverAsync leaves behind
  rx,         \* workflow -> what its subscription's callback is handling
  faults,     \* failures still to come
  panicked,   \* the runner has died of a panic
  seen        \* history, read by no action

link == <<sent, replies, watchers, rx>>
vars == <<plan, events, wfMap, worker, dropped, open, calls, requests, sent,
          replies, watchers, rx, faults, panicked, seen>>

-----------------------------------------------------------------------------
None == [call |-> 0, who |-> 0]
Setup == <<0, 0, 0>>     \* DeliverID of the SetTaskCmd a worker begins with
Idle == [id |-> Setup, cb |-> None, found |-> FALSE, how |-> "success", busy |-> FALSE]

IsDestroy(cb) == cb.call # 0 /\ calls[cb.call].cmd = "Delete"

Busy == {w \in Workflows : worker[w].stage \in {"starting", "running"}}
Request(w, id) == {r \in requests : r.wf = w /\ r.id = id}

\* The callback of the request has been read by another goroutine, which has
\* not removed the request yet.
Held(w, id) ==
  \/ rx[w].busy /\ rx[w].found /\ rx[w].id = id
  \/ \E g \in watchers : g.wf = w /\ g.id = id /\ g.found

-----------------------------------------------------------------------------
(* Runner.execute.                                                         *)

NewWorker == [stage |-> "starting", conn |-> "none", closed |-> FALSE,
              active |-> 0, cleared |-> {}]
Absent == [NewWorker EXCEPT !.stage = "none"]
NewCall(e) == [wf |-> e.wf, cmd |-> e.cmd, at |-> "begun", wait |-> 0,
               ok |-> TRUE, todo |-> {}, e |-> 0, round |-> 0]

\* Mutant of Dispatch: one goroutine of the pool is never used.
DispatchSpare ==
  /\ events # <<>> /\ Cardinality(Busy) + 1 < plan.capacity
  /\ LET e == Head(events)
     IN /\ events' = Tail(events)
        /\ \/ /\ e.cmd = "Create"
              /\ wfMap' = wfMap \union {e.wf}
              /\ worker' = [worker EXCEPT ![e.wf] = NewWorker]
              /\ UNCHANGED calls
           \/ /\ e.cmd # "Create"
              /\ calls' = Append(calls, NewCall(e))
              /\ UNCHANGED <<wfMap, worker>>
  /\ UNCHANGED <<plan, dropped, open, requests, link, faults, panicked, seen>>

\* The pool takes the next event when a goroutine of it is free.
Dispatch ==
  /\ events # <<>> /\ Cardinality(Busy) < plan.capacity
  /\ LET e == Head(events)
     IN /\ events' = Tail(events)
        /\ \/ /\ e.cmd = "Create"
              /\ wfMap' = wfMap \union {e.wf}
              /\ worker' = [worker EXCEPT ![e.wf] = NewWorker]
              /\ UNCHANGED calls
           \/ /\ e.cmd # "Create"
              /\ calls' = Append(calls, NewCall(e))
              /\ UNCHANGED <<wfMap, worker>>
  /\ UNCHANGED <<plan, dropped, open, requests, link, faults, panicked, seen>>

\* Worker.Run as far as its loop: the connection, the points and the first
\* commands, of which one SetTaskCmd stands for all.
RunStarts(w) ==
  /\ worker[w].stage = "starting"
  /\ worker' = [worker EXCEPT ![w].stage = "running", ![w].conn = "open"]
  /\ IF w \notin plan.slow THEN UNCHANGED <<requests, sent>>
     ELSE /\ requests' = requests \union {[wf |-> w, id |-> Setup, cb |-> None]}
          /\ sent' = sent \union {[wf |-> w, id |-> Setup]}
  /\ UNCHANGED <<plan, events, wfMap, dropped, open, calls, replies, watchers, rx,
                 faults, panicked, seen>>

\* Run returns an error, and the pool's function takes the worker out.
RunFails(w) ==
  /\ worker[w].stage = "starting" /\ faults > 0
  /\ faults' = faults - 1
  /\ worker' = [worker EXCEPT ![w].stage = "ended"]
  /\ wfMap' = wfMap \ {w}
  /\ UNCHANGED <<plan, events, dropped, open, calls, requests, link, panicked, seen>>

\* Run finds eventChan closed.
RunEnds(w) ==
  /\ worker[w].stage = "running" /\ worker[w].closed
  /\ worker' = [worker EXCEPT ![w].stage = "ended"]
  /\ wfMap' = wfMap \ {w}
  /\ UNCHANGED <<plan, events, dropped, open, calls, requests, link, faults, panicked, seen>>

\* Worker.run leaves on closeCh and closes the connection.
ConnCloses(w) ==
  /\ worker[w].closed /\ worker[w].conn = "open"
  /\ worker' = [worker EXCEPT ![w].conn = "closed"]
  /\ UNCHANGED <<plan, events, wfMap, dropped, open, calls, requests, link, faults, panicked, seen>>

-----------------------------------------------------------------------------
(* deliverAsync: the request is added, published and, once published,      *)
(* watched.  When publishing fails the error is dropped by both callers.   *)

\* The requests of call n with these DeliverIDs, of which some are published.
deliverAsync(w, n, round, ids, published) ==
  /\ worker[w].conn # "open" => published = {}
  /\ requests' = {r \in requests : ~(r.wf = w /\ r.id \in ids)} \union
       {[wf |-> w, id |-> i, cb |-> [call |-> n, who |-> i[2]]] : i \in ids}
  /\ sent' = sent \union {[wf |-> w, id |-> i] : i \in published}
  /\ watchers' = watchers \union
       {[wf |-> w, id |-> i, call |-> n, round |-> round, pc |-> "waiting",
         found |-> FALSE, cb |-> None] : i \in published}
  /\ IF worker[w].conn = "open" /\ published # ids
     THEN faults > 0 /\ faults' = faults - 1
     ELSE UNCHANGED faults
  /\ UNCHANGED <<replies, rx>>

\* The DeliverIDs a call of Destroy draws: one per client for each of k times.
DestroyIds(n, points, k) == {<<n, c, i>> : c \in points, i \in 1..k}

\* Worker.Destroy up to wait.Wait: every call appends the client points to
\* clientsActive again, and then asks every entry of clientsActive.
Destroy(n) ==
  LET w == calls[n].wf
      points == IF worker[w].stage = "starting" THEN {} ELSE plan.clients[w]
      active == worker[w].active + 1
      ids == DestroyIds(n, points, active)
  IN /\ calls[n].cmd = "Delete" /\ calls[n].at = "begun" /\ w \in wfMap
     /\ worker' = [worker EXCEPT ![w].active = IF points = {} THEN @ ELSE active]
     /\ calls' = [calls EXCEPT ![n].at = "waiting", ![n].wait = Cardinality(ids)]
     /\ \E published \in SUBSET ids :
          /\ deliverAsync(w, n, 0, ids, published)
          /\ seen' = [seen EXCEPT
               !.stuck = IF published = ids THEN @ ELSE @ \union {n},
               !.again = IF worker[w].active > 0 THEN @ \union {w} ELSE @,
               !.blank = IF points = {} THEN @ \union {w} ELSE @]
     /\ UNCHANGED <<plan, events, wfMap, dropped, open, panicked>>

\* DestroyWorker and RecoverWorker do nothing about a worker they cannot find.
NoWorker(n) ==
  /\ calls[n].at = "begun" /\ calls[n].wf \notin wfMap
  /\ calls' = [calls EXCEPT ![n].at = "returned", ![n].ok = FALSE]
  /\ UNCHANGED <<plan, events, wfMap, worker, dropped, open, requests, link, faults,
                 panicked, seen>>

\* Mutant of DestroyReturns: the worker is forgotten though Destroy failed.
DestroyReturnsAlways(n) ==
  /\ calls[n].cmd = "Delete" /\ calls[n].at = "waiting" /\ calls[n].wait = 0
  /\ calls' = [calls EXCEPT ![n].at = "returned"]
  /\ wfMap' = wfMap \ {calls[n].wf}
  /\ UNCHANGED <<plan, events, worker, dropped, open, requests, link, faults, panicked, seen>>

\* Destroy returns, and DestroyWorker forgets the worker when it succeeded.
DestroyReturns(n) ==
  /\ calls[n].cmd = "Delete" /\ calls[n].at = "waiting" /\ calls[n].wait = 0
  /\ calls' = [calls EXCEPT ![n].at = "returned"]
  /\ wfMap' = IF calls[n].ok THEN wfMap \ {calls[n].wf} ELSE wfMap
  /\ UNCHANGED <<plan, events, worker, dropped, open, requests, link, faults, panicked, seen>>

\* Worker.Recover: a round begins with the records that are still open, and
\* there are none left when it has succeeded.
Fetch(n) ==
  LET w == calls[n].wf
  IN /\ calls[n].cmd = "Recover"
     /\ \/ calls[n].at = "begun" /\ w \in wfMap
        \/ calls[n].at = "fetching"
     /\ calls' = IF open[w] = {} THEN [calls EXCEPT ![n].at = "returned"]
                 ELSE [calls EXCEPT ![n].at = "sending", ![n].todo = open[w],
                                    ![n].round = @ + 1]
     /\ UNCHANGED <<plan, events, wfMap, worker, dropped, open, requests, link, faults,
                    panicked, seen>>

First(T) == CHOOSE r \in T : \A q \in T : r <= q

\* The loop over the round's records, in their order.  The variable e of the
\* loop is shared by the callbacks it makes, and the command keeps the
\* DeliverID it was recorded with.
Resend(n) ==
  LET w == calls[n].wf
      r == First(calls[n].todo)
      ids == {<<0, r, 1>>}
  IN /\ calls[n].at = "sending" /\ calls[n].todo # {}
     /\ calls' = [calls EXCEPT ![n].todo = @ \ {r}, ![n].e = r, ![n].wait = @ + 1]
     /\ \E published \in SUBSET ids :
          /\ deliverAsync(w, n, calls[n].round, ids, published)
          /\ seen' = [seen EXCEPT !.stuck = IF published = ids THEN @ ELSE @ \union {n},
                                  !.pending = IF worker[w].closed THEN @ \union {w} ELSE @]
     /\ UNCHANGED <<plan, events, wfMap, worker, dropped, open, panicked>>

\* wg.Wait and what follows: another round, or the report of a failure.
RoundEnds(n) ==
  /\ calls[n].at = "sending" /\ calls[n].todo = {} /\ calls[n].wait = 0
  /\ calls' = [calls EXCEPT ![n].at = IF calls[n].ok THEN "fetching" ELSE "returned"]
  /\ UNCHANGED <<plan, events, wfMap, worker, dropped, open, requests, link, faults,
                 panicked, seen>>

-----------------------------------------------------------------------------
(* The callbacks.  Each begins with a deferred Done of its WaitGroup.      *)

Done(cb, good) ==
  calls' = [calls EXCEPT ![cb.call].wait = @ - 1, ![cb.call].ok = @ /\ good]

panic ==
  /\ panicked' = TRUE
  /\ UNCHANGED <<worker, dropped, open, calls, faults>>

\* The callback of a setup command: its reply is an event for Run; an error
\* goes to retryDeliver.
SetupReplied(w, how) ==
  IF how = "success" /\ worker[w].closed THEN panic
  ELSE UNCHANGED <<worker, dropped, open, calls, faults, panicked>>

\* Mutant of Cleared: the first client's success drops the row.
ClearedFirst(w, cb) ==
  IF worker[w].closed THEN panic
  ELSE /\ worker' = [worker EXCEPT ![w].cleared = @ \union {cb.who}, ![w].closed = TRUE]
       /\ dropped' = dropped \union {w}
       /\ Done(cb, TRUE)
       /\ UNCHANGED <<open, faults, panicked>>

\* The callback of Destroy.  The last client's success drops the row and
\* closes closeCh and eventChan; the row may fail to be dropped.
Cleared(w, cb) ==
  LET cleared == worker[w].cleared \union {cb.who}
      Clear(closed) == worker' = [worker EXCEPT ![w].cleared = cleared, ![w].closed = closed]
  IN \/ /\ ~(plan.clients[w] \subseteq cleared)
        /\ Clear(worker[w].closed) /\ Done(cb, TRUE)
        /\ UNCHANGED <<dropped, open, faults, panicked>>
     \/ /\ plan.clients[w] \subseteq cleared /\ faults > 0
        /\ faults' = faults - 1
        /\ Clear(worker[w].closed) /\ Done(cb, FALSE)
        /\ UNCHANGED <<dropped, open, panicked>>
     \/ /\ plan.clients[w] \subseteq cleared /\ worker[w].closed
        /\ panic
     \/ /\ plan.clients[w] \subseteq cleared /\ ~worker[w].closed
        /\ dropped' = dropped \union {w}
        /\ Clear(TRUE) /\ Done(cb, TRUE)
        /\ UNCHANGED <<open, faults, panicked>>

DestroyReplied(w, cb, how) ==
  \/ how = "success" /\ Cleared(w, cb)
  \/ how # "success" /\ Done(cb, FALSE) /\ UNCHANGED <<worker, dropped, open, faults, panicked>>

\* Mutant of RecoverReplied: the record is marked before the error is looked at.
RecoverRepliedAny(w, cb, how) ==
  \/ how = "success" /\ worker[w].closed /\ panic
  \/ /\ open' = [open EXCEPT ![w] = @ \ {calls[cb.call].e}]
     /\ Done(cb, how = "success") /\ UNCHANGED <<worker, dropped, faults, panicked>>

\* The callback of Recover.  The replies to some commands are events for Run;
\* the record marked is the one e stands for by now.
RecoverReplied(w, cb, how) ==
  \/ /\ how # "success"
     /\ Done(cb, FALSE) /\ UNCHANGED <<worker, dropped, open, faults, panicked>>
  \/ how = "success" /\ worker[w].closed /\ panic
  \/ /\ how = "success"
     /\ open' = [open EXCEPT ![w] = @ \ {calls[cb.call].e}]
     /\ Done(cb, TRUE) /\ UNCHANGED <<worker, dropped, faults, panicked>>
  \/ /\ how = "success" /\ faults > 0
     /\ faults' = faults - 1
     /\ Done(cb, FALSE) /\ UNCHANGED <<worker, dropped, open, panicked>>

Callback(w, cb, how) ==
  IF cb.call = 0 THEN SetupReplied(w, how)
  ELSE IF calls[cb.call].wait = 0 THEN panic    \* negative WaitGroup counter
  ELSE IF IsDestroy(cb) THEN DestroyReplied(w, cb, how)
  ELSE RecoverReplied(w, cb, how)

-----------------------------------------------------------------------------
(* The two ways a callback is run.                                         *)

\* reciveMessage, first half: the request of the reply is read.
ReadReply(w) ==
  \E m \in replies :
    /\ m.wf = w /\ ~rx[w].busy /\ worker[w].conn = "open"
    /\ replies' = replies \ {m}
    /\ LET found == Request(w, m.id)
       IN /\ rx' = [rx EXCEPT ![w] =
                      [id |-> m.id, how |-> m.how, busy |-> TRUE, found |-> found # {},
                       cb |-> IF found = {} THEN None ELSE (CHOOSE r \in found : TRUE).cb]]
          /\ seen' = [seen EXCEPT !.twice = @ \/ (found # {} /\ Held(w, m.id))]
    /\ UNCHANGED <<plan, events, wfMap, worker, dropped, open, calls, requests, sent,
                   watchers, faults, panicked>>

\* Mutant of HandleReply: the request is left to the goroutine that watches it.
HandleReplyKeeps(w) ==
  /\ rx[w].busy
  /\ rx' = [rx EXCEPT ![w] = Idle]
  /\ IF rx[w].found THEN Callback(w, rx[w].cb, rx[w].how)
     ELSE UNCHANGED <<worker, dropped, open, calls, faults, panicked>>
  /\ UNCHANGED <<plan, events, wfMap, requests, sent, replies, watchers, seen>>

\* Second half: the request is removed and its callback run.
HandleReply(w) ==
  /\ rx[w].busy
  /\ rx' = [rx EXCEPT ![w] = Idle]
  /\ requests' = requests \ Request(w, rx[w].id)
  /\ IF rx[w].found THEN Callback(w, rx[w].cb, rx[w].how)
     ELSE UNCHANGED <<worker, dropped, open, calls, faults, panicked>>
  /\ seen' = [seen EXCEPT
       !.pending = IF worker'[w].closed /\ ~worker[w].closed
                      /\ \E r \in requests : r.wf = w /\ ~IsDestroy(r.cb)
                   THEN @ \union {w} ELSE @]
  /\ UNCHANGED <<plan, events, wfMap, sent, replies, watchers>>

\* The goroutine of deliverAsync: the time is up, or closeCh is closed.  It
\* reads the request that has its DeliverID by now.
TimeUp(g) ==
  /\ g.pc = "waiting"
  /\ LET found == Request(g.wf, g.id)
     IN /\ watchers' = (watchers \ {g}) \union
             {[g EXCEPT !.pc = IF found = {} THEN "leaving" ELSE "calling",
                        !.found = found # {},
                        !.cb = IF found = {} THEN None ELSE (CHOOSE r \in found : TRUE).cb]}
        /\ seen' = [seen EXCEPT !.twice = @ \/ (found # {} /\ Held(g.wf, g.id))]
  /\ UNCHANGED <<plan, events, wfMap, worker, dropped, open, calls, requests, sent, replies,
                 rx, faults, panicked>>

\* Mutant of TimeoutCalls: the callback is not told of the timeout.
TimeoutCallsNot(g) ==
  /\ g.pc = "calling"
  /\ watchers' = (watchers \ {g}) \union {[g EXCEPT !.pc = "leaving"]}
  /\ UNCHANGED <<plan, events, wfMap, worker, dropped, open, calls, requests, sent, replies,
                 rx, faults, panicked, seen>>

\* The callback it read is run with ErrDeliverTimeout or ErrStopWorker.
TimeoutCalls(g) ==
  /\ g.pc = "calling"
  /\ Callback(g.wf, g.cb, "error")
  /\ watchers' = (watchers \ {g}) \union {[g EXCEPT !.pc = "leaving"]}
  /\ UNCHANGED <<plan, events, wfMap, requests, sent, replies, rx, seen>>

\* The deferred removeRequest.
TimeoutLeaves(g) ==
  /\ g.pc = "leaving"
  /\ watchers' = watchers \ {g}
  /\ requests' = requests \ Request(g.wf, g.id)
  /\ seen' = [seen EXCEPT !.stuck = @ \union
       {r.cb.call : r \in {x \in Request(g.wf, g.id) : ~g.found \/ x.cb # g.cb}}]
  /\ UNCHANGED <<plan, events, wfMap, worker, dropped, open, calls, sent, replies, rx,
                 faults, panicked>>

\* External: the client does the command and answers it.
Answer(m) ==
  /\ sent' = sent \ {m}
  /\ \E how \in {"success", "fault"} :
       /\ how = "fault" => faults > 0 /\ m.id # Setup
       /\ faults' = IF how = "fault" THEN faults - 1 ELSE faults
       /\ replies' = replies \union {[wf |-> m.wf, id |-> m.id, how |-> how]}
       /\ seen' = IF how = "fault" \/ m.id = Setup THEN seen
                  ELSE IF m.id[1] = 0
                  THEN [seen EXCEPT !.answered[m.wf] = @ \union {m.id[2]}]
                  ELSE [seen EXCEPT !.did[m.wf] = @ \union {m.id[2]}]
  /\ UNCHANGED <<plan, events, wfMap, worker, dropped, open, calls, requests, watchers, rx,
                 panicked>>

-----------------------------------------------------------------------------
Init ==
  /\ plan \in Plans
  /\ events = plan.events /\ faults = plan.faults
  /\ wfMap = {} /\ dropped = {} /\ calls = <<>> /\ panicked = FALSE
  /\ worker = [w \in Workflows |-> Absent]
  /\ open = plan.records
  /\ requests = {} /\ sent = {} /\ replies = {} /\ watchers = {}
  /\ rx = [w \in Workflows |-> Idle]
  /\ seen = [again |-> {}, blank |-> {}, pending |-> {}, stuck |-> {}, twice |-> FALSE,
             did |-> [w \in Workflows |-> {}], answered |-> [w \in Workflows |-> {}]]

Run(w) == RunStarts(w) \/ RunFails(w) \/ RunEnds(w) \/ ConnCloses(w)
Call(n) == Destroy(n) \/ NoWorker(n) \/ DestroyReturns(n) \/ Fetch(n) \/ Resend(n) \/ RoundEnds(n)
Receive(w) == ReadReply(w) \/ HandleReply(w)
Watch(g) == TimeUp(g) \/ TimeoutCalls(g) \/ TimeoutLeaves(g)

Next ==
  \/ ~panicked /\ Dispatch
  \/ ~panicked /\ \E w \in Workflows : Run(w)
  \/ ~panicked /\ \E w \in Workflows : Receive(w)
  \/ ~panicked /\ \E n \in DOMAIN calls : Call(n)
  \/ ~panicked /\ \E g \in watchers : Watch(g)
  \/ ~panicked /\ \E m \in sent : Answer(m)

\* Go runs every goroutine that can run, and time.After fires.  Nothing is
\* assumed of the clients, nor of the failures.
Fairness ==
  /\ WF_vars(~panicked /\ Dispatch)
  /\ \A w \in Workflows :
       /\ WF_vars(~panicked /\ (RunStarts(w) \/ RunFails(w)))
       /\ WF_vars(~panicked /\ RunEnds(w))
       /\ WF_vars(~panicked /\ ConnCloses(w))
       /\ WF_vars(~panicked /\ HandleReply(w))
  /\ \A n \in UNION {DOMAIN p.events : p \in Plans} :
       WF_vars(~panicked /\ n \in DOMAIN calls /\ Call(n))
  /\ WF_vars(~panicked /\ \E g \in watchers : Watch(g))

Spec == Init /\ [][Next]_vars /\ Fairness

-----------------------------------------------------------------------------
(* Properties.                                                             *)

\* The row of a workflow is dropped only after every client of it has really
\* cleared the workflow (the loop over clientsActive in the callback of
\* Destroy): nothing keeps running for a workflow that no longer exists.
DroppedWasCleared ==
  \A w \in dropped : plan.clients[w] \subseteq seen.did[w]

\* A worker that still runs can be found in wfMap, so that it can be deleted
\* or recovered, or it is being closed, or Destroy once found it without
\* client points: the workflow has no clients, or Run had not set the points.
\* Such a worker keeps its goroutine of the pool for ever.
RunningIsReachable ==
  \A w \in Busy : w \in wfMap \/ worker[w].closed \/ w \in seen.blank

\* The runner does not die of a panic in a callback unless a callback was run
\* twice, because two goroutines read its request before either removed it
\* (negative WaitGroup counter), or Destroy was called again for the same
\* worker (close of a closed channel), or the worker was closed while other
\* commands were to be answered (send on a closed channel).
PanicsExplained ==
  panicked => seen.twice \/ seen.again # {} \/ seen.pending # {}

\* A record is marked as recovered only when its own command was answered,
\* or when an earlier record of the round was: the callbacks of Recover share
\* the loop variable, and mark the record it has come to.
RecoveredExplained ==
  \A w \in Workflows : \A r \in plan.records[w] \ open[w] :
    r \in seen.answered[w] \/ \E q \in seen.answered[w] : q < r

\* Destroy and Recover return, whatever the clients do (every request times
\* out), unless a request of theirs was not published, or was removed by the
\* goroutine of an earlier request with the same DeliverID: then the callback
\* never runs and Wait never returns.
CallsReturn ==
  \A n \in UNION {DOMAIN p.events : p \in Plans} :
    n \in DOMAIN calls
      ~> \/ n \in DOMAIN calls /\ calls[n].at = "returned"
         \/ n \in seen.stuck
         \/ panicked

\* Every event of the HTTP server reaches the pool, unless the running
\* workflows fill the pool: then even the request to delete one of them waits.
EventsReachPool ==
  (events # <<>>) ~> (events = <<>> \/ panicked \/ Cardinality(Busy) = plan.capacity)

=============================================================================
