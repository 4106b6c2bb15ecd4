------------------------ MODULE WorkerEndCounts_proofs ------------------------
(***************************************************************************)
(* Proofs about WorkerEnd that rest on what the requests and the           *)
(* WaitGroups of its calls count: a worker that runs can be found until it *)
(* is cleared, and the runner panics only for the reasons known.           *)
(***************************************************************************)
EXTENDS WorkerEnd_proofs

(* Zenon proves what no other prover is named for.                         *)
USE ZenonT(90)

\* A call of Destroy that has not failed: it counts its requests, whose
\* callbacks are still to run, and every client has cleared the workflow or
\* has such a request; the last callback closes the worker.
Waits(n) ==
  LET w == calls[n].wf IN
  /\ IsFiniteSet(Ids(n)) /\ calls[n].wait = Cardinality(Ids(n))
  /\ rx[w].busy /\ rx[w].id[1] = n =>
       (rx[w].found <=> \E r \in requests : r.wf = w /\ r.id = rx[w].id)
  /\ \A g \in watchers : g.id[1] = n /\ g.pc = "leaving" => g.id \notin Ids(n)
  /\ \A c \in plan.clients[w] :
       \/ c \in worker[w].cleared \/ w \in seen.blank
       \/ \E r \in requests : r.cb.call = n /\ r.cb.who = c
  /\ Ids(n) = {} => worker[w].closed \/ w \in seen.blank

Hopeful(n) == calls[n].cmd = "Delete" /\ calls[n].at = "waiting" /\ calls[n].ok

Reach ==
  /\ RunningIsReachable
  /\ ~ panicked => \A n \in DOMAIN calls : Hopeful(n) => Waits(n)

-----------------------------------------------------------------------------
\* The callback of the request has been run for a timeout.
Spent(q) == \E g \in watchers : g.wf = q.wf /\ g.id = q.id /\ g.found /\ g.pc = "leaving"

\* The callbacks of a call that are still to run.
Tokens(n) ==
  {r.id : r \in {q \in requests : q.cb.call = n /\ ~ Spent(q)}}
  \union {rx[w].id : w \in {v \in Workflows : rx[v].found /\ rx[v].cb.call = n}}
  \union {g.id : g \in {h \in watchers : h.pc = "calling" /\ h.cb.call = n}}

\* One goroutine at most holds a request.
Single ==
  /\ \A w \in Workflows : rx[w].found =>
       \A g \in watchers : ~ (g.wf = w /\ g.id = rx[w].id /\ g.found)
  /\ \A g, h \in watchers : g.found /\ h.found /\ g.wf = h.wf /\ g.id = h.id => g = h

\* The WaitGroup of a call counts the callbacks that are still to run.
Counted(n) == IsFiniteSet(Tokens(n)) /\ Cardinality(Tokens(n)) <= calls[n].wait

\* What is so until a callback is run twice.
Counts == Single /\ \A n \in DOMAIN calls : Counted(n)

\* What of a closed worker is not of Destroy is known to be pending.
Leftovers ==
  \A w \in Workflows : worker[w].closed /\ w \notin seen.pending =>
    /\ \A r \in requests : r.wf = w => IsDestroy(r.cb)
    /\ rx[w].found => IsDestroy(rx[w].cb)

\* The commands of Destroy on their way to the client and back.
InFlight(w, id) ==
  \/ [wf |-> w, id |-> id] \in sent
  \/ \E m \in replies : m.wf = w /\ m.id = id
  \/ rx[w].busy /\ rx[w].id = id

\* Such a command is the only one its client was sent, and is in one place.
AskedOnce(w, id) ==
  /\ id[2] \notin worker[w].cleared
  /\ \A i \in Id : i[1] # 0 /\ InFlight(w, i) => i[1] = id[1] /\ i[3] = id[3]
  /\ [wf |-> w, id |-> id] \in sent =>
       /\ \A m \in replies : ~ (m.wf = w /\ m.id = id)
       /\ ~ (rx[w].busy /\ rx[w].id = id)
  /\ \A m, k \in replies : m.wf = w /\ m.id = id /\ k.wf = w /\ k.id = id => m = k
  /\ rx[w].busy /\ rx[w].id = id => \A m \in replies : ~ (m.wf = w /\ m.id = id)

\* Destroy, called once, asks each client once.
Asked(w) ==
  /\ worker[w].stage = "none" => worker[w].active = 0
  /\ worker[w].closed => plan.clients[w] \subseteq worker[w].cleared
  /\ worker[w].active = 0 =>
       worker[w].cleared = {} /\ \A id \in Id : id[1] # 0 => ~ InFlight(w, id)
  /\ \A id \in Id : id[1] # 0 /\ InFlight(w, id) => AskedOnce(w, id)

Causes ==
  /\ PanicsExplained
  /\ ~ panicked /\ ~ seen.twice => Counts
  /\ ~ panicked => Leftovers
  /\ ~ panicked => \A w \in Workflows \ seen.again : Asked(w)

-----------------------------------------------------------------------------
(* The workers that can be found.                                          *)

\* The requests of a call.
Of(n) == {q \in requests : q.cb.call = n}

\* A worker that runs can be found in wfMap, or is being closed, or Destroy
\* found it without client points: DestroyWorker takes a worker out of wfMap
\* only when the callback that closed it has run.
THEOREM RunningStaysReachable == Spec => []RunningIsReachable
\* A request has a DeliverID of a call of Destroy when its callback is the
\* call's.
<1>OwnRequests.
      ASSUME Types, Forms, NEW n \in DOMAIN calls, calls[n].cmd = "Delete"
      PROVE  /\ \A r \in requests :
                  /\ r.cb.call = n <=> r.id[1] = n
                  /\ r.cb.call = n => r.wf = calls[n].wf /\ r.cb.who = r.id[2]
             /\ \A w \in Workflows : rx[w].found =>
                  /\ rx[w].cb.call = n <=> rx[w].id[1] = n
                  /\ rx[w].cb.call = n => w = calls[n].wf /\ rx[w].cb.who = rx[w].id[2]
             /\ \A g \in watchers : g.found => (g.cb.call = n <=> g.id[1] = n)
             /\ n # 0
  <2> USE <1>OwnRequests
  <2>1. \A k \in DOMAIN calls : k # 0 /\ calls[k].cmd \in {"Delete", "Recover"}
    <3>1. \A k \in DOMAIN calls : k # 0 /\ calls[k] \in CallRec
      BY SMTT(90) DEF Types
    <3> QED
      BY <3>1 DEF CallRec
  <2>2. ASSUME NEW w, NEW id, NEW cb, Names(w, id, cb)
        PROVE  /\ cb.call = n <=> id[1] = n
               /\ cb.call = n => w = calls[n].wf /\ cb.who = id[2]
    BY <2>1, <2>2, SMTT(90) DEF Setup, Names
  <2> QED
    BY <2>1, <2>2, SMTT(90) DEF Forms
<1>OwnNext.
      ASSUME Types', Forms', NEW n \in DOMAIN calls', calls'[n].cmd = "Delete"
      PROVE  \A r \in requests' : r.id[1] = n => r.cb.call = n
  <2> USE <1>OwnNext
  <2>1. \A k \in DOMAIN calls' : k # 0 /\ calls'[k].cmd \in {"Delete", "Recover"}
    <3>1. \A k \in DOMAIN calls' : k # 0 /\ calls'[k] \in CallRec
      BY SMTT(90) DEF Types
    <3> QED
      BY <3>1 DEF CallRec
  <2>2. ASSUME NEW r \in requests', r.id[1] = n PROVE r.cb.call = n
    BY <2>1, <2>2, SMTT(90) DEF Forms, Setup, Names
  <2> QED
    BY <2>2
<1>WaitsKeep.
      ASSUME Types, Types', Forms, Forms', NEW n \in DOMAIN calls, n \in DOMAIN calls',
             calls[n].cmd = "Delete", calls'[n].cmd = "Delete", Waits(n),
             NEW w \in Workflows, w = calls[n].wf, w = calls'[n].wf,
             calls'[n].wait = calls[n].wait, plan' = plan, Of(n)' = Of(n),
             rx'[w] = rx[w] \/ ~ rx'[w].busy \/ rx'[w].id[1] # n
               \/ (rx'[w].found <=> \E r \in requests' : r.wf = w /\ r.id = rx'[w].id),
             \A g \in watchers' : g \in watchers \/ g.id[1] # n \/ g.pc # "leaving"
                                  \/ g.id \notin Ids(n)',
             worker[w].cleared \subseteq worker'[w].cleared,
             worker[w].closed => worker'[w].closed, w \in seen.blank => w \in seen'.blank
      PROVE  Waits(n)'
  <2> USE <1>WaitsKeep
  <2>1. Ids(n)' = Ids(n)
    BY DEF Ids, Of
  <2> QED
    BY <2>1, <1>OwnRequests, <1>OwnNext, SMTT(90) DEF Waits, Of
\* The callback of one of the call's requests has run, and the call has not
\* failed.
<1>WaitsLess.
      ASSUME Types, Types', Forms, Once, NEW n \in DOMAIN calls, n \in DOMAIN calls',
             calls[n].cmd = "Delete", Waits(n), NEW w \in Workflows, w = calls[n].wf,
             w = calls'[n].wf, HandleReply(w), rx[w].found, rx[w].cb.call = n,
             Outcome(w, rx[w].cb, rx[w].how, TRUE)
      PROVE  Waits(n)'
  <2> USE <1>WaitsLess
  <2>1. PICK i : i = rx[w].id
    OBVIOUS
  <2>2. /\ requests' = requests \ Request(w, i) /\ ~ rx'[w].busy
        /\ watchers' = watchers /\ plan' = plan /\ seen'.blank = seen.blank /\ rx[w].busy
    BY <2>1, HandleDoes, SMTT(90) DEF Idle
  <2>3. i[1] = n /\ rx[w].cb.who = i[2]
    BY <2>1, <1>OwnRequests
  <2>4. i \in Ids(n)
    BY <2>1, <2>2, <2>3, <1>OwnRequests, SMTT(90) DEF Waits, Ids
  <2>5. Ids(n)' = Ids(n) \ {i}
    BY <1>OwnRequests, <2>2, SMTT(90) DEF Request, Ids
  <2>6. calls'[n].wait = calls[n].wait - 1 /\ rx[w].how = "success" /\ IsDestroy(rx[w].cb)
    BY <1>OwnRequests DEF Outcome, IsDestroy
  <2>8. \/ /\ worker'[w].cleared = worker[w].cleared \union {i[2]}
           /\ ~ (plan.clients[w] \subseteq worker[w].cleared \union {i[2]})
        \/ /\ worker'[w].cleared = worker[w].cleared \union {i[2]} /\ worker'[w].closed
    BY <2>3, <2>6 DEF Outcome
  <2>9. \A c \in plan'.clients[w] :
          \/ c \in worker'[w].cleared \/ w \in seen'.blank
          \/ \E r \in requests' : r.cb.call = n /\ r.cb.who = c
    <3> SUFFICES ASSUME NEW c \in plan.clients[w], c \notin worker'[w].cleared,
                        w \notin seen.blank
                 PROVE  \E r \in requests' : r.cb.call = n /\ r.cb.who = c
      BY <2>2
    <3>1. c \notin worker[w].cleared /\ c # i[2]
      BY <2>8
    <3>2. PICK r \in requests : r.cb.call = n /\ r.cb.who = c
      BY <3>1 DEF Waits
    <3> QED
      BY <2>2, <3>2, <3>1, <1>OwnRequests, SMTT(90) DEF Request
  <2>10. Ids(n)' = {} => worker'[w].closed \/ w \in seen'.blank
    BY <2>8, <2>2, <2>9, SMTT(90) DEF Ids
  <2> QED
    BY <2>2, <2>9, <2>10, <2>4, FS_RemoveElement, <2>5, <2>6, SMTT(90) DEF Waits
<1>DeliverWaits.
      ASSUME Types, Types', Forms, Forms', Onward, NEW m \in DOMAIN calls,
             calls[m].cmd = "Delete", Waits(m), calls'[m] = calls[m],
             NEW w, NEW n, n # m, NEW round, NEW ids, NEW published,
             deliverAsync(w, n, round, ids, published), \A i \in ids : i[1] # m,
             \A v \in Workflows : worker'[v].cleared = worker[v].cleared,
             \A v \in Workflows : worker'[v].closed = worker[v].closed,
             seen.blank \subseteq seen'.blank
      PROVE  Waits(m)'
  <2> USE <1>DeliverWaits
  <2>1. PICK u \in Workflows : u = calls[m].wf
    <3>1. calls[m] \in CallRec
      BY SMTT(90) DEF Types
    <3> QED
      BY <3>1 DEF CallRec
  <2> QED
    BY <2>1, <1>WaitsKeep, <1>OwnRequests, SMTT(90) DEF deliverAsync, Onward, Of
\* Destroy begins to wait.
<1>DestroyWaits.
      ASSUME Types, Types', Forms, Forms', Once, Onward, NEW n \in DOMAIN calls, Destroy(n)
      PROVE  Waits(n)'
  <2> USE <1>DestroyWaits
  <2>1. PICK w, points, ids :
          /\ w = calls[n].wf
          /\ points = IF worker[w].stage = "starting" THEN {} ELSE plan.clients[w]
          /\ ids = DestroyIds(n, points, worker[w].active + 1)
    OBVIOUS
  <2>2. /\ Changed(n) /\ n \in Nat /\ n # 0 /\ calls[n].cmd = "Delete" /\ w \in wfMap
        /\ calls[n].at = "begun" /\ IsFiniteSet(ids) /\ calls'[n].wait = Cardinality(ids)
        /\ (ids = {} <=> points = {})
        /\ \E published \in SUBSET ids : deliverAsync(w, n, 0, ids, published)
        /\ seen'.blank = IF points = {} THEN seen.blank \union {w} ELSE seen.blank
    BY <2>1, DestroyDoes
  <2>3. PICK published \in SUBSET ids : deliverAsync(w, n, 0, ids, published)
    BY <2>2
  <2>4. calls'[n].wf = w /\ w \in Workflows /\ plan' = plan
    BY <2>1, <2>2 DEF Changed, Types, Onward
  <2>5. /\ \A r \in requests : r.cb.call # n
        /\ \A g \in watchers : g.id[1] # n
        /\ rx[w].busy => rx[w].id[1] # n
    <3>1. calls[n].at = "begun" /\ n # 0
      BY <2>2
    <3>2. \A r \in requests : r.cb.call # n
      BY <3>1, SMTT(90) DEF Forms, Names
    <3> QED
      BY <3>1, <3>2, <2>4, SMTT(90) DEF Forms, Known
  <2>6. \A i \in ids : [wf |-> w, id |-> i, cb |-> [call |-> n, who |-> i[2]]] \in requests'
    BY <2>3 DEF deliverAsync
  <2>7. Ids(n)' = ids
    <3>2. ASSUME NEW x \in ids PROVE x \in Ids(n)'
      <4>1. PICK r : r = [wf |-> w, id |-> x, cb |-> [call |-> n, who |-> x[2]]]
        OBVIOUS
      <4> QED
        BY <2>6, <4>1, SMTT(90) DEF Ids
    <3> QED
      BY <3>2, <2>3, <2>5, SMTT(90) DEF Ids, deliverAsync
  <2>9. \A c \in plan'.clients[w] :
          \/ c \in worker'[w].cleared \/ w \in seen'.blank
          \/ \E r \in requests' : r.cb.call = n /\ r.cb.who = c
    <3> SUFFICES ASSUME NEW c \in plan.clients[w], w \notin seen'.blank
                 PROVE  \E r \in requests' : r.cb.call = n /\ r.cb.who = c
      BY <2>4
    <3>2. worker[w].active \in Nat
      BY <2>4 DEF Types, WorkerRec
    <3>4. PICK r : r = [wf |-> w, id |-> <<n, c, 1>>, cb |-> [call |-> n, who |-> c]]
      OBVIOUS
    <3>5. r \in requests' /\ r.cb.call = n /\ r.cb.who = c
      BY <2>6, <3>4, <2>1, <3>2, <2>2, SMTT(90) DEF DestroyIds
    <3> QED
      BY <3>5
  <2> QED
    BY <2>2, <2>4, <2>5, <2>7, <2>9, <2>3, SMTT(90) DEF Waits, deliverAsync
\* What the rest of the step of a hopeful call needs to know of it.
<1>HopefulWas.
      ASSUME Types, Once, Onward, Reach, ~ panicked, NEW n \in DOMAIN calls, Hopeful(n)',
             calls'[n].at = calls[n].at, calls'[n].ok => calls[n].ok
      PROVE  /\ Waits(n) /\ calls[n].cmd = "Delete" /\ calls'[n].cmd = "Delete"
             /\ calls[n].wf \in Workflows /\ calls'[n].wf = calls[n].wf
             /\ n \in DOMAIN calls' /\ plan' = plan /\ worker[calls[n].wf].stage # "none"
  <2> USE <1>HopefulWas
  <2>1. calls[n] \in CallRec
    BY SMTT(90) DEF Types
  <2> QED
    BY <2>1 DEF Reach, Hopeful, Onward, Once, CallRec
\* A callback leaves the other calls waiting as they were.
<1>CallbackWaits.
      ASSUME Types, Types', Forms, Forms', Once, Onward, Reach, ~ panicked,
             NEW w \in Workflows, NEW id, NEW cb \in CB, NEW how,
             Names(w, id, cb), Callback(w, cb, how),
             NEW n \in DOMAIN calls, n # cb.call, Hopeful(n)',
             seen'.blank = seen.blank, Of(n)' = Of(n),
             \A v \in Workflows : rx'[v] = rx[v] \/ ~ rx'[v].busy,
             \A g \in watchers' : g \in watchers \/ g.id[1] # n
      PROVE  Waits(n)'
    BY <1>CallbackWaits, <1>WaitsKeep, <1>HopefulWas, CallbackGrows, SMTT(90)
<1>HandleWaits.
      ASSUME Types, Types', Forms, Forms', Once, Onward, Reach, ~ panicked, ~ panicked',
             NEW v \in Workflows, HandleReply(v), NEW n \in DOMAIN calls', Hopeful(n)'
      PROVE  Waits(n)'
  <2> USE <1>HandleWaits
  <2>1. /\ rx[v].busy /\ rx'[v] = Idle
        /\ \A u \in Workflows : u # v => rx'[u] = rx[u]
        /\ requests' = requests \ Request(v, rx[v].id)
        /\ rx[v].found => Callback(v, rx[v].cb, rx[v].how)
        /\ ~ rx[v].found => UNCHANGED <<worker, calls, panicked>>
        /\ seen'.blank = seen.blank /\ watchers' = watchers
    BY HandleDoes
  <2>2. \A u \in Workflows : rx'[u] = rx[u] \/ ~ rx'[u].busy
    BY <2>1, SMTT(90) DEF Idle
  <2>3. CASE ~ rx[v].found
    <3>1. n \in DOMAIN calls /\ calls'[n] = calls[n]
      BY <2>1, <2>3
    <3>2. /\ Waits(n) /\ calls[n].cmd = "Delete" /\ calls'[n].cmd = "Delete"
          /\ calls[n].wf \in Workflows /\ calls'[n].wf = calls[n].wf
          /\ n \in DOMAIN calls' /\ plan' = plan
      BY <3>1, <1>HopefulWas
    <3>3. \A r \in Request(v, rx[v].id) : r.cb.call # n
      <4> SUFFICES ASSUME NEW r \in requests, r.wf = v, r.id = rx[v].id, r.cb.call = n PROVE FALSE
        BY DEF Request
      <4>1. r.id[1] = n /\ v = calls[n].wf
        BY <3>1, <3>2, <1>OwnRequests
      <4> QED
        BY <2>1, <2>3, <3>2, <4>1 DEF Waits
    <3> QED
      BY <2>1, <2>2, <2>3, <3>1, <3>2, <1>WaitsKeep, <3>3 DEF Of
  <2>4. CASE rx[v].found
    <3>1. rx[v].cb \in CB /\ Names(v, rx[v].id, rx[v].cb) /\ Callback(v, rx[v].cb, rx[v].how)
      BY <2>1, <2>4 DEF Types, Rx, Forms
    <3>2. n \in DOMAIN calls
      BY <3>1, CallbackGrows
    <3>3. calls[n].cmd = "Delete" /\ calls'[n].wf = calls[n].wf
      BY <3>2 DEF Hopeful, Onward
    <3>4. CASE rx[v].cb.call # n
      BY <2>1, <2>2, <3>1, <3>2, <3>4, <1>CallbackWaits, <3>3, <1>OwnRequests, <2>4,
         SMTT(90) DEF Of, Request
    <3>5. CASE rx[v].cb.call = n
      <4>1. n # 0 /\ v = calls[n].wf
        BY <2>4, <3>2, <3>3, <3>5, <1>OwnRequests
      <4>2. PICK good \in BOOLEAN : Outcome(v, rx[v].cb, rx[v].how, good)
        BY <3>1, <3>2, <3>5, <4>1, CallbackDoes DEF panic
      <4> QED
        BY <2>4, <3>2, <3>3, <3>5, <4>1, <1>WaitsLess, <4>2, <1>HopefulWas DEF Outcome,
           Hopeful
    <3> QED
      BY <3>4, <3>5
  <2> QED
    BY <2>3, <2>4
<1>WatchWaits.
      ASSUME Types, Types', Forms, Forms', Once, Onward, Reach, ~ panicked, ~ panicked',
             NEW g \in watchers, TimeUp(g) \/ TimeoutCalls(g) \/ TimeoutLeaves(g),
             NEW n \in DOMAIN calls', Hopeful(n)'
      PROVE  Waits(n)'
  <2> USE <1>WatchWaits
  <2>1. CASE TimeUp(g)
    <3>1. PICK h \in Watcher :
            /\ watchers' = (watchers \ {g}) \union {h} /\ h.wf = g.wf /\ h.id = g.id
            /\ h.pc \in {"calling", "leaving"} /\ (h.pc = "calling" <=> h.found)
            /\ h.found <=> \E r \in requests : r.wf = g.wf /\ r.id = g.id
            /\ UNCHANGED <<worker, calls, requests, rx>> /\ seen'.blank = seen.blank
      BY <2>1, TimeUpDoes
    <3>2. n \in DOMAIN calls /\ calls'[n] = calls[n]
      BY <3>1
    <3>3. /\ Waits(n) /\ calls[n].cmd = "Delete" /\ calls'[n].cmd = "Delete"
          /\ calls[n].wf \in Workflows /\ calls'[n].wf = calls[n].wf
          /\ n \in DOMAIN calls' /\ plan' = plan
      BY <3>2, <1>HopefulWas
    <3>5. h.id[1] = n /\ h.pc = "leaving" => h.id \notin Ids(n)
      <4> SUFFICES ASSUME h.id[1] = n, h.pc = "leaving", h.id \in Ids(n) PROVE FALSE
        OBVIOUS
      <4>1. PICK r \in requests : r.cb.call = n /\ r.id = h.id
        BY DEF Ids
      <4>2. r.wf = calls[n].wf /\ n # 0
        BY <3>2, <3>3, <4>1, <1>OwnRequests
      <4>3. calls[n].wf = g.wf
        BY <3>1, <4>2 DEF Forms, Known
      <4> QED
        BY <3>1, <4>1, <4>2, <4>3
    <3> QED
      BY <3>1, <3>2, <3>3, <3>5, <1>WaitsKeep DEF Of, Ids
  <2>2. CASE TimeoutCalls(g)
    <3>1. PICK h \in Watcher :
            /\ g.found /\ g \in Watcher /\ watchers' = (watchers \ {g}) \union {h} /\ h.id = g.id
            /\ Callback(g.wf, g.cb, "error") /\ UNCHANGED <<requests, rx, seen>>
      BY <2>2, CallsDoes
    <3>2. g.wf \in Workflows /\ g.cb \in CB /\ Names(g.wf, g.id, g.cb)
      BY <3>1 DEF Watcher, Forms
    <3>3. n \in DOMAIN calls
      BY <3>1, <3>2, CallbackGrows
    <3>4. calls[n].cmd = "Delete"
      BY <3>3 DEF Hopeful, Onward
    <3>5. CASE g.cb.call = n
      <4>1. n # 0
        BY <3>3, <3>4, <1>OwnRequests
      <4>2. PICK good \in BOOLEAN : Outcome(g.wf, g.cb, "error", good)
        BY <3>1, <3>2, <3>3, <3>5, <4>1, CallbackDoes DEF panic
      <4> QED
        BY <3>5, <4>2 DEF Outcome, Hopeful
    <3>6. CASE g.cb.call # n
      <4>1. g.id[1] # n
        BY <3>1, <3>3, <3>4, <3>6, <1>OwnRequests
      <4> QED
        BY <3>1, <3>2, <3>3, <3>6, <4>1, <1>CallbackWaits DEF Of
    <3> QED
      BY <3>5, <3>6
  <2>3. CASE TimeoutLeaves(g)
    <3>1. /\ g.pc = "leaving" /\ watchers' = watchers \ {g}
          /\ requests' = requests \ Request(g.wf, g.id)
          /\ UNCHANGED <<worker, calls, rx>> /\ seen'.blank = seen.blank
      BY <2>3, LeavesDoes
    <3>2. n \in DOMAIN calls /\ calls'[n] = calls[n]
      BY <3>1
    <3>3. /\ Waits(n) /\ calls[n].cmd = "Delete" /\ calls'[n].cmd = "Delete"
          /\ calls[n].wf \in Workflows /\ calls'[n].wf = calls[n].wf
          /\ n \in DOMAIN calls' /\ plan' = plan
      BY <3>2, <1>HopefulWas
    <3>4. \A r \in Request(g.wf, g.id) : r.cb.call # n
      <4> SUFFICES ASSUME NEW r \in requests, r.wf = g.wf, r.id = g.id, r.cb.call = n PROVE FALSE
        BY DEF Request
      <4>1. g.id[1] = n
        BY <3>2, <3>3, <1>OwnRequests, SMTT(90)
      <4> QED
        BY <3>1, <3>3, <4>1 DEF Waits, Ids
    <3> QED
      BY <3>1, <3>2, <3>3, <1>WaitsKeep, <3>4 DEF Of
  <2> QED
    BY <2>1, <2>2, <2>3
<1>CallWaits.
      ASSUME Types, Types', Forms, Forms', Once, Onward, Reach, ~ panicked, ~ panicked',
             NEW m \in DOMAIN calls, Call(m), NEW n \in DOMAIN calls', Hopeful(n)'
      PROVE  Waits(n)'
  <2> USE <1>CallWaits
  <2>1. CASE Destroy(m)
    <3>1. CASE n = m
      BY <2>1, <3>1, <1>DestroyWaits
    <3>2. CASE n # m
      <4>1. PICK w, points, ids :
              /\ w = calls[m].wf
              /\ points = IF worker[w].stage = "starting" THEN {} ELSE plan.clients[w]
              /\ ids = DestroyIds(m, points, worker[w].active + 1)
        OBVIOUS
      <4>2. /\ Changed(m) /\ \E published \in SUBSET ids : deliverAsync(w, m, 0, ids, published)
            /\ seen'.blank = IF points = {} THEN seen.blank \union {w} ELSE seen.blank
        BY <2>1, <4>1, DestroyDoes
      <4>3. n \in DOMAIN calls /\ calls'[n] = calls[n] /\ seen.blank \subseteq seen'.blank
        BY <3>2, <4>2 DEF Changed
      <4>4. Waits(n) /\ calls[n].cmd = "Delete"
        BY <4>3, <1>HopefulWas
      <4>5. \A i \in ids : i[1] # n
        BY <3>2, <4>1, SMTT(90) DEF DestroyIds
      <4> QED
        BY <3>2, <4>2, <4>3, <4>4, <4>5, <1>DeliverWaits, <2>1 DEF Destroy, Types,
           WorkerRec
    <3> QED
      BY <3>1, <3>2
  <2>2. CASE Resend(m)
    <3>1. PICK w, r, round : w = calls[m].wf /\ r = First(calls[m].todo) /\ round = calls[m].round
      OBVIOUS
    <3>2. /\ Changed(m) /\ calls'[m].at = "sending"
          /\ \E published \in SUBSET {<<0, r, 1>>} :
               deliverAsync(w, m, round, {<<0, r, 1>>}, published)
          /\ seen'.blank = seen.blank
      BY <2>2, <3>1, ResendDoes
    <3>3. n # m /\ n \in DOMAIN calls /\ calls'[n] = calls[n] /\ worker' = worker
      BY <2>2, <3>2 DEF Changed, Hopeful, Resend
    <3>4. Waits(n) /\ calls[n].cmd = "Delete"
      BY <3>3, <1>HopefulWas
    <3>5. \A i \in {<<0, r, 1>>} : i[1] # n
      BY <3>3, <3>4, <1>OwnRequests, SMTT(90)
    <3> QED
      BY <3>2, <3>3, <3>4, <3>5, <1>DeliverWaits
  <2>3. CASE NoWorker(m) \/ DestroyReturns(m) \/ Fetch(m) \/ RoundEnds(m)
    BY <1>WaitsKeep, <1>HopefulWas, <2>3, CallMoves DEF Changed, Hopeful, Of
  <2> QED
    BY <2>1, <2>2, <2>3 DEF Call
<1>OtherWaits.
      ASSUME Types, Types', Forms, Forms', Once, Onward, Reach, ~ panicked, ~ panicked',
             \/ Dispatch
             \/ \E w \in Workflows : Run(w)
             \/ \E w \in Workflows : ReadReply(w)
             \/ \E m \in sent : Answer(m),
             NEW n \in DOMAIN calls', Hopeful(n)'
      PROVE  Waits(n)'
  <2> USE <1>OtherWaits
  <2>1. CASE Dispatch
    <3>1. n \in DOMAIN calls /\ calls'[n] = calls[n]
      <4>1. CASE calls' = calls
        BY <4>1
      <4>2. CASE /\ Len(calls) \in Nat /\ DOMAIN calls = 1..Len(calls)
                 /\ DOMAIN calls' = 1..(Len(calls) + 1)
                 /\ \A k \in DOMAIN calls : calls'[k] = calls[k]
                 /\ calls'[Len(calls) + 1] = NewCall(Head(events))
        BY <4>2, SMTT(90) DEF Hopeful, NewCall
      <4> QED
        BY <2>1, <4>1, <4>2, DispatchDoes
    <3>2. /\ Waits(n) /\ calls[n].cmd = "Delete" /\ calls'[n].cmd = "Delete"
          /\ calls[n].wf \in Workflows /\ calls'[n].wf = calls[n].wf
          /\ n \in DOMAIN calls' /\ plan' = plan /\ worker[calls[n].wf].stage # "none"
      BY <3>1, <1>HopefulWas
    <3>3. worker'[calls[n].wf] = worker[calls[n].wf]
      <4>1. CASE worker' = worker
        BY <4>1
      <4>2. CASE /\ Head(events).cmd = "Create"
                 /\ worker' = [worker EXCEPT ![Head(events).wf] = NewWorker]
        <5>1. events # <<>> /\ events \in Seq(Event)
          BY <2>1 DEF Types, Dispatch
        <5>2. 1 \in 1..Len(events) /\ Head(events) = events[1]
          BY <5>1, SMTT(90)
        <5>3. worker[Head(events).wf].stage = "none"
          BY <4>2, <5>2 DEF Once
        <5> QED
          BY <3>2, <4>2, <5>3 DEF Types
      <4> QED
        BY <2>1, <4>1, <4>2, DispatchDoes
    <3> QED
      BY <3>1, <3>2, <3>3, <1>WaitsKeep, <2>1, DispatchDoes DEF Of
  <2>2. ASSUME NEW w \in Workflows, Run(w) PROVE Waits(n)'
    BY <1>WaitsKeep, <1>OwnRequests, <1>HopefulWas, <2>2, RunDoes, SMTT(90) DEF Of, None
  <2>3. ASSUME NEW w \in Workflows, ReadReply(w) PROVE Waits(n)'
    BY <2>3, ReadDoes, <1>HopefulWas, <1>WaitsKeep, SMTT(90) DEF Of
  <2>4. ASSUME NEW m \in sent, Answer(m) PROVE Waits(n)'
    BY <1>WaitsKeep, <1>HopefulWas, <2>4, AnswerDoes DEF Of
  <2> QED
    BY <2>1, <2>2, <2>3, <2>4
\* RunningIsReachable is disturbed by no step but the return of Destroy.
<1>ReachableStep.
      ASSUME Types, Types', Forms, Once, Reach, Next
      PROVE  RunningIsReachable'
  <2> USE <1>ReachableStep
  <2>0. \A w \in Workflows : worker[w].stage \in {"starting", "running"} =>
          w \in wfMap \/ worker[w].closed \/ w \in seen.blank
    BY DEF Reach, RunningIsReachable, Busy
  <2>a. ASSUME wfMap \subseteq wfMap', seen.blank \subseteq seen'.blank,
               \A w \in Workflows : worker'[w].stage = worker[w].stage,
               \A w \in Workflows : worker[w].closed => worker'[w].closed
        PROVE  RunningIsReachable'
    BY <2>0, <2>a DEF RunningIsReachable, Busy
  <2>1. CASE Dispatch
    BY <2>1, DispatchDoes, <2>0, <2>a DEF Types, RunningIsReachable, Busy
  <2>2. ASSUME NEW w \in Workflows, Run(w) PROVE RunningIsReachable'
    BY <2>0, <2>2, RunDoes DEF RunningIsReachable, Busy
  <2>3. ASSUME NEW w \in Workflows, ReadReply(w) PROVE RunningIsReachable'
    BY <2>3, <2>a, ReadDoes
  <2>4. ASSUME NEW w \in Workflows, HandleReply(w) PROVE RunningIsReachable'
    <3>1. wfMap' = wfMap /\ seen'.blank = seen.blank
      BY <2>4, HandleDoes
    <3>2. CASE rx[w].found
      <4>1. /\ rx[w].cb \in CB /\ Names(w, rx[w].id, rx[w].cb)
            /\ Callback(w, rx[w].cb, rx[w].how)
        BY <2>4, <3>2, HandleDoes DEF Types, Rx, Forms
      <4> QED
        BY <2>a, <3>1, <4>1, CallbackGrows
    <3>3. CASE ~ rx[w].found
      BY <2>4, <2>a, <3>1, <3>3, HandleDoes
    <3> QED
      BY <3>2, <3>3
  <2>5. ASSUME NEW n \in DOMAIN calls, Destroy(n) PROVE RunningIsReachable'
    <3>2. /\ \A v \in Workflows : worker'[v].stage = worker[v].stage
          /\ \A v \in Workflows : worker'[v].closed = worker[v].closed
          /\ wfMap' = wfMap
      <4>1. PICK w, k, points :
              /\ worker' = [worker EXCEPT ![w].active = IF points = {} THEN @ ELSE k]
              /\ wfMap' = wfMap
        BY <2>5 DEF Destroy
      <4>2. worker \in [Workflows -> WorkerRec]
        BY DEF Types
      <4> QED
        BY <4>1, <4>2 DEF WorkerRec
    <3> QED
      BY <2>a, <3>2, <2>5, DestroyDoes
  <2>6. ASSUME NEW n \in DOMAIN calls, Resend(n) PROVE RunningIsReachable'
    BY <2>6, ResendDoes, <2>a DEF Resend
  <2>7. ASSUME NEW n \in DOMAIN calls, NoWorker(n) \/ Fetch(n) \/ RoundEnds(n)
        PROVE  RunningIsReachable'
    BY <2>7, <2>a DEF NoWorker, Fetch, RoundEnds
  <2>8. ASSUME NEW n \in DOMAIN calls, DestroyReturns(n) PROVE RunningIsReachable'
    <3>1. worker' = worker /\ seen' = seen
      BY <2>8, CallMoves
    <3>2. CASE calls[n].ok
      BY <2>0, <3>1, FS_EmptySet, <2>8, <3>2, SMTT(90) DEF RunningIsReachable, Busy, Waits, Reach,
         Next, DestroyReturns, Hopeful
    <3>3. CASE ~ calls[n].ok
      BY <2>8, <2>a, <3>1, <3>3 DEF DestroyReturns
    <3> QED
      BY <3>2, <3>3
  <2>9. ASSUME NEW g \in watchers, TimeUp(g) PROVE RunningIsReachable'
    BY <2>9, <2>a, TimeUpDoes
  <2>10. ASSUME NEW g \in watchers, TimeoutCalls(g) PROVE RunningIsReachable'
    BY <2>a, CallbackGrows, <2>10, CallsDoes DEF Watcher, Forms
  <2>11. ASSUME NEW g \in watchers, TimeoutLeaves(g) PROVE RunningIsReachable'
    BY <2>11, <2>a, LeavesDoes
  <2>12. ASSUME NEW m \in sent, Answer(m) PROVE RunningIsReachable'
    BY <2>12, <2>a, AnswerDoes
  <2> QED
    BY <2>1, <2>2, <2>3, <2>4, <2>5, <2>6, <2>7, <2>8, <2>9, <2>10, <2>11, <2>12 DEF
       Next, Call, Receive, Watch
<1>1. Init => Reach
  BY SMTT(90) DEF Reach, RunningIsReachable, Busy, Init, Absent, NewWorker
<1>2. Inv /\ Inv' /\ Reach /\ [Next]_vars => Reach'
  <2> SUFFICES ASSUME Inv, Inv', Reach, [Next]_vars PROVE Reach'
    OBVIOUS
  <2>1. CASE Next
    BY <2>1, GoesOnward, <1>ReachableStep, <1>OtherWaits, <1>HandleWaits, <1>CallWaits, <1>WatchWaits,
       ZenonT(90) DEF Inv, Watch, Next, Receive, Reach
  <2>2. CASE UNCHANGED vars
    <3>1. UNCHANGED <<plan, wfMap, worker, calls, requests, watchers, rx, panicked, seen>>
      BY <2>2 DEF vars
    <3>3. ASSUME ~ panicked', NEW n \in DOMAIN calls', Hopeful(n)' PROVE Waits(n)'
      BY <3>1, <3>3 DEF Ids, Waits, Reach, Hopeful
    <3> QED
      BY <3>3, <3>1 DEF Reach, RunningIsReachable, Busy
  <2> QED
    BY <2>1, <2>2
<1>3. Reach => RunningIsReachable
  BY DEF Reach
<1> QED
  BY <1>1, <1>2, <1>3, InvAlways, PTL DEF Spec

-----------------------------------------------------------------------------
(* Why the runner panics: what the WaitGroups count.                       *)

\* A WaitGroup that a callback still counts for is not at zero.
LEMMA TokenCounted ==
    ASSUME Types, Counts, NEW n \in DOMAIN calls, Tokens(n) # {}
    PROVE  calls[n].wait # 0
BY CallHas, FS_CardinalityType, FS_EmptySet, SMTT(90) DEF Counts, Counted

\* The callback a goroutine holds is one of its call's.
LEMMA TokenHeld ==
    ASSUME NEW n
    PROVE  /\ \A w \in Workflows : rx[w].found /\ rx[w].cb.call = n => rx[w].id \in Tokens(n)
           /\ \A g \in watchers : g.pc = "calling" /\ g.cb.call = n => g.id \in Tokens(n)
           /\ \A q \in requests : q.cb.call = n /\ ~ Spent(q) => q.id \in Tokens(n)
BY DEF Tokens

\* Until a callback is run twice the WaitGroups count what is still to run.
LEMMA CountsStep ==
    ASSUME Types, Types', Forms, Once, Onward, Next, ~ panicked, ~ panicked', ~ seen'.twice,
           ~ seen.twice => Counts
    PROVE  Counts'
\* One callback less for each that is counted down.
<1>TokensKeep.
      ASSUME Types, Types', Counts, NEW n \in DOMAIN calls, n \in DOMAIN calls',
             Tokens(n)' \subseteq Tokens(n),
             \/ calls'[n].wait = calls[n].wait
             \/ calls'[n].wait = calls[n].wait - 1 /\ Tokens(n)' # Tokens(n)
      PROVE  Counted(n)'
    BY <1>TokensKeep, FS_Subset, FS_CardinalityType, CallHas, SMTT(90) DEF Counts, Counted
\* The ways to hold a callback after a step.
<1>TokensNext.
      ASSUME NEW n, NEW S,
             \A q \in requests' : q.cb.call = n /\ ~ Spent(q)' => q.id \in S,
             \A w \in Workflows : rx'[w].found /\ rx'[w].cb.call = n => rx'[w].id \in S,
             \A g \in watchers' : g.pc = "calling" /\ g.cb.call = n => g.id \in S
      PROVE  Tokens(n)' \subseteq S
    BY <1>TokensNext DEF Tokens
<1>CountsSame.
      ASSUME Types, Types', Counts, Onward, UNCHANGED <<rx, watchers>>,
             \A q \in requests' : q \in requests \/ q.cb.call = 0,
             \A n \in DOMAIN calls' :
               \/ n \in DOMAIN calls /\ calls'[n].wait = calls[n].wait
               \/ n \notin DOMAIN calls /\ calls'[n].wait = 0 /\ Tokens(n) = {}
      PROVE  Counts'
  <2> USE <1>CountsSame
  <2>2. ASSUME NEW n \in DOMAIN calls' PROVE Counted(n)'
    <3>1. n # 0
      BY SMTT(90) DEF Types
    <3>2. \A q \in requests' : q.cb.call = n /\ ~ Spent(q)' => q.id \in Tokens(n)
      BY <3>1, TokenHeld DEF Spent
    <3>3. Tokens(n)' \subseteq Tokens(n)
      BY <3>2, <1>TokensNext, TokenHeld
    <3>4. CASE n \in DOMAIN calls /\ calls'[n].wait = calls[n].wait
      BY <3>3, <3>4, <1>TokensKeep
    <3>5. CASE calls'[n].wait = 0 /\ Tokens(n) = {}
      <4>1. Tokens(n)' = {}
        BY <3>3, <3>5
      <4>2. IsFiniteSet({}) /\ Cardinality({}) = 0
        BY FS_EmptySet
      <4>3. 0 <= 0
        BY SMTT(90)
      <4> QED
        BY <3>5, <4>1, <4>2, <4>3 DEF Counted
    <3> QED
      BY <3>4, <3>5
  <2> QED
    BY <2>2 DEF Counts, Single
\* Who reads a request that nobody holds becomes its only holder.
<1>ReadCounts.
      ASSUME Types, Types', Forms, Counts, NEW w \in Workflows, ReadReply(w), ~ seen'.twice
      PROVE  Counts'
  <2> USE <1>ReadCounts
  <2>1. PICK m \in replies :
          /\ ~ rx[w].busy /\ rx'[w].id = m.id
          /\ \A v \in Workflows : v # w => rx'[v] = rx[v]
          /\ rx'[w].found => \E r \in requests : r.wf = w /\ r.id = m.id /\ rx'[w].cb = r.cb
          /\ rx'[w].found => ~ Held(w, m.id)
          /\ UNCHANGED <<calls, requests, watchers>>
    BY ReadDoes, SMTT(90)
  <2>2. rx'[w].found => \A g \in watchers : ~ (g.wf = w /\ g.id = m.id /\ g.found)
    BY <2>1 DEF Held
  <2>4. ASSUME NEW n \in DOMAIN calls' PROVE Counted(n)'
    <3>2. ASSUME NEW v \in Workflows, rx'[v].found, rx'[v].cb.call = n PROVE rx'[v].id \in Tokens(n)
      <4>1. CASE v # w
        BY <2>1, <3>2, <4>1, TokenHeld
      <4>2. CASE v = w
        <5>1. PICK r \in requests : r.wf = w /\ r.id = m.id /\ rx'[w].cb = r.cb
          BY <2>1, <3>2, <4>2
        <5> QED
          BY <2>1, <3>2, <4>2, <5>1, TokenHeld, <2>2, SMTT(90) DEF Spent
      <4> QED
        BY <4>1, <4>2
    <3> QED
      BY <2>1, <1>TokensKeep, <3>2, <1>TokensNext, TokenHeld DEF Spent
  <2> QED
    BY <2>4, <2>1, <2>2 DEF Counts, Single
<1>TimeUpCounts.
      ASSUME Types, Types', Forms, Counts, NEW g \in watchers, TimeUp(g), ~ seen'.twice
      PROVE  Counts'
  <2> USE <1>TimeUpCounts
  <2>1. PICK h \in Watcher :
          /\ g.pc = "waiting" /\ watchers' = (watchers \ {g}) \union {h}
          /\ h.wf = g.wf /\ h.id = g.id
          /\ h.pc \in {"calling", "leaving"} /\ (h.pc = "calling" <=> h.found)
          /\ h.found => \E r \in requests : r.wf = g.wf /\ r.id = g.id /\ h.cb = r.cb
          /\ h.found => ~ Held(g.wf, g.id)
          /\ UNCHANGED <<calls, requests, rx>>
    BY TimeUpDoes
  <2>2. g.wf \in Workflows /\ ~ g.found
    BY <2>1 DEF Types, Watcher, Forms
  <2>3. h.found => /\ \A k \in watchers : ~ (k.wf = g.wf /\ k.id = g.id /\ k.found)
                   /\ ~ (rx[g.wf].found /\ rx[g.wf].id = g.id)
    BY <2>1, <2>2 DEF Held, Forms
  <2>4. Single'
    BY <2>1, <2>3, SMTT(90) DEF Counts, Single
  <2>5. ASSUME NEW n \in DOMAIN calls' PROVE Counted(n)'
    <3>4. ASSUME NEW k \in watchers', k.pc = "calling", k.cb.call = n PROVE k.id \in Tokens(n)
      <4>1. CASE k \in watchers
        BY <3>4, <4>1, TokenHeld
      <4>2. CASE k = h
        <5>1. PICK r \in requests : r.wf = g.wf /\ r.id = g.id /\ h.cb = r.cb
          BY <2>1, <3>4, <4>2
        <5> QED
          BY <2>1, <3>4, <4>2, <5>1, TokenHeld, <2>3 DEF Spent
      <4> QED
        BY <2>1, <4>1, <4>2
    <3> QED
      BY <2>1, <1>TokensKeep, <3>4, <1>TokensNext, TokenHeld, <2>2 DEF Spent
  <2> QED
    BY <2>4, <2>5 DEF Counts
<1>LeavesCounts.
      ASSUME Types, Types', Counts, NEW g \in watchers, TimeoutLeaves(g)
      PROVE  Counts'
    BY <1>LeavesCounts, LeavesDoes, TokenHeld, <1>TokensNext, <1>TokensKeep, SMTT(90)
       DEF Counts, Single, Spent, Request
\* The callbacks of a call are all of its worker.
<1>HoldersNamed.
      ASSUME Types, Forms, NEW n, n # 0
      PROVE  /\ \A q \in requests : q.cb.call = n =>
                  n \in DOMAIN calls /\ q.wf = calls[n].wf /\ calls[n].at # "begun"
             /\ \A w \in Workflows : rx[w].found /\ rx[w].cb.call = n =>
                  n \in DOMAIN calls /\ w = calls[n].wf /\ calls[n].at # "begun"
             /\ \A g \in watchers : g.found /\ g.cb.call = n =>
                  n \in DOMAIN calls /\ g.wf = calls[n].wf /\ calls[n].at # "begun"
             /\ \A g \in watchers : g.pc = "calling" => g.found
  <2> USE <1>HoldersNamed
  <2>1. \A q \in requests : q.cb.call = n =>
          n \in DOMAIN calls /\ q.wf = calls[n].wf /\ calls[n].at # "begun"
    BY DEF Forms, Names
  <2>2. \A w \in Workflows : rx[w].found /\ rx[w].cb.call = n =>
          n \in DOMAIN calls /\ w = calls[n].wf /\ calls[n].at # "begun"
    BY SMTT(90) DEF Forms, Names
  <2> QED
    BY <2>1, <2>2, SMTT(90) DEF Forms, Names
<1>HandleCounts.
      ASSUME Types, Types', Forms, Counts, ~ panicked, ~ panicked', NEW v \in Workflows, HandleReply(v)
      PROVE  Counts'
  <2> USE <1>HandleCounts
  <2>1. /\ rx[v].busy /\ rx'[v] = Idle
        /\ \A u \in Workflows : u # v => rx'[u] = rx[u]
        /\ requests' = requests \ Request(v, rx[v].id)
        /\ rx[v].found => Callback(v, rx[v].cb, rx[v].how)
        /\ ~ rx[v].found => UNCHANGED <<worker, calls, panicked>>
        /\ UNCHANGED watchers
    BY HandleDoes
  <2>2. ~ rx'[v].found
    BY <2>1, SMTT(90) DEF Idle
  <2>3. Single'
    BY <2>1, <2>2 DEF Counts, Single
  <2>4. ASSUME NEW n PROVE Tokens(n)' \subseteq Tokens(n)
    BY <2>1, TokenHeld, <2>2, <1>TokensNext DEF Spent
  <2>5. CASE ~ rx[v].found
    BY <2>3, <2>1, <2>4, <2>5, <1>TokensKeep DEF Counts
  <2>6. CASE rx[v].found
    <3>1. rx[v].cb \in CB /\ Names(v, rx[v].id, rx[v].cb) /\ Callback(v, rx[v].cb, rx[v].how)
      BY <2>1, <2>6 DEF Types, Rx, Forms
    <3>2. /\ DOMAIN calls' = DOMAIN calls
          /\ \A n \in DOMAIN calls : n # rx[v].cb.call => calls'[n] = calls[n]
      BY <3>1, CallbackGrows
    <3>3. ASSUME NEW n \in DOMAIN calls', n # rx[v].cb.call PROVE Counted(n)'
      BY <2>4, <3>2, <3>3, <1>TokensKeep
    <3>4. ASSUME NEW n \in DOMAIN calls', n = rx[v].cb.call PROVE Counted(n)'
      <4>1. n # 0 /\ n \in DOMAIN calls
        BY <3>2, <3>4, CallHas
      <4>2. PICK good \in BOOLEAN : Outcome(v, rx[v].cb, rx[v].how, good)
        BY <3>1, <3>4, <4>1, CallbackDoes DEF panic
      <4>4. rx[v].id \in Tokens(n) /\ calls[n].wf = v
        BY <2>6, <3>4, <4>1, TokenHeld, <1>HoldersNamed
      <4>5. rx[v].id \notin Tokens(n)'
        <5>1. \A q \in requests' : q.cb.call = n => q.id # rx[v].id
          BY <2>1, <4>1, <4>4, <1>HoldersNamed DEF Request
        <5> DEFINE S == Tokens(n)' \ {rx[v].id}
        <5>4. \A q \in requests' : q.cb.call = n /\ ~ Spent(q)' => q.id \in S
          BY <5>1 DEF Tokens
        <5>5. \A u \in Workflows : ~ (rx'[u].found /\ rx'[u].cb.call = n)
          BY <2>1, <2>2, <4>1, <4>4, <1>HoldersNamed, SMTT(90)
        <5>6. \A k \in watchers' : k.pc = "calling" /\ k.cb.call = n => k.id # rx[v].id
          BY <2>1, <2>6, <4>1, <4>4, <1>HoldersNamed, SMTT(90) DEF Counts, Single
        <5>8. \A k \in watchers' : k.pc = "calling" /\ k.cb.call = n => k.id \in S
          BY <5>6 DEF Tokens
        <5>9. \A u \in Workflows : rx'[u].found /\ rx'[u].cb.call = n => rx'[u].id \in S
          BY <5>5
        <5>7. Tokens(n)' \subseteq S
          BY <5>4, <5>8, <5>9, <1>TokensNext
        <5> QED
          BY <5>7
      <4> QED
        BY <2>4, <4>1, <4>4, <4>5, <1>TokensKeep, <3>4, <4>2 DEF Outcome
    <3> QED
      BY <2>3, <3>3, <3>4 DEF Counts
  <2> QED
    BY <2>5, <2>6
<1>CallsCounts.
      ASSUME Types, Types', Forms, Counts, ~ panicked, ~ panicked', NEW g \in watchers, TimeoutCalls(g)
      PROVE  Counts'
  <2> USE <1>CallsCounts
  <2>1. PICK h \in Watcher :
          /\ g.pc = "calling" /\ g.found /\ g \in Watcher
          /\ watchers' = (watchers \ {g}) \union {h}
          /\ h.wf = g.wf /\ h.id = g.id /\ h.pc = "leaving" /\ h.found /\ h.cb = g.cb
          /\ Callback(g.wf, g.cb, "error")
          /\ UNCHANGED <<requests, rx>>
    BY CallsDoes
  <2>2. g.wf \in Workflows /\ g.cb \in CB /\ Names(g.wf, g.id, g.cb)
    BY <2>1 DEF Watcher, Forms
  <2>5. ASSUME NEW n PROVE Tokens(n)' \subseteq Tokens(n)
    BY <1>TokensNext, <2>1, TokenHeld DEF Spent
  <2>6. /\ DOMAIN calls' = DOMAIN calls
        /\ \A n \in DOMAIN calls : n # g.cb.call => calls'[n] = calls[n]
    BY <2>1, <2>2, CallbackGrows
  <2>7. ASSUME NEW n \in DOMAIN calls', n # g.cb.call PROVE Counted(n)'
    BY <2>5, <2>6, <2>7, <1>TokensKeep
  <2>8. ASSUME NEW n \in DOMAIN calls', n = g.cb.call PROVE Counted(n)'
    <3>1. n # 0 /\ n \in DOMAIN calls
      BY <2>6, <2>8, CallHas
    <3>2. PICK good \in BOOLEAN : Outcome(g.wf, g.cb, "error", good)
      BY <2>1, <2>2, <2>8, <3>1, CallbackDoes DEF panic
    <3>4. g.id \in Tokens(n) /\ calls[n].wf = g.wf
      BY <2>1, <2>8, <3>1, TokenHeld, <1>HoldersNamed
    <3>5. g.id \notin Tokens(n)'
      <4> DEFINE S == Tokens(n)' \ {g.id}
      <4>4. \A q \in requests' : q.cb.call = n /\ ~ Spent(q)' => q.id \in S
        BY <2>1, <3>1, <3>4, <1>HoldersNamed DEF Tokens, Spent
      <4>7. Tokens(n)' \subseteq S
        BY <4>4, <1>TokensNext, <2>1, <3>1, <3>4, <1>HoldersNamed, SMTT(90) DEF Tokens, Counts,
           Single
      <4> QED
        BY <4>7
    <3> QED
      BY <2>5, <3>1, <3>4, <3>5, <1>TokensKeep, <2>8, <3>2 DEF Outcome
  <2> QED
    BY <2>7, <2>8, <2>1, SMTT(90) DEF Counts, Single
\* New requests are held by nobody yet.
<1>DeliverTokens.
      ASSUME Types, Forms, Counts, NEW w, NEW n, NEW round, NEW ids, NEW published,
             deliverAsync(w, n, round, ids, published)
      PROVE  /\ Single' /\ Tokens(n)' \subseteq Tokens(n) \union ids
             /\ \A k : k # n => Tokens(k)' \subseteq Tokens(k)
  <2> USE <1>DeliverTokens
  <2>1. /\ rx' = rx
        /\ \A g \in watchers' : g \in watchers \/ (~ g.found /\ g.pc = "waiting")
        /\ \A g \in watchers : g \in watchers'
    BY SMTT(90) DEF deliverAsync
  <2>2. \A q \in requests' : q \in requests \/ (q.cb.call = n /\ q.id \in ids)
    BY SMTT(90) DEF deliverAsync
  <2>4. \A q : Spent(q)' <=> Spent(q)
    BY <2>1 DEF Spent
  <2>5. ASSUME NEW k PROVE k # n => Tokens(k)' \subseteq Tokens(k)
    BY <2>2, <2>4, TokenHeld, <2>1, <1>TokensNext
  <2>6. Tokens(n)' \subseteq Tokens(n) \union ids
    <3>2. \A v \in Workflows : rx'[v].found /\ rx'[v].cb.call = n => rx'[v].id \in Tokens(n) \union ids
      BY <2>1, TokenHeld
    <3> QED
      BY <3>2, <1>TokensNext, <2>1, TokenHeld, <2>2, <2>4
  <2> QED
    BY <2>5, <2>6, <2>1 DEF Counts, Single
<1>DestroyCounts.
      ASSUME Types, Types', Forms, Counts, NEW n \in DOMAIN calls, Destroy(n)
      PROVE  Counts'
  <2> USE <1>DestroyCounts
  <2>1. PICK w, ids :
          /\ Changed(n) /\ n # 0 /\ calls[n].at = "begun"
          /\ IsFiniteSet(ids) /\ calls'[n].wait = Cardinality(ids)
          /\ \E published \in SUBSET ids : deliverAsync(w, n, 0, ids, published)
    BY DestroyDoes
  <2>2. /\ Single' /\ Tokens(n)' \subseteq Tokens(n) \union ids
        /\ \A k : k # n => Tokens(k)' \subseteq Tokens(k)
    BY <2>1, <1>DeliverTokens
  <2>3. Tokens(n) = {}
    BY <2>1, <1>HoldersNamed DEF Tokens
  <2>5. ASSUME NEW k \in DOMAIN calls', k # n PROVE Counted(k)'
    BY <2>2, <2>5, <1>TokensKeep, <2>1 DEF Changed
  <2> QED
    BY <2>2, <2>5, <2>1, <2>3, FS_Subset DEF Counts, Counted
<1>ResendCounts.
      ASSUME Types, Types', Forms, Counts, NEW n \in DOMAIN calls, Resend(n)
      PROVE  Counts'
  <2> USE <1>ResendCounts
  <2>1. PICK w, round, i :
          /\ Changed(n) /\ n # 0 /\ calls'[n].wait = calls[n].wait + 1
          /\ \E published \in SUBSET {i} : deliverAsync(w, n, round, {i}, published)
    BY ResendDoes
  <2>2. /\ Single' /\ Tokens(n)' \subseteq Tokens(n) \union {i}
        /\ \A k : k # n => Tokens(k)' \subseteq Tokens(k)
    BY <2>1, <1>DeliverTokens
  <2>3. Counted(n)'
    <3>1. IsFiniteSet(Tokens(n)) /\ Cardinality(Tokens(n)) <= calls[n].wait
      BY DEF Counts, Counted
    <3>2. /\ IsFiniteSet(Tokens(n) \union {i})
          /\ \/ Cardinality(Tokens(n) \union {i}) = Cardinality(Tokens(n))
             \/ Cardinality(Tokens(n) \union {i}) = Cardinality(Tokens(n)) + 1
      BY <3>1, FS_AddElement
    <3> QED
      BY <2>1, <3>1, <3>2, FS_CardinalityType, CallHas, <2>2, FS_Subset, SMTT(90) DEF Counted
  <2>4. ASSUME NEW k \in DOMAIN calls', k # n PROVE Counted(k)'
    BY <2>2, <2>4, <1>TokensKeep, <2>1 DEF Changed
  <2> QED
    BY <2>2, <2>3, <2>4 DEF Counts
<1>1. CASE Dispatch
  <2>2. ASSUME NEW n \in DOMAIN calls'
        PROVE  \/ n \in DOMAIN calls /\ calls'[n].wait = calls[n].wait
               \/ n \notin DOMAIN calls /\ calls'[n].wait = 0 /\ Tokens(n) = {}
    <3>1. CASE calls' = calls
      BY <3>1
    <3>2. CASE /\ Len(calls) \in Nat /\ DOMAIN calls = 1..Len(calls)
               /\ DOMAIN calls' = 1..(Len(calls) + 1)
               /\ \A k \in DOMAIN calls : calls'[k] = calls[k]
               /\ calls'[Len(calls) + 1] = NewCall(Head(events))
      <4>1. n \in DOMAIN calls \/ (n = Len(calls) + 1 /\ n \notin DOMAIN calls /\ n # 0)
        BY <3>2, SMTT(90)
      <4>2. CASE n \in DOMAIN calls
        BY <3>2, <4>2
      <4>3. CASE n = Len(calls) + 1 /\ n \notin DOMAIN calls /\ n # 0
        <5>1. calls'[n].wait = 0
          BY <3>2, <4>3, SMTT(90) DEF NewCall
        <5> QED
          BY <4>3, <5>1, <1>HoldersNamed DEF Tokens
      <4> QED
        BY <4>1, <4>2, <4>3
    <3> QED
      BY <1>1, <3>1, <3>2, DispatchDoes
  <2> QED
    BY <2>2, <1>CountsSame, <1>1, DispatchDoes
<1>2. ASSUME NEW w \in Workflows, Run(w) PROVE Counts'
  BY <1>CountsSame, <1>2, RunDoes, SMTT(90) DEF None
<1>3. ASSUME NEW w \in Workflows, ReadReply(w) PROVE Counts'
  BY <1>3, ReadDoes, <1>ReadCounts
<1>4. ASSUME NEW w \in Workflows, HandleReply(w) PROVE Counts'
  BY <1>4, <1>HandleCounts, HandleDoes
<1>5. ASSUME NEW n \in DOMAIN calls, Destroy(n) PROVE Counts'
  BY <1>5, <1>DestroyCounts, DestroyDoes
<1>6. ASSUME NEW n \in DOMAIN calls, Resend(n) PROVE Counts'
  BY <1>6, <1>ResendCounts, ResendDoes
<1>7. ASSUME NEW m \in DOMAIN calls, NoWorker(m) \/ DestroyReturns(m) \/ Fetch(m) \/ RoundEnds(m)
      PROVE  Counts'
  BY <1>CountsSame, <1>7, CallMoves DEF Changed
<1>8. ASSUME NEW g \in watchers, TimeUp(g) PROVE Counts'
  BY <1>8, TimeUpDoes, <1>TimeUpCounts
<1>9. ASSUME NEW g \in watchers, TimeoutCalls(g) PROVE Counts'
  BY <1>9, <1>CallsCounts, CallsDoes
<1>10. ASSUME NEW g \in watchers, TimeoutLeaves(g) PROVE Counts'
  BY <1>10, <1>LeavesCounts, LeavesDoes
<1>11. ASSUME NEW m \in sent, Answer(m) PROVE Counts'
  BY <1>11, AnswerDoes, <1>CountsSame
<1> QED
  BY <1>1, <1>2, <1>3, <1>4, <1>5, <1>6, <1>7, <1>8, <1>9, <1>10, <1>11 DEF Next,
     Call, Receive, Watch

-----------------------------------------------------------------------------
(* Why the runner panics: what comes after the end of a worker.            *)

\* A worker that was closed has only such requests more as are of Destroy.
Added(w) ==
  /\ worker[w].closed
  /\ \A r \in requests' : r.wf = w => r \in requests \/ IsDestroy(r.cb)'
  /\ rx'[w].found => rx'[w] = rx[w] \/ \E r \in requests : r.wf = w /\ r.cb = rx'[w].cb

\* Nothing of Destroy is sent, answered or read.
Quiet(w) ==
  /\ \A id \in Id : id[1] # 0 /\ [wf |-> w, id |-> id] \in sent' => [wf |-> w, id |-> id] \in sent
  /\ \A m \in replies' : m.wf = w /\ m.id[1] # 0 => m \in replies
  /\ rx'[w].busy /\ rx'[w].id[1] # 0 => rx[w].busy /\ rx'[w].id = rx[w].id

\* The runner dies of a panic in a callback only when a callback was run twice,
\* or Destroy was called again for the same worker, or a worker was closed while
\* other commands were to be answered.
THEOREM PanicsAreExplained == Spec => []PanicsExplained
<1>DestroyStays.
      ASSUME Onward, NEW w, NEW id, NEW cb, Names(w, id, cb), IsDestroy(cb)
      PROVE  IsDestroy(cb)'
    BY <1>DestroyStays DEF Names, Onward, IsDestroy
<1>LeftoversKeep.
      ASSUME Types, Types', Forms, Onward, Leftovers, seen.pending \subseteq seen'.pending,
             NEW w \in Workflows, worker'[w].closed, w \notin seen'.pending, Added(w)
      PROVE  /\ \A r \in requests' : r.wf = w => IsDestroy(r.cb)'
             /\ rx'[w].found => IsDestroy(rx[w].cb)'
  <2> USE <1>LeftoversKeep
  <2>1. /\ \A r \in requests : r.wf = w => IsDestroy(r.cb) /\ Names(r.wf, r.id, r.cb)
        /\ rx[w].found => IsDestroy(rx[w].cb) /\ Names(w, rx[w].id, rx[w].cb)
    BY DEF Leftovers, Added, Forms
  <2>2. ASSUME NEW r \in requests', r.wf = w PROVE IsDestroy(r.cb)'
    BY <2>1, <2>2, <1>DestroyStays DEF Added
  <2>3. ASSUME rx'[w].found PROVE IsDestroy(rx[w].cb)'
    <3>1. CASE rx'[w] = rx[w]
      <4>1. PICK cb : cb = rx[w].cb
        OBVIOUS
      <4>2. IsDestroy(cb)'
        BY <2>1, <2>3, <3>1, <4>1, <1>DestroyStays
      <4> QED
        BY <3>1, <4>1, <4>2 DEF IsDestroy
    <3>2. CASE \E r \in requests : r.wf = w /\ r.cb = rx'[w].cb
      BY <3>2, <2>1, <1>DestroyStays, SMTT(90) DEF IsDestroy
    <3> QED
      BY <2>3, <3>1, <3>2 DEF Added
  <2> QED
    BY <2>2, <2>3
\* A worker that is closed while other commands are to be answered is pending,
\* and so is one that is sent other commands later.
<1>LeftoversStep.
      ASSUME Types, Types', Forms, Once, Onward, Leftovers, Next, ~ panicked, ~ panicked'
      PROVE  Leftovers'
  <2> USE <1>LeftoversStep
  <2> SUFFICES ASSUME NEW w \in Workflows, worker'[w].closed, w \notin seen'.pending
               PROVE  /\ \A r \in requests' : r.wf = w => IsDestroy(r.cb)'
                      /\ rx'[w].found => IsDestroy(rx[w].cb)'
    BY DEF Leftovers
  <2>a. ASSUME seen.pending \subseteq seen'.pending, Added(w)
        PROVE  /\ \A r \in requests' : r.wf = w => IsDestroy(r.cb)'
               /\ rx'[w].found => IsDestroy(rx[w].cb)'
    BY <2>a, <1>LeftoversKeep
  <2>1. CASE Dispatch
    <3>2. worker[w].closed
      <4>1. CASE worker' = [worker EXCEPT ![Head(events).wf] = NewWorker]
        BY <4>1 DEF NewWorker, Types
      <4> QED
        BY <2>1, <4>1, DispatchDoes
    <3> QED
      BY <2>a, <3>2, <2>1, DispatchDoes DEF Added
  <2>2. ASSUME NEW v \in Workflows, Run(v) PROVE seen.pending \subseteq seen'.pending /\ Added(w)
    <3>1. /\ UNCHANGED <<rx, seen>>
          /\ \A u \in Workflows : u # v => worker'[u] = worker[u]
          /\ worker'[v].closed = worker[v].closed
          /\ \/ /\ requests' = requests \union {[wf |-> v, id |-> Setup, cb |-> None]}
                /\ worker[v].stage = "starting"
             \/ requests' = requests
      BY <2>2, RunDoes
    <3>2. worker[w].closed
      BY <3>1
    <3>3. \A r \in requests' : r.wf = w => r \in requests
      BY <3>1, <3>2, SMTT(90) DEF Once
    <3> QED
      BY <3>1, <3>2, <3>3 DEF Added
  <2>3. ASSUME NEW v \in Workflows, ReadReply(v)
        PROVE  seen.pending \subseteq seen'.pending /\ Added(w)
    <3>1. /\ UNCHANGED <<worker, requests>> /\ seen'.pending = seen.pending
          /\ \A u \in Workflows : u # v => rx'[u] = rx[u]
          /\ rx'[v].found => \E r \in requests : r.wf = v /\ rx'[v].cb = r.cb
      BY <2>3, ReadDoes, SMTT(90)
    <3> QED
      BY <3>1 DEF Added
  <2>4. ASSUME NEW v \in Workflows, HandleReply(v)
        PROVE  /\ \A r \in requests' : r.wf = w => IsDestroy(r.cb)'
               /\ rx'[w].found => IsDestroy(rx[w].cb)'
    <3>1. /\ rx'[v] = Idle
          /\ \A u \in Workflows : u # v => rx'[u] = rx[u]
          /\ requests' = requests \ Request(v, rx[v].id)
          /\ rx[v].found => Callback(v, rx[v].cb, rx[v].how)
          /\ ~ rx[v].found => UNCHANGED worker
          /\ seen.pending \subseteq seen'.pending
      BY <2>4, HandleDoes
    <3>2. ~ rx'[v].found
      BY <3>1, SMTT(90) DEF Idle
    <3>3. CASE worker[w].closed
      BY <3>1, <3>2, <3>3, <2>a DEF Added
    <3>4. CASE ~ worker[w].closed
      <4>1. w = v
        <5>1. CASE ~ rx[v].found
          BY <3>1, <3>4, <5>1
        <5>2. CASE rx[v].found
          <6>1. rx[v].cb \in CB /\ Names(v, rx[v].id, rx[v].cb)
            BY <5>2 DEF Types, Rx, Forms
          <6> QED
            BY <3>4, <3>1, <5>2, <6>1, CallbackDoes DEF Names
        <5> QED
          BY <5>1, <5>2
      <4>3. ASSUME NEW r \in requests', r.wf = w PROVE IsDestroy(r.cb)'
        BY <3>1, <4>3, <1>DestroyStays, <2>4, <3>4, <4>1, HandleDoes DEF Forms
      <4> QED
        BY <3>2, <4>1, <4>3
    <3> QED
      BY <3>3, <3>4
  <2>5. ASSUME NEW n \in DOMAIN calls, Destroy(n)
        PROVE  seen.pending \subseteq seen'.pending /\ Added(w)
    <3>1. PICK v, ids :
            /\ Changed(n) /\ n # 0 /\ calls[n].cmd = "Delete"
            /\ \E published \in SUBSET ids : deliverAsync(v, n, 0, ids, published)
            /\ seen'.pending = seen.pending
      BY <2>5, DestroyDoes
    <3>4. worker[w].closed
      BY <2>5 DEF Destroy, Types, WorkerRec
    <3> QED
      BY <3>1, <3>4, SMTT(90) DEF Added, IsDestroy, Changed, deliverAsync
  <2>6. ASSUME NEW n \in DOMAIN calls, Resend(n)
        PROVE  seen.pending \subseteq seen'.pending /\ Added(w)
    <3>1. PICK v, ids, round :
            /\ \E published \in SUBSET ids : deliverAsync(v, n, round, ids, published)
            /\ seen'.pending = IF worker[v].closed THEN seen.pending \union {v} ELSE seen.pending
      BY <2>6, ResendDoes
    <3> QED
      BY <3>1, <2>6, SMTT(90) DEF Added, Resend, deliverAsync
  <2>7. ASSUME NEW n \in DOMAIN calls, NoWorker(n) \/ DestroyReturns(n) \/ Fetch(n) \/ RoundEnds(n)
        PROVE  seen.pending \subseteq seen'.pending /\ Added(w)
    BY <2>7, CallMoves DEF Added
  <2>8. ASSUME NEW g \in watchers, TimeUp(g) PROVE seen.pending \subseteq seen'.pending /\ Added(w)
    BY <2>8, TimeUpDoes, SMTT(90) DEF Added
  <2>9. ASSUME NEW g \in watchers, TimeoutCalls(g)
        PROVE  seen.pending \subseteq seen'.pending /\ Added(w)
    <3>1. /\ g \in Watcher /\ g.found /\ Callback(g.wf, g.cb, "error")
          /\ UNCHANGED <<requests, rx, seen>>
      BY <2>9, CallsDoes
    <3>2. worker' = worker
      <4>1. g.wf \in Workflows /\ g.cb \in CB /\ Names(g.wf, g.id, g.cb)
        BY <3>1 DEF Watcher, Forms
      <4>2. g.cb.call = 0 \/ g.cb.call \in DOMAIN calls
        BY <4>1 DEF Names
      <4>3. CASE \E good \in BOOLEAN : Outcome(g.wf, g.cb, "error", good)
        BY <4>3 DEF Outcome
      <4> QED
        BY <3>1, <4>1, <4>2, <4>3, CallbackDoes DEF panic
    <3> QED
      BY <3>1, <3>2 DEF Added
  <2>10. ASSUME NEW g \in watchers, TimeoutLeaves(g)
         PROVE  seen.pending \subseteq seen'.pending /\ Added(w)
    BY <2>10, LeavesDoes DEF Added
  <2>11. ASSUME NEW m \in sent, Answer(m) PROVE seen.pending \subseteq seen'.pending /\ Added(w)
    BY <2>11, AnswerDoes DEF Added
  <2> QED
    BY <2>a, <2>1, <2>2, <2>3, <2>4, <2>5, <2>6, <2>7, <2>8, <2>9, <2>10, <2>11 DEF
       Next, Call, Receive, Watch
<1>QuietFlight.
      ASSUME NEW w, Quiet(w), NEW id \in Id, id[1] # 0, InFlight(w, id)'
      PROVE  InFlight(w, id)
    BY <1>QuietFlight DEF Quiet, InFlight
\* Who has cleared the workflow has nothing in flight.
<1>AskedKeep.
      ASSUME NEW w, Asked(w), Quiet(w), plan' = plan,
             worker'[w].stage = "none" => worker[w].stage = "none",
             worker'[w].active = worker[w].active,
             worker'[w].closed => plan.clients[w] \subseteq worker'[w].cleared,
             worker[w].active = 0 => worker'[w].cleared = worker[w].cleared,
             \A id \in Id : id[1] # 0 /\ InFlight(w, id)' /\ id[2] \in worker'[w].cleared =>
               id[2] \in worker[w].cleared
      PROVE  Asked(w)'
  <2> USE <1>AskedKeep
  <2>1. \A id \in Id : id[1] # 0 /\ InFlight(w, id)' => InFlight(w, id)
    BY <1>QuietFlight
  <2>4. ASSUME NEW id \in Id, id[1] # 0, InFlight(w, id)' PROVE AskedOnce(w, id)'
    BY <2>4, <2>1, SMTT(90) DEF AskedOnce, Quiet, Asked
  <2> QED
    BY <2>4, <2>1 DEF Asked
<1>ReadAsked.
      ASSUME Types, Types', Forms, Onward, NEW v \in Workflows, ReadReply(v),
             NEW w \in Workflows, Asked(w)
      PROVE  Asked(w)'
  <2> USE <1>ReadAsked
  <2>1. PICK m \in replies :
          /\ m.wf = v /\ ~ rx[v].busy /\ replies' = replies \ {m}
          /\ rx'[v].id = m.id /\ \A u \in Workflows : u # v => rx'[u] = rx[u]
          /\ UNCHANGED <<worker, sent>>
    BY ReadDoes, SMTT(90)
  <2>2. plan' = plan
    BY DEF Onward
  <2>3. CASE w # v
    BY <2>1, <2>2, <1>AskedKeep, <2>3 DEF Quiet, Asked
  <2>4. CASE w = v
    <3>1. \A id \in Id : id[1] # 0 /\ InFlight(w, id)' => InFlight(w, id)
      BY <2>1, <2>4 DEF InFlight
    <3>2. ASSUME NEW id \in Id, id[1] # 0, InFlight(w, id)' PROVE AskedOnce(w, id)'
      BY <2>1, <2>4, <3>1, <3>2, SMTT(90) DEF AskedOnce, Asked
    <3> QED
      BY <3>2, <2>1, <2>2, <3>1 DEF Asked
  <2> QED
    BY <2>3, <2>4
<1>AnswerAsked.
      ASSUME Types, Types', Forms, Onward, NEW m \in sent, Answer(m), NEW w \in Workflows, Asked(w)
      PROVE  Asked(w)'
  <2> USE <1>AnswerAsked
  <2>1. PICK k \in Reply :
          /\ k.wf = m.wf /\ k.id = m.id /\ sent' = sent \ {m} /\ replies' = replies \union {k}
          /\ UNCHANGED <<worker, rx>>
    BY AnswerDoes
  <2>2. plan' = plan /\ m = [wf |-> m.wf, id |-> m.id]
    BY DEF Onward, Types, Cmd
  <2>3. \A id \in Id : InFlight(w, id)' => InFlight(w, id)
    BY <2>1, <2>2 DEF InFlight
  <2>4. ASSUME NEW id \in Id, id[1] # 0, InFlight(w, id)' PROVE AskedOnce(w, id)'
    <3>1. AskedOnce(w, id)
      BY <2>3, <2>4 DEF Asked
    <3>2. id[2] \notin worker'[w].cleared
      BY <2>1, <3>1 DEF AskedOnce
    <3>3. \A i \in Id : i[1] # 0 /\ InFlight(w, i)' => i[1] = id[1] /\ i[3] = id[3]
      BY <2>3, <3>1 DEF AskedOnce
    <3>4. CASE m.wf = w /\ m.id = id
      BY <2>1, <3>2, <3>3, <3>1, <2>2, <3>4 DEF AskedOnce
    <3>5. CASE ~ (m.wf = w /\ m.id = id)
      BY <2>1, <3>5, <3>1, <3>2, <3>3 DEF AskedOnce
    <3> QED
      BY <3>4, <3>5
  <2> QED
    BY <2>4, <2>1, <2>2, <2>3 DEF Asked
\* The first call of Destroy asks each client once.
<1>DestroyAsked.
      ASSUME Types, Types', Forms, Once, Onward, NEW n \in DOMAIN calls, Destroy(n),
             NEW w \in Workflows, Asked(w), w \notin seen'.again
      PROVE  Asked(w)'
  <2> USE <1>DestroyAsked
  <2>1. PICK v, points, ids :
          /\ v = calls[n].wf
          /\ points = IF worker[v].stage = "starting" THEN {} ELSE plan.clients[v]
          /\ ids = DestroyIds(n, points, worker[v].active + 1)
    OBVIOUS
  <2>2. /\ n \in Nat /\ n # 0 /\ v \in wfMap /\ (ids = {} <=> points = {})
        /\ \E published \in SUBSET ids : deliverAsync(v, n, 0, ids, published)
        /\ seen'.again = IF worker[v].active > 0 THEN seen.again \union {v} ELSE seen.again
    BY <2>1, DestroyDoes
  <2>3. PICK published \in SUBSET ids : deliverAsync(v, n, 0, ids, published)
    BY <2>2
  <2>4. UNCHANGED <<replies, rx>> /\ sent' = sent \union {[wf |-> v, id |-> i] : i \in published}
    BY <2>3 DEF deliverAsync
  <2>5. /\ worker'[w].stage = worker[w].stage /\ worker'[w].closed = worker[w].closed
        /\ worker'[w].cleared = worker[w].cleared
        /\ w # v => worker'[w] = worker[w]
        /\ w = v => worker'[w].active = IF points = {} THEN worker[w].active ELSE worker[w].active + 1
    BY <2>1 DEF Destroy, Types, WorkerRec
  <2>6. plan' = plan
    BY DEF Onward
  <2>7. worker'[w].closed => plan.clients[w] \subseteq worker'[w].cleared
    BY <2>5 DEF Asked
  <2>8. CASE w # v \/ points = {}
    BY <2>5, <2>6, <2>7, <2>8, <1>AskedKeep, <2>2, <2>4 DEF Quiet
  <2>9. CASE w = v /\ points # {}
    <3>2. worker[w].active = 0
      BY <2>2, <2>9, SMTT(90) DEF Types, WorkerRec
    <3>3. worker[w].cleared = {} /\ \A id \in Id : id[1] # 0 => ~ InFlight(w, id)
      BY <3>2 DEF Asked
    <3>4. worker'[w].active # 0 /\ worker'[w].stage # "none"
      BY <2>2, <2>5, <2>9, <3>2, SMTT(90) DEF Once
    <3>7. ASSUME NEW id \in Id, id[1] # 0
          PROVE  /\ \A m \in replies' : ~ (m.wf = w /\ m.id = id)
                 /\ ~ (rx'[w].busy /\ rx'[w].id = id)
                 /\ InFlight(w, id)' => id \in published
      BY <2>4, <3>3, <3>7 DEF InFlight
    <3>8. ASSUME NEW id \in Id, id[1] # 0, InFlight(w, id)' PROVE AskedOnce(w, id)'
      <4>1. id[2] \notin worker'[w].cleared
        BY <2>5, <3>3
      <4>3. \A m \in replies' : ~ (m.wf = w /\ m.id = id)
        BY <3>7, <3>8
      <4> QED
        BY <4>1, <4>3, <3>7, <3>8, <2>1, <2>9, <3>2, SMTT(90) DEF AskedOnce, DestroyIds
    <3> QED
      BY <2>6, <2>7, <3>4, <3>8 DEF Asked
  <2> QED
    BY <2>8, <2>9
\* The reply that clears a client was the only one it had to give.
<1>HandleAsked.
      ASSUME Types, Types', Forms, Once, Onward, ~ panicked, ~ panicked',
             NEW v \in Workflows, HandleReply(v), NEW w \in Workflows, Asked(w)
      PROVE  Asked(w)'
  <2> USE <1>HandleAsked
  <2>1. /\ rx[v].busy /\ rx'[v] = Idle
        /\ \A u \in Workflows : u # v => rx'[u] = rx[u]
        /\ rx[v].found => Callback(v, rx[v].cb, rx[v].how)
        /\ ~ rx[v].found => UNCHANGED worker
        /\ UNCHANGED <<sent, replies>>
    BY HandleDoes
  <2>2. plan' = plan
    BY DEF Onward
  <2>3. Quiet(w) /\ (w = v => ~ rx'[w].busy)
    <3>1. ~ rx'[v].busy
      BY <2>1, SMTT(90) DEF Idle
    <3> QED
      BY <2>1, <3>1 DEF Quiet
  <2>4. CASE worker'[w] = worker[w]
    BY <2>2, <2>3, <2>4, <1>AskedKeep DEF Asked
  <2>5. CASE worker'[w] # worker[w]
    <3>2. rx[v].cb \in CB /\ Names(v, rx[v].id, rx[v].cb) /\ Callback(v, rx[v].cb, rx[v].how)
      BY <2>1, <2>5 DEF Types, Rx, Forms
    <3>3. rx[v].cb.call = 0 \/ rx[v].cb.call \in DOMAIN calls
      BY <3>2 DEF Names
    <3>4. w = v /\ worker'[w].stage = worker[w].stage /\ worker'[w].active = worker[w].active
      BY <2>5, <3>2, <3>3, CallbackDoes
    <3>5. PICK good \in BOOLEAN : Outcome(v, rx[v].cb, rx[v].how, good)
      BY <2>5, <3>2, <3>3, CallbackDoes DEF panic
    <3>6. /\ IsDestroy(rx[v].cb)
          /\ worker'[w].cleared = worker[w].cleared \union {rx[v].cb.who}
          /\ \/ worker'[w].closed = worker[w].closed
             \/ plan.clients[w] \subseteq worker[w].cleared \union {rx[v].cb.who}
      BY <2>5, <3>4, <3>5 DEF Outcome
    <3>7. rx[v].id \in Id /\ rx[v].id[1] # 0 /\ rx[v].cb.who = rx[v].id[2] /\ InFlight(w, rx[v].id)
      BY <2>1, <3>2, <3>4, <3>6 DEF Names, IsDestroy, InFlight, Types, Rx
    <3>10. ASSUME NEW id \in Id, id[1] # 0, InFlight(w, id)', id[2] \in worker'[w].cleared
           PROVE  id[2] \in worker[w].cleared
      <4>1. InFlight(w, id)
        BY <2>3, <3>10, <1>QuietFlight
      <4>2. AskedOnce(w, id)
        BY <3>10, <4>1 DEF Asked
      <4>3. rx[v].id[1] = id[1] /\ rx[v].id[3] = id[3]
        BY <3>7, <4>2 DEF AskedOnce
      <4>4. id # rx[v].id
        BY <2>1, <2>3, <3>4, <3>10, <4>2 DEF InFlight, AskedOnce
      <4>5. id[2] # rx[v].id[2]
        BY <3>7, <4>3, <4>4, SMTT(90) DEF Id
      <4> QED
        BY <3>6, <3>7, <3>10, <4>5
    <3> QED
      BY <2>2, <2>3, <3>4, <3>10, <1>AskedKeep, <3>7, <3>6 DEF Asked
  <2> QED
    BY <2>4, <2>5
<1>AskedStep.
      ASSUME Types, Types', Forms, Once, Onward, Next, ~ panicked, ~ panicked',
             NEW w \in Workflows, w \notin seen.again => Asked(w), w \notin seen'.again
      PROVE  Asked(w)'
  <2> USE <1>AskedStep
  <2>0. plan' = plan
    BY DEF Onward
  <2>a. ASSUME worker'[w] = worker[w], seen.again \subseteq seen'.again, UNCHANGED <<replies, rx>>,
               \A m \in sent' : m \in sent \/ m.id[1] = 0
        PROVE  Asked(w)'
    BY <2>0, <2>a, <1>AskedKeep DEF Asked, Quiet
  <2>1. CASE Dispatch
    <3>1. UNCHANGED <<sent, replies, rx, seen>>
      BY <2>1, DispatchDoes
    <3>2. CASE worker'[w] = worker[w]
      BY <2>a, <3>1, <3>2
    <3>3. CASE worker'[w] # worker[w]
      <4>1. /\ Head(events).cmd = "Create"
            /\ worker' = [worker EXCEPT ![Head(events).wf] = NewWorker]
        BY <2>1, <3>3, DispatchDoes
      <4>2. events \in Seq(Event) /\ events # <<>>
        BY <2>1 DEF Dispatch, Types
      <4>3. worker[Head(events).wf].stage = "none"
        BY <4>1, <4>2, SMTT(90) DEF Once
      <4>4. worker[w].stage = "none" /\ worker'[w] = NewWorker
        BY <3>3, <4>1, <4>3 DEF Types
      <4>7. /\ worker'[w].active = 0 /\ worker'[w].cleared = {} /\ ~ worker'[w].closed
        BY <4>4, SMTT(90) DEF NewWorker
      <4> QED
        BY <2>0, <4>4, <4>7, <1>AskedKeep, <3>1 DEF Asked, Quiet
    <3> QED
      BY <3>2, <3>3
  <2>2. ASSUME NEW v \in Workflows, Run(v) PROVE Asked(w)'
    <3>1. /\ \A u \in Workflows : u # v => worker'[u] = worker[u]
          /\ worker'[v].closed = worker[v].closed /\ worker'[v].active = worker[v].active
          /\ worker'[v].cleared = worker[v].cleared
          /\ worker'[v].stage = "none" => worker[v].stage = "none"
          /\ UNCHANGED <<replies, rx, seen>>
      BY <2>2, RunDoes
    <3>2. \A m \in sent' : m \in sent \/ m.id = Setup
      BY <2>2, RunDoes, SMTT(90)
    <3>3. Asked(w) /\ Quiet(w)
      BY <3>1, <3>2, SMTT(90) DEF Quiet, Setup
    <3> QED
      BY <2>0, <3>1, <3>3, <1>AskedKeep DEF Asked
  <2>3. ASSUME NEW v \in Workflows, ReadReply(v) PROVE Asked(w)'
    BY <2>3, ReadDoes, <1>ReadAsked
  <2>4. ASSUME NEW v \in Workflows, HandleReply(v) PROVE Asked(w)'
    BY <2>4, <1>HandleAsked, HandleDoes
  <2>5. ASSUME NEW n \in DOMAIN calls, Destroy(n) PROVE Asked(w)'
    BY <2>5, DestroyDoes, <1>DestroyAsked
  <2>6. ASSUME NEW n \in DOMAIN calls, Resend(n) PROVE Asked(w)'
    <3>1. PICK v, r, round :
            /\ \E published \in SUBSET {<<0, r, 1>>} :
                 deliverAsync(v, n, round, {<<0, r, 1>>}, published)
            /\ seen'.again = seen.again
      BY <2>6, ResendDoes
    <3> QED
      BY <2>a, <3>1, <2>6, SMTT(90) DEF Resend, deliverAsync
  <2>7. ASSUME NEW n \in DOMAIN calls, NoWorker(n) \/ DestroyReturns(n) \/ Fetch(n) \/ RoundEnds(n)
        PROVE  Asked(w)'
    BY <2>7, <2>a, CallMoves
  <2>8. ASSUME NEW g \in watchers, TimeUp(g) PROVE Asked(w)'
    BY <2>8, <2>a, TimeUpDoes
  <2>9. ASSUME NEW g \in watchers, TimeoutCalls(g) PROVE Asked(w)'
    <3>1. /\ g \in Watcher /\ g.found /\ Callback(g.wf, g.cb, "error")
          /\ UNCHANGED <<sent, replies, rx, seen>>
      BY <2>9, CallsDoes
    <3>2. worker' = worker
      <4>1. g.wf \in Workflows /\ g.cb \in CB /\ Names(g.wf, g.id, g.cb)
        BY <3>1 DEF Watcher, Forms
      <4>2. g.cb.call = 0 \/ g.cb.call \in DOMAIN calls
        BY <4>1 DEF Names
      <4>3. CASE \E good \in BOOLEAN : Outcome(g.wf, g.cb, "error", good)
        BY <4>3 DEF Outcome
      <4> QED
        BY <3>1, <4>1, <4>2, <4>3, CallbackDoes DEF panic
    <3> QED
      BY <2>a, <3>1, <3>2
  <2>10. ASSUME NEW g \in watchers, TimeoutLeaves(g) PROVE Asked(w)'
    BY <2>10, <2>a, LeavesDoes
  <2>11. ASSUME NEW m \in sent, Answer(m) PROVE Asked(w)'
    BY <2>11, <1>AnswerAsked, AnswerDoes
  <2> QED
    BY <2>1, <2>2, <2>3, <2>4, <2>5, <2>6, <2>7, <2>8, <2>9, <2>10, <2>11 DEF Next,
       Call, Receive, Watch
\* The panics are those of a WaitGroup below zero and of a closed channel.
<1>PanicStep.
      ASSUME Types, Types', Forms, Once, Causes, Next, ~ panicked, panicked'
      PROVE  PanicsExplained'
  <2> USE <1>PanicStep
  <2>1. ASSUME NEW w \in Workflows, NEW cb \in CB, NEW id, NEW how, Names(w, id, cb),
               Callback(w, cb, how), cb.call # 0 => Tokens(cb.call) # {}
        PROVE  seen.twice \/ (how = "success" /\ worker[w].closed)
    BY <2>1, CallbackDoes, TokenCounted DEF Names, Outcome, Causes, WhyPanic
  <2>2. ASSUME NEW w \in Workflows, HandleReply(w) PROVE PanicsExplained'
    <3>1. /\ rx[w].busy
          /\ rx[w].found => Callback(w, rx[w].cb, rx[w].how)
          /\ ~ rx[w].found => UNCHANGED panicked
          /\ seen'.twice = seen.twice /\ seen'.again = seen.again
          /\ seen.pending \subseteq seen'.pending
      BY <2>2, HandleDoes
    <3>2. rx[w].found
      BY <3>1
    <3>3. /\ rx[w].cb \in CB /\ rx[w].id \in Id /\ Names(w, rx[w].id, rx[w].cb)
          /\ Callback(w, rx[w].cb, rx[w].how)
      BY <3>1, <3>2 DEF Types, Rx, Forms
    <3>6. CASE worker[w].closed /\ w \notin seen.pending /\ w \notin seen.again
      <4>2. rx[w].id[1] # 0 /\ rx[w].cb.who = rx[w].id[2] /\ rx[w].cb.who \in plan.clients[w]
        BY <3>3, <3>2, <3>6 DEF Names, IsDestroy, Causes, Leftovers
      <4>3. Asked(w) /\ InFlight(w, rx[w].id)
        BY <3>1, <3>6 DEF Causes, InFlight
      <4> QED
        BY <3>6, <4>2, <4>3, <3>3 DEF Asked, AskedOnce
    <3> QED
      BY <3>1, <3>6, <2>1, <3>3, <3>2, TokenHeld DEF PanicsExplained
  <2>3. ASSUME NEW g \in watchers, TimeoutCalls(g) PROVE PanicsExplained'
    <3>1. /\ g \in Watcher /\ g.found /\ g.pc = "calling" /\ Callback(g.wf, g.cb, "error")
          /\ seen' = seen
      BY <2>3, CallsDoes
    <3>4. PICK w, cb, id, how : w = g.wf /\ cb = g.cb /\ id = g.id /\ how = "error"
      OBVIOUS
    <3> QED
      BY <3>1, <3>4, <2>1, TokenHeld, SMTT(90) DEF PanicsExplained, Watcher, Forms
  <2>4. ASSUME NEW n \in DOMAIN calls, Call(n) PROVE panicked' = panicked
    BY <2>4 DEF Call, Destroy, NoWorker, DestroyReturns, Fetch, Resend, RoundEnds
  <2>5. ASSUME NEW g \in watchers, TimeUp(g) \/ TimeoutLeaves(g) PROVE panicked' = panicked
    BY <2>5 DEF TimeUp, TimeoutLeaves
  <2>6. ASSUME NEW w \in Workflows, Run(w) \/ ReadReply(w) PROVE panicked' = panicked
    BY <2>6 DEF Run, RunStarts, RunFails, RunEnds, ConnCloses, ReadReply
  <2> QED
    BY <2>2, <2>3, <2>4, <2>5, <2>6 DEF Next, Receive, Watch, Dispatch, Answer
<1>CausesInit. Init => Causes
  <2> SUFFICES ASSUME Init PROVE Causes
    OBVIOUS
  <2> QED
    BY SMTT(90) DEF Causes, Leftovers, PanicsExplained, Counts, Single, Asked, InFlight, Idle, Absent,
       NewWorker, Init
<1>CausesStutter.
      ASSUME Causes, UNCHANGED vars
      PROVE  Causes'
  <2> USE <1>CausesStutter
  <2>1. UNCHANGED <<plan, worker, calls, requests, sent, replies, watchers, rx, panicked, seen>>
    BY DEF vars
  <2>3. Counts' <=> Counts
    BY <2>1 DEF Spent, Tokens, Single, Counted, Counts
  <2>5. \A w \in Workflows : Asked(w)' <=> Asked(w)
    <3>1. \A w, id : InFlight(w, id)' <=> InFlight(w, id)
      BY <2>1 DEF InFlight
    <3>2. \A w, id : AskedOnce(w, id)' <=> AskedOnce(w, id)
      BY <2>1, <3>1 DEF AskedOnce
    <3> QED
      BY <2>1, <3>1, <3>2 DEF Asked
  <2> QED
    BY <2>1, <2>3, <2>5 DEF Causes, Leftovers, IsDestroy, PanicsExplained
<1>1. Inv /\ Inv' /\ Causes /\ [Next]_vars => Causes'
  BY GoesOnward, <1>PanicStep, CountsStep, <1>LeftoversStep, <1>AskedStep, <1>CausesStutter DEF
     Inv, Causes, PanicsExplained
<1>2. Causes => PanicsExplained
  BY DEF Causes
<1> QED
  BY <1>1, <1>2, <1>CausesInit, InvAlways, PTL DEF Spec

=============================================================================
