-------------------------- MODULE WorkerEnd_proofs --------------------------
(***************************************************************************)
(* Proofs about WorkerEnd: what Destroy and Recover of a worker do,        *)
(* whatever the replies, the timeouts and the failures, and in whatever    *)
(* order they come.                                                        *)
(***************************************************************************)
EXTENDS WorkerEnd, FiniteSetTheorems, TLAPS

(* Zenon proves what no other prover is named for.                         *)
USE ZenonT(90)

Event == [cmd : {"Create", "Delete", "Recover"}, wf : Workflows]
Id == Nat \X Nat \X Nat
CB == [call : Nat, who : Nat]
WorkerRec == [stage : {"none", "starting", "running", "ended"},
              conn : {"none", "open", "closed"}, closed : BOOLEAN, active : Nat,
              cleared : SUBSET Nat]
CallRec == [wf : Workflows, cmd : {"Delete", "Recover"},
            at : {"begun", "waiting", "sending", "fetching", "returned"},
            wait : Nat, ok : BOOLEAN, todo : SUBSET Nat, e : Nat, round : Nat]
Req == [wf : Workflows, id : Id, cb : CB]
Cmd == [wf : Workflows, id : Id]
Reply == [wf : Workflows, id : Id, how : {"success", "fault"}]
Watcher == [wf : Workflows, id : Id, call : Nat, round : Nat,
            pc : {"waiting", "calling", "leaving"}, found : BOOLEAN, cb : CB]
Rx == [id : Id, cb : CB, found : BOOLEAN, how : {"success", "fault"}, busy : BOOLEAN]
Seen == [again : SUBSET Workflows, blank : SUBSET Workflows, pending : SUBSET Workflows,
         stuck : SUBSET Nat, twice : BOOLEAN, did : [Workflows -> SUBSET Nat],
         answered : [Workflows -> SUBSET Nat]]

Types ==
  /\ plan \in Plans /\ events \in Seq(Event)
  /\ wfMap \subseteq Workflows /\ dropped \subseteq Workflows
  /\ worker \in [Workflows -> WorkerRec] /\ open \in [Workflows -> SUBSET Nat]
  /\ calls \in Seq(CallRec)
  /\ requests \subseteq Req /\ sent \subseteq Cmd /\ replies \subseteq Reply
  /\ watchers \subseteq Watcher /\ rx \in [Workflows -> Rx]
  /\ faults \in Nat /\ panicked \in BOOLEAN /\ seen \in Seen

\* The callback cb belongs to the DeliverID id: it is of a setup command, or
\* of a call that has begun to send; the DeliverIDs of Destroy are its own,
\* those of Recover are the records'.
Names(w, id, cb) ==
  \/ cb.call = 0 /\ id = Setup
  \/ /\ cb.call \in DOMAIN calls /\ calls[cb.call].wf = w /\ calls[cb.call].at # "begun"
     /\ cb.who = id[2]
     /\ calls[cb.call].cmd = "Delete" =>
          /\ id[1] = cb.call /\ cb.who \in plan.clients[w]
          /\ worker[w].stage \notin {"none", "starting"}
     /\ calls[cb.call].cmd = "Recover" => id[1] = 0 /\ id # Setup

\* The DeliverID is not one a call of Destroy is still to make.
Known(w, id) ==
  \/ id[1] = 0
  \/ /\ id[1] \in DOMAIN calls /\ calls[id[1]].wf = w /\ calls[id[1]].at # "begun"
     /\ calls[id[1]].cmd = "Delete"

\* What a successful reply says of the client or of the record.
Replied(w, id) ==
  /\ id[1] # 0 => id[2] \in seen.did[w]
  /\ id[1] = 0 /\ id # Setup => id[2] \in seen.answered[w]

Forms ==
  /\ \A r \in requests : Names(r.wf, r.id, r.cb) /\ Known(r.wf, r.id)
  /\ \A m \in sent : Known(m.wf, m.id)
  /\ \A m \in replies : Known(m.wf, m.id) /\ (m.how = "success" => Replied(m.wf, m.id))
  /\ \A g \in watchers :
       /\ Known(g.wf, g.id)
       /\ g.pc = "calling" => g.found
       /\ g.pc = "waiting" => ~ g.found
       /\ g.found => Names(g.wf, g.id, g.cb)
  /\ \A w \in Workflows :
       /\ rx[w].found => rx[w].busy /\ Names(w, rx[w].id, rx[w].cb)
       /\ rx[w].busy => Known(w, rx[w].id)
       /\ rx[w].busy /\ rx[w].how = "success" => Replied(w, rx[w].id)

\* A worker is created once, and no call waits for one that is not there.
Once ==
  /\ \A i \in 1..Len(events) : events[i].cmd = "Create" => worker[events[i].wf].stage = "none"
  /\ \A i, j \in 1..Len(events) : events[i].cmd = "Create" /\ events[j] = events[i] => i = j
  /\ \A w \in wfMap : worker[w].stage # "none"
  /\ \A n \in DOMAIN calls :
       /\ calls[n].at \notin {"begun", "returned"} => worker[calls[n].wf].stage # "none"
       /\ calls[n].at = "waiting" => calls[n].cmd = "Delete"
       /\ calls[n].at \in {"sending", "fetching"} => calls[n].cmd = "Recover"
  /\ \A w \in Workflows : worker[w].closed => worker[w].stage \notin {"none", "starting"}

\* What is cleared was done by the client.
Cleanly ==
  /\ \A w \in Workflows : worker[w].cleared \subseteq seen.did[w]
  /\ DroppedWasCleared

Inv == Types /\ Forms /\ Once /\ Cleanly

-----------------------------------------------------------------------------
\* The DeliverIDs of the requests of a call.
Ids(n) == {r.id : r \in {q \in requests : q.cb.call = n}}

\* The DeliverIDs whose callback a success of the call can still come to.
Hopes(n) == Ids(n) \union {rx[w].id : w \in {v \in Workflows : rx[v].found /\ rx[v].cb.call = n}}

\* A call of Recover sends the records of a round in their order, and begins
\* another round only when nothing of the last one is left.
Rounds(n) ==
  /\ \A r \in requests : r.cb.call = n => r.cb.who <= calls[n].e
  /\ \A w \in Workflows : rx[w].found /\ rx[w].cb.call = n => rx[w].cb.who <= calls[n].e
  /\ calls[n].at \in {"begun", "fetching"} => Hopes(n) = {}
  /\ calls[n].at = "sending" =>
       Hopes(n) = {} \/ \A r \in calls[n].todo : calls[n].e < r
  /\ calls[n].ok => IsFiniteSet(Hopes(n)) /\ Cardinality(Hopes(n)) <= calls[n].wait

Marks ==
  /\ RecoveredExplained
  /\ ~ panicked => \A n \in DOMAIN calls : calls[n].cmd = "Recover" => Rounds(n)

-----------------------------------------------------------------------------
(* What the operators do.                                                  *)

\* Why a callback panics.
WhyPanic(w, cb, how) ==
  \/ cb.call # 0 /\ calls[cb.call].wait = 0
  \/ how = "success" /\ worker[w].closed

Clears(w, cb, closed) ==
  worker' = [worker EXCEPT ![w].cleared = worker[w].cleared \union {cb.who},
                           ![w].closed = closed]

\* What a callback does that does not panic.
Passed(w, cb, how, good) ==
  /\ cb.call # 0 /\ calls[cb.call].wait # 0
  /\ Done(cb, good) /\ (good => how = "success")
  /\ panicked' = panicked /\ (faults' = faults \/ (faults > 0 /\ faults' = faults - 1))
  /\ \/ ~ good /\ UNCHANGED <<worker, dropped, open>>
     \/ /\ IsDestroy(cb) /\ how = "success" /\ Clears(w, cb, worker[w].closed)
        /\ good => ~ (plan.clients[w] \subseteq worker[w].cleared \union {cb.who})
        /\ UNCHANGED <<dropped, open>>
     \/ /\ IsDestroy(cb) /\ how = "success" /\ Clears(w, cb, TRUE)
        /\ plan.clients[w] \subseteq worker[w].cleared \union {cb.who}
        /\ ~ worker[w].closed /\ dropped' = dropped \union {w} /\ UNCHANGED open
     \/ /\ ~ IsDestroy(cb) /\ how = "success" /\ UNCHANGED <<worker, dropped>>
        /\ open' = [open EXCEPT ![w] = @ \ {calls[cb.call].e}]

\* A callback panics, or is one of a setup command and does nothing here, or
\* counts down the WaitGroup of its call.
LEMMA CallbackCases ==
    ASSUME NEW w, NEW cb, NEW how, Callback(w, cb, how)
    PROVE  \/ panic /\ WhyPanic(w, cb, how)
           \/ cb.call = 0 /\ UNCHANGED <<worker, dropped, open, calls, faults, panicked>>
           \/ \E good \in BOOLEAN : Passed(w, cb, how, good)
BY DEF Callback, SetupReplied, WhyPanic, DestroyReplied, Passed, Cleared, Clears,
   RecoverReplied

\* One call is changed, and is still a call of the same worker.
Changed(n) ==
  /\ calls' \in Seq(CallRec) /\ DOMAIN calls' = DOMAIN calls
  /\ \A k \in DOMAIN calls : k # n => calls'[k] = calls[k]
  /\ calls'[n].wf = calls[n].wf /\ calls'[n].cmd = calls[n].cmd

\* A call of the sequence may be replaced by another.
LEMMA CallReplaced ==
    ASSUME calls \in Seq(CallRec), NEW n \in DOMAIN calls, NEW v \in CallRec,
           v.wf = calls[n].wf, v.cmd = calls[n].cmd, calls' = [calls EXCEPT ![n] = v]
    PROVE  Changed(n) /\ calls'[n] = v
BY SMTT(90) DEF Changed

\* The WaitGroup of a call is counted down, and its failure kept.
LEMMA DoneDoes ==
    ASSUME calls \in Seq(CallRec), NEW cb, cb.call \in DOMAIN calls, calls[cb.call].wait # 0,
           NEW good \in BOOLEAN, Done(cb, good)
    PROVE  /\ Changed(cb.call)
           /\ calls'[cb.call].at = calls[cb.call].at /\ calls'[cb.call].e = calls[cb.call].e
           /\ calls'[cb.call].todo = calls[cb.call].todo
           /\ calls'[cb.call].wait = calls[cb.call].wait - 1
           /\ calls'[cb.call].ok => calls[cb.call].ok /\ good
<1> DEFINE n == cb.call
<1>1. calls[n] \in CallRec
  BY SMTT(90)
<1>2. PICK b \in BOOLEAN : b = (calls[n].ok /\ good)
  OBVIOUS
<1>3. PICK k \in Nat : k = calls[n].wait - 1
  BY <1>1, SMTT(90) DEF CallRec
<1>4. PICK v : v = [calls[n] EXCEPT !.wait = k, !.ok = b]
  OBVIOUS
<1>5. v \in CallRec /\ v.wf = calls[n].wf /\ v.cmd = calls[n].cmd
  BY <1>1, <1>4 DEF CallRec
<1>7. calls' = [calls EXCEPT ![n] = v]
  BY <1>2, <1>3, <1>4 DEF Done
<1> QED
  BY <1>2, <1>3, <1>1, <1>4, <1>5, <1>7, CallReplaced DEF CallRec

\* The least of a set of numbers is in it.
LEMMA FirstIsLeast ==
    ASSUME NEW T \in SUBSET Nat, T # {}
    PROVE  First(T) \in T /\ \A y \in T : First(T) <= y
<1> DEFINE R == OpToRel(<, Nat)
<1>1. IsWellFoundedOn(R, Nat)
  BY NatLessThanWellFounded
<1>2. \A x, y \in Nat : x < y => <<x, y>> \in R
  BY DEF OpToRel
<1> HIDE DEF R
<1>3. PICK x \in T : \A y \in T : ~ (<<y, x>> \in R)
  BY <1>1, WFMin
<1>4. ASSUME NEW y \in T PROVE x <= y
  <2>1. x \in Nat /\ y \in Nat
    OBVIOUS
  <2>2. ~ (y < x)
    BY <1>2, <1>3, <2>1
  <2> QED
    BY <2>1, <2>2, SMTT(90)
<1> QED
  BY <1>4 DEF First

\* The DeliverIDs of a call of Destroy are finitely many.
LEMMA DestroyIdsFinite ==
    ASSUME NEW n \in Nat, NEW P \in SUBSET Nat, IsFiniteSet(P), NEW k \in Nat
    PROVE  /\ IsFiniteSet(DestroyIds(n, P, k)) /\ Cardinality(DestroyIds(n, P, k)) \in Nat
           /\ DestroyIds(n, P, k) \subseteq Id
<1> DEFINE S == P \X (1..k)
           T == DestroyIds(n, P, k)
           f == [x \in S |-> <<n, x[1], x[2]>>]
<1>1. IsFiniteSet(S)
  <2>1. IsFiniteSet(1..k)
    BY FS_Interval, SMTT(90)
  <2> QED
    BY <2>1, FS_Product
<1>2. f \in Surjection(S, T)
  <2>1. ASSUME NEW x \in S PROVE f[x] \in T
    <3>1. f[x] = <<n, x[1], x[2]>> /\ x[1] \in P /\ x[2] \in 1..k
      OBVIOUS
    <3>2. \A c \in P, i \in 1..k : <<n, c, i>> \in T
      BY SMTT(90) DEF DestroyIds
    <3> HIDE DEF f, T
    <3> QED
      BY <3>1, <3>2
  <2>2. ASSUME NEW t \in T PROVE \E x \in S : f[x] = t
    <3>1. PICK c \in P, i \in 1..k : t = <<n, c, i>>
      BY SMTT(90) DEF DestroyIds
    <3>2. <<c, i>> \in S /\ f[<<c, i>>] = t
      BY <3>1
    <3> QED
      BY <3>2
  <2> HIDE DEF S, T
  <2>3. f \in [S -> T]
    BY <2>1
  <2> HIDE DEF f
  <2> QED
    BY <2>2, <2>3 DEF Surjection
<1>3. IsFiniteSet(T)
  <2> HIDE DEF S, T, f
  <2> QED
    BY <1>1, <1>2, FS_Surjection
<1>4. ASSUME NEW t \in T PROVE t \in Id
  <2>1. PICK c \in P, i \in 1..k : t = <<n, c, i>>
    BY SMTT(90) DEF DestroyIds
  <2> QED
    BY <2>1, SMTT(90) DEF Id
<1> QED
  BY <1>3, <1>4, FS_CardinalityType

\* What deliverAsync leaves is of the right form.
LEMMA DeliverTypes ==
    ASSUME Types, NEW w \in Workflows, NEW n \in Nat, NEW round \in Nat, NEW ids \in SUBSET Id,
           NEW published \in SUBSET ids, deliverAsync(w, n, round, ids, published)
    PROVE  /\ requests' \subseteq Req /\ sent' \subseteq Cmd /\ watchers' \subseteq Watcher
           /\ faults' \in Nat /\ replies' = replies /\ rx' = rx
<1>5. ASSUME NEW g \in watchers' PROVE g \in Watcher
  <2>1. CASE g \in watchers
    BY <2>1 DEF Types
  <2>2. CASE g \notin watchers
    <3>1. PICK i \in published : g = [wf |-> w, id |-> i, call |-> n, round |-> round,
                                     pc |-> "waiting", found |-> FALSE, cb |-> None]
      BY <2>2 DEF deliverAsync
    <3> QED
      BY <3>1 DEF Watcher, None, CB
  <2> QED
    BY <2>1, <2>2
<1> QED
  BY <1>5, SMTT(90) DEF deliverAsync, Types, Cmd, Req, CB, Id

\* Worker.Destroy.
LEMMA DestroyDoes ==
    ASSUME Types, NEW n \in DOMAIN calls, Destroy(n)
    PROVE  LET w == calls[n].wf
               points == IF worker[w].stage = "starting" THEN {} ELSE plan.clients[w]
               ids == DestroyIds(n, points, worker[w].active + 1)
           IN /\ Types' /\ Changed(n) /\ n \in Nat /\ n # 0
              /\ calls[n].at = "begun" /\ calls[n].cmd = "Delete" /\ w \in wfMap
              /\ calls'[n].at = "waiting" /\ calls'[n].ok = calls[n].ok
              /\ IsFiniteSet(ids) /\ calls'[n].wait = Cardinality(ids)
              /\ ids = {} <=> points = {}
              /\ \E published \in SUBSET ids : deliverAsync(w, n, 0, ids, published)
              /\ seen'.twice = seen.twice /\ seen'.did = seen.did
              /\ seen'.answered = seen.answered /\ seen'.pending = seen.pending
              /\ seen'.again = IF worker[w].active > 0 THEN seen.again \union {w} ELSE seen.again
              /\ seen'.blank = IF points = {} THEN seen.blank \union {w} ELSE seen.blank
<1> DEFINE w == calls[n].wf
           points == IF worker[w].stage = "starting" THEN {} ELSE plan.clients[w]
           k == worker[w].active + 1
           ids == DestroyIds(n, points, k)
<1>1. n \in Nat /\ n # 0 /\ calls[n] \in CallRec /\ w \in Workflows /\ k \in Nat
      /\ worker[w] \in WorkerRec
  <2>1. n \in Nat /\ n # 0 /\ calls[n] \in CallRec
    BY SMTT(90) DEF Types
  <2>2. w \in Workflows
    BY <2>1 DEF CallRec
  <2> QED
    BY <2>1, <2>2, SMTT(90) DEF WorkerRec, Types
<1>3. IsFiniteSet(ids) /\ Cardinality(ids) \in Nat /\ ids \subseteq Id
  BY <1>1, DestroyIdsFinite, PlansAssumption, FS_EmptySet DEF Types
<1>4. ids = {} <=> points = {}
  <2>2. \A c \in points : <<n, c, 1>> \in ids
    BY <1>1, SMTT(90) DEF DestroyIds, WorkerRec
  <2>3. points = {} => ids = {}
    BY SMTT(90) DEF DestroyIds
  <2> HIDE DEF ids
  <2> QED
    BY <2>2, <2>3
<1>5. /\ calls[n].cmd = "Delete" /\ calls[n].at = "begun" /\ w \in wfMap
      /\ worker' = [worker EXCEPT ![w].active = IF points = {} THEN @ ELSE k]
      /\ calls' = [calls EXCEPT ![n].at = "waiting", ![n].wait = Cardinality(ids)]
      /\ UNCHANGED <<plan, events, wfMap, dropped, open, panicked>>
  BY DEF Destroy
<1>6. PICK published \in SUBSET ids :
        /\ deliverAsync(w, n, 0, ids, published)
        /\ seen' = [seen EXCEPT
             !.stuck = IF published = ids THEN @ ELSE @ \union {n},
             !.again = IF worker[w].active > 0 THEN @ \union {w} ELSE @,
             !.blank = IF points = {} THEN @ \union {w} ELSE @]
  BY DEF Destroy
<1> HIDE DEF ids
<1>7. /\ Changed(n) /\ calls'[n].at = "waiting" /\ calls'[n].ok = calls[n].ok
      /\ calls'[n].wait = Cardinality(ids)
  <2>1. PICK v : v = [calls[n] EXCEPT !.at = "waiting", !.wait = Cardinality(ids)]
    OBVIOUS
  <2>4. calls' = [calls EXCEPT ![n] = v]
    BY <1>5, <2>1
  <2> QED
    BY <2>4, CallReplaced, <1>1, <1>3, <2>1 DEF Types, CallRec
<1>8. /\ requests' \subseteq Req /\ sent' \subseteq Cmd /\ watchers' \subseteq Watcher
      /\ faults' \in Nat /\ replies' = replies /\ rx' = rx
  BY <1>1, <1>3, <1>6, DeliverTypes
<1>10. /\ seen' \in Seen
       /\ seen'.twice = seen.twice /\ seen'.did = seen.did
       /\ seen'.answered = seen.answered /\ seen'.pending = seen.pending
       /\ seen'.again = IF worker[w].active > 0 THEN seen.again \union {w} ELSE seen.again
       /\ seen'.blank = IF points = {} THEN seen.blank \union {w} ELSE seen.blank
  BY <1>1, <1>6 DEF Types, Seen
<1> QED
  BY <1>1, <1>3, <1>4, <1>5, <1>6, <1>7, <1>10, <1>8 DEF ids, Types, Changed,
     WorkerRec

\* Worker.Recover sends one record of the round.
LEMMA ResendDoes ==
    ASSUME Types, NEW n \in DOMAIN calls, Resend(n)
    PROVE  LET w == calls[n].wf
               r == First(calls[n].todo)
           IN /\ Types' /\ Changed(n) /\ n \in Nat /\ n # 0
              /\ calls[n].at = "sending" /\ calls[n].todo # {} /\ r \in Nat
              /\ calls'[n].at = "sending" /\ calls'[n].ok = calls[n].ok
              /\ calls'[n].e = r /\ calls'[n].todo = calls[n].todo \ {r}
              /\ calls'[n].wait = calls[n].wait + 1
              /\ \E published \in SUBSET {<<0, r, 1>>} :
                   deliverAsync(w, n, calls[n].round, {<<0, r, 1>>}, published)
              /\ seen'.twice = seen.twice /\ seen'.did = seen.did
              /\ seen'.answered = seen.answered /\ seen'.again = seen.again
              /\ seen'.blank = seen.blank
              /\ seen'.pending = IF worker[w].closed THEN seen.pending \union {w}
                                 ELSE seen.pending
<1> DEFINE w == calls[n].wf
           r == First(calls[n].todo)
           ids == {<<0, r, 1>>}
<1>1. /\ calls[n].at = "sending" /\ calls[n].todo # {}
      /\ calls' = [calls EXCEPT ![n].todo = @ \ {r}, ![n].e = r, ![n].wait = @ + 1]
      /\ UNCHANGED <<plan, events, wfMap, worker, dropped, open, panicked>>
  BY DEF Resend
<1>2. PICK published \in SUBSET ids :
        /\ deliverAsync(w, n, calls[n].round, ids, published)
        /\ seen' = [seen EXCEPT !.stuck = IF published = ids THEN @ ELSE @ \union {n},
                                !.pending = IF worker[w].closed THEN @ \union {w} ELSE @]
  BY DEF Resend
<1>3. n \in Nat /\ n # 0 /\ calls[n] \in CallRec
  BY SMTT(90) DEF Types
<1>4. w \in Workflows /\ calls[n].round \in Nat /\ calls[n].wait \in Nat
      /\ calls[n].todo \in SUBSET Nat
  BY <1>3 DEF CallRec
<1>5. r \in Nat
  BY <1>1, <1>4, FirstIsLeast
<1> HIDE DEF r
<1>6. ids \subseteq Id
  BY <1>5, SMTT(90) DEF Id
<1>7. /\ requests' \subseteq Req /\ sent' \subseteq Cmd /\ watchers' \subseteq Watcher
      /\ faults' \in Nat /\ replies' = replies /\ rx' = rx
  <2> HIDE DEF ids
  <2> QED
    BY <1>2, <1>3, <1>4, <1>6, DeliverTypes
<1>8. /\ Changed(n) /\ calls'[n].at = "sending" /\ calls'[n].ok = calls[n].ok
      /\ calls'[n].e = r /\ calls'[n].todo = calls[n].todo \ {r}
      /\ calls'[n].wait = calls[n].wait + 1
  <2>0. PICK k \in Nat : k = calls[n].wait + 1
    BY <1>4, SMTT(90)
  <2>1. PICK v : v = [calls[n] EXCEPT !.todo = calls[n].todo \ {r}, !.e = r, !.wait = k]
    OBVIOUS
  <2>4. calls' = [calls EXCEPT ![n] = v]
    BY <1>1, <2>0, <2>1
  <2>5. Changed(n) /\ calls'[n] = v
    BY <2>4, CallReplaced, <1>3, <1>4, <1>5, <2>1 DEF Types, CallRec
  <2> QED
    BY <1>1, <2>0, <2>5, <1>3, <2>1 DEF CallRec
<1>9. /\ seen' \in Seen /\ seen'.twice = seen.twice /\ seen'.did = seen.did
      /\ seen'.answered = seen.answered /\ seen'.again = seen.again
      /\ seen'.blank = seen.blank
      /\ seen'.pending = IF worker[w].closed THEN seen.pending \union {w} ELSE seen.pending
  BY <1>2, <1>3, <1>4 DEF Types, Seen
<1> QED
  BY <1>1, <1>2, <1>3, <1>5, <1>8, <1>9, <1>7 DEF r, Types, Changed

\* The other steps of a call change only where it stands.
LEMMA CallMoves ==
    ASSUME Types, NEW n \in DOMAIN calls,
           NoWorker(n) \/ DestroyReturns(n) \/ Fetch(n) \/ RoundEnds(n)
    PROVE  /\ Types' /\ Changed(n) /\ n \in Nat /\ n # 0
           /\ calls'[n].wait = calls[n].wait /\ calls'[n].e = calls[n].e
           /\ calls'[n].ok => calls[n].ok
           /\ calls'[n].at \in {"returned", "sending", "fetching"}
           /\ calls'[n].at = "sending" => Fetch(n) /\ calls'[n].cmd = "Recover"
           /\ calls'[n].at = "fetching" =>
                /\ RoundEnds(n) /\ calls[n].at = "sending" /\ calls[n].ok
                /\ calls[n].wait = 0
           /\ UNCHANGED <<plan, events, worker, dropped, open, requests, sent, replies, watchers,
                          rx, faults, panicked, seen>>
<1>1. n \in Nat /\ n # 0 /\ calls[n] \in CallRec
  BY SMTT(90) DEF Types
<1>2. /\ wfMap' \subseteq Workflows
      /\ UNCHANGED <<plan, events, worker, dropped, open, requests, sent, replies, watchers,
                     rx, faults, panicked, seen>>
  BY DEF NoWorker, DestroyReturns, Fetch, RoundEnds, Types, link
<1>3. CASE NoWorker(n)
  <2>1. PICK v : v = [calls[n] EXCEPT !.at = "returned", !.ok = FALSE]
    OBVIOUS
  <2>4. calls' = [calls EXCEPT ![n] = v]
    BY <1>3, <2>1 DEF NoWorker
  <2>5. Changed(n) /\ calls'[n] = v
    BY <2>4, CallReplaced, <1>1, <2>1 DEF Types, CallRec
  <2>6. Types'
    BY <1>2, <2>5 DEF Types, Changed
  <2> QED
    BY <1>1, <1>2, <2>5, <2>6, <2>1 DEF CallRec
<1>4. CASE DestroyReturns(n) \/ RoundEnds(n) \/ (Fetch(n) /\ open[calls[n].wf] = {})
  <2>0. PICK a \in {"returned", "fetching"} :
          /\ calls' = [calls EXCEPT ![n].at = a]
          /\ a = "fetching" => /\ RoundEnds(n) /\ calls[n].at = "sending" /\ calls[n].ok
                               /\ calls[n].wait = 0
    BY <1>4 DEF DestroyReturns, Fetch, RoundEnds
  <2>1. PICK v : v = [calls[n] EXCEPT !.at = a]
    OBVIOUS
  <2>5. Changed(n) /\ calls'[n] = v
    BY CallReplaced, <1>1, <2>1, <2>0 DEF Types, CallRec
  <2> QED
    BY <1>1, <1>2, <2>0, <2>5, <2>1 DEF CallRec, Types, Changed
<1>5. CASE Fetch(n) /\ open[calls[n].wf] # {}
  <2>0. calls[n].wf \in Workflows /\ calls[n].round \in Nat
    BY <1>1 DEF CallRec
  <2>b. PICK k \in Nat : k = calls[n].round + 1
    BY <2>0, SMTT(90)
  <2>1. PICK v : v = [calls[n] EXCEPT !.at = "sending", !.todo = open[calls[n].wf], !.round = k]
    OBVIOUS
  <2>3. v.at = "sending" /\ v.ok = calls[n].ok /\ v.wait = calls[n].wait /\ v.e = calls[n].e
    BY <1>1, <2>1 DEF CallRec
  <2>4. calls' = [calls EXCEPT ![n] = v] /\ calls[n].cmd = "Recover"
    BY <1>5, <2>1, <2>b DEF Fetch
  <2> QED
    BY <1>1, <1>2, <1>5, <2>3, <2>4, CallReplaced, <2>1, <2>0 DEF Types, Changed,
       CallRec
<1> QED
  BY <1>3, <1>4, <1>5

\* The pool creates a worker, or begins a call.
LEMMA DispatchDoes ==
    ASSUME Types, Dispatch
    PROVE  /\ Types' /\ events # <<>> /\ Head(events) \in Event /\ events' = Tail(events)
           /\ \/ /\ Head(events).cmd = "Create" /\ calls' = calls
                 /\ worker' = [worker EXCEPT ![Head(events).wf] = NewWorker]
                 /\ wfMap' = wfMap \union {Head(events).wf}
              \/ /\ worker' = worker /\ wfMap' = wfMap
                 /\ Len(calls) \in Nat /\ DOMAIN calls = 1..Len(calls)
                 /\ DOMAIN calls' = 1..(Len(calls) + 1)
                 /\ \A k \in DOMAIN calls : calls'[k] = calls[k]
                 /\ calls'[Len(calls) + 1] = NewCall(Head(events))
           /\ UNCHANGED <<plan, dropped, open, requests, sent, replies, watchers, rx, faults,
                          panicked, seen>>
<1>1. events # <<>> /\ events' = Tail(events) /\ events \in Seq(Event)
  BY DEF Dispatch, Types
<1>2. Head(events) \in Event /\ events' \in Seq(Event)
  BY <1>1, SMTT(90)
<1>3. UNCHANGED <<plan, dropped, open, requests, sent, replies, watchers, rx, faults,
                  panicked, seen>>
  BY DEF Dispatch, link
<1>4. PICK e \in Event : e = Head(events)
  BY <1>2
<1>5. CASE e.cmd = "Create"
  <2>1. /\ wfMap' = wfMap \union {e.wf} /\ calls' = calls
        /\ worker' = [worker EXCEPT ![e.wf] = NewWorker]
    BY <1>4, <1>5 DEF Dispatch
  <2> QED
    BY <1>1, <1>2, <1>3, <1>4, <1>5, <2>1 DEF Types, NewWorker, WorkerRec, Event
<1>6. CASE e.cmd # "Create"
  <2>1. worker' = worker /\ wfMap' = wfMap /\ calls' = Append(calls, NewCall(e))
    BY <1>4, <1>6 DEF Dispatch
  <2>3. PICK v \in CallRec : v = NewCall(e)
    BY <1>6 DEF NewCall, CallRec, Event
  <2> QED
    BY <1>1, <1>2, <1>3, <1>4, <2>1, <2>3, SMTT(90) DEF Types
<1> QED
  BY <1>5, <1>6

\* The steps of Run and of the connection.
LEMMA RunDoes ==
    ASSUME Types, NEW w \in Workflows, Run(w)
    PROVE  /\ Types'
           /\ \A v \in Workflows : v # w => worker'[v] = worker[v]
           /\ worker'[w].closed = worker[w].closed /\ worker'[w].active = worker[w].active
           /\ worker'[w].cleared = worker[w].cleared
           /\ worker[w].stage = "none" => worker'[w].stage = "none"
           /\ \/ worker'[w].stage = worker[w].stage
              \/ worker[w].stage # "none" /\ worker'[w].stage \notin {"none", "starting"}
           /\ worker'[w].stage \in {"starting", "running"} =>
                worker[w].stage \in {"starting", "running"} /\ wfMap' = wfMap
           /\ wfMap' \subseteq wfMap
           /\ \A v \in wfMap \ wfMap' : v = w
           /\ \/ RunStarts(w) /\ worker[w].stage = "starting"
                 /\ requests' = requests \union {[wf |-> w, id |-> Setup, cb |-> None]}
                 /\ sent' = sent \union {[wf |-> w, id |-> Setup]}
              \/ requests' = requests /\ sent' = sent
           /\ UNCHANGED <<plan, events, dropped, open, calls, replies, watchers, rx, panicked, seen>>
<1>1. worker[w] \in WorkerRec
  BY DEF Types
<1>2. UNCHANGED <<plan, events, dropped, open, calls, replies, watchers, rx, panicked, seen>>
  BY DEF Run, RunStarts, RunFails, RunEnds, ConnCloses, link
<1>3. faults' \in Nat
  BY SMTT(90) DEF Run, RunStarts, RunFails, RunEnds, ConnCloses, Types
<1>4. wfMap' \subseteq wfMap /\ (\A v \in wfMap \ wfMap' : v = w)
  BY DEF Run, RunStarts, RunFails, RunEnds, ConnCloses
<1>5. /\ \/ RunStarts(w) /\ worker[w].stage = "starting"
            /\ requests' = requests \union {[wf |-> w, id |-> Setup, cb |-> None]}
            /\ sent' = sent \union {[wf |-> w, id |-> Setup]}
         \/ requests' = requests /\ sent' = sent
  BY DEF Run, RunStarts, RunFails, RunEnds, ConnCloses, link
<1>7. PICK s \in {"none", "starting", "running", "ended"}, c \in {"none", "open", "closed"} :
        /\ worker' = [worker EXCEPT ![w] = [worker[w] EXCEPT !.stage = s, !.conn = c]]
        /\ \/ s \in {"running", "ended"} /\ worker[w].stage \in {"starting", "running"}
           \/ s = worker[w].stage
        /\ s \in {"starting", "running"} =>
             worker[w].stage \in {"starting", "running"} /\ wfMap' = wfMap
  <2>1. CASE RunStarts(w)
    BY <2>1 DEF RunStarts
  <2>2. CASE RunFails(w) \/ RunEnds(w)
    <3>1. worker' = [worker EXCEPT ![w] = [worker[w] EXCEPT !.stage = "ended",
                                                            !.conn = worker[w].conn]]
      BY <1>1, <2>2 DEF RunFails, RunEnds, WorkerRec, Types
    <3> QED
      BY <1>1, <2>2, <3>1 DEF RunFails, RunEnds, WorkerRec
  <2>3. CASE ConnCloses(w)
    <3>1. worker' = [worker EXCEPT ![w] = [worker[w] EXCEPT !.stage = worker[w].stage,
                                                            !.conn = "closed"]]
      BY <1>1, <2>3 DEF ConnCloses, WorkerRec, Types
    <3> QED
      BY <1>1, <2>3, <3>1 DEF ConnCloses, WorkerRec
  <2> QED
    BY <2>1, <2>2, <2>3 DEF Run
<1>8. PICK x : x = [worker[w] EXCEPT !.stage = s, !.conn = c]
  OBVIOUS
<1>9. /\ x \in WorkerRec /\ x.closed = worker[w].closed /\ x.active = worker[w].active
      /\ x.cleared = worker[w].cleared /\ x.stage = s
  BY <1>1, <1>8 DEF WorkerRec
<1>10. /\ worker' \in [Workflows -> WorkerRec] /\ worker'[w] = x
       /\ \A v \in Workflows : v # w => worker'[v] = worker[v]
  BY <1>7, <1>8, <1>9 DEF Types
<1>11. Types'
  BY <1>2, <1>3, <1>4, <1>10, <1>5, SMTT(90) DEF Types, Req, Cmd, CB, Id, Setup, None
<1> QED
  BY <1>2, <1>4, <1>5, <1>7, <1>9, <1>10, <1>11

\* The first half of reciveMessage.
LEMMA ReadDoes ==
    ASSUME Types, NEW w \in Workflows, ReadReply(w)
    PROVE  \E m \in replies :
             /\ Types' /\ m.wf = w /\ ~ rx[w].busy /\ replies' = replies \ {m}
             /\ rx'[w].id = m.id /\ rx'[w].how = m.how /\ rx'[w].busy
             /\ \A v \in Workflows : v # w => rx'[v] = rx[v]
             /\ rx'[w].found <=> \E r \in requests : r.wf = w /\ r.id = m.id
             /\ rx'[w].found => \E r \in requests : r.wf = w /\ r.id = m.id /\ rx'[w].cb = r.cb
             /\ ~ seen'.twice => ~ seen.twice /\ (rx'[w].found => ~ Held(w, m.id))
             /\ seen'.did = seen.did /\ seen'.answered = seen.answered
             /\ seen'.pending = seen.pending /\ seen'.again = seen.again
             /\ seen'.blank = seen.blank
             /\ UNCHANGED <<plan, events, wfMap, worker, dropped, open, calls, requests, sent,
                            watchers, faults, panicked>>
<1>1. PICK m \in replies :
        /\ m.wf = w /\ ~ rx[w].busy /\ worker[w].conn = "open" /\ replies' = replies \ {m}
        /\ rx' = [rx EXCEPT ![w] =
             [id |-> m.id, how |-> m.how, busy |-> TRUE, found |-> Request(w, m.id) # {},
              cb |-> IF Request(w, m.id) = {} THEN None
                     ELSE (CHOOSE r \in Request(w, m.id) : TRUE).cb]]
        /\ seen' = [seen EXCEPT !.twice = @ \/ (Request(w, m.id) # {} /\ Held(w, m.id))]
        /\ UNCHANGED <<plan, events, wfMap, worker, dropped, open, calls, requests, sent,
                       watchers, faults, panicked>>
  BY DEF ReadReply
<1>2. PICK b \in BOOLEAN : b <=> Request(w, m.id) # {}
  OBVIOUS
<1>3. PICK cb : cb = IF Request(w, m.id) = {} THEN None
                     ELSE (CHOOSE r \in Request(w, m.id) : TRUE).cb
  OBVIOUS
<1>4. b <=> \E r \in requests : r.wf = w /\ r.id = m.id
  BY <1>2 DEF Request
<1>5. b => \E r \in requests : r.wf = w /\ r.id = m.id /\ cb = r.cb
  BY <1>2, <1>3 DEF Request
<1>8. PICK x : x = [id |-> m.id, how |-> m.how, busy |-> TRUE, found |-> b, cb |-> cb]
  OBVIOUS
<1>9. /\ x \in Rx /\ x.id = m.id /\ x.how = m.how /\ x.busy = TRUE /\ x.found = b /\ x.cb = cb
  BY <1>8, <1>2, <1>3, <1>5 DEF Rx, None, CB, Types, Req, Reply
<1>11. /\ rx' \in [Workflows -> Rx] /\ rx'[w] = x
       /\ \A v \in Workflows : v # w => rx'[v] = rx[v]
  BY <1>9, <1>1, <1>2, <1>3, <1>8 DEF Types
<1>13. PICK t \in BOOLEAN : t <=> (seen.twice \/ (Request(w, m.id) # {} /\ Held(w, m.id)))
  OBVIOUS
<1>15. /\ seen' \in Seen /\ seen'.twice = t
       /\ seen'.did = seen.did /\ seen'.answered = seen.answered
       /\ seen'.pending = seen.pending /\ seen'.again = seen.again
       /\ seen'.blank = seen.blank
  BY <1>1, <1>13 DEF Seen, Types
<1>16. Types'
  BY <1>1, <1>11, <1>15 DEF Types
<1>17. ~ t => ~ seen.twice /\ (b => ~ Held(w, m.id))
  BY <1>2, <1>13
<1> QED
  BY <1>1, <1>4, <1>5, <1>9, <1>11, <1>15, <1>16, <1>17

\* A watcher finds its time up.
LEMMA TimeUpDoes ==
    ASSUME Types, NEW g \in watchers, TimeUp(g)
    PROVE  \E h \in Watcher :
             /\ Types' /\ g.pc = "waiting" /\ watchers' = (watchers \ {g}) \union {h}
             /\ h.wf = g.wf /\ h.id = g.id
             /\ h.pc \in {"calling", "leaving"} /\ (h.pc = "calling" <=> h.found)
             /\ h.found <=> \E r \in requests : r.wf = g.wf /\ r.id = g.id
             /\ h.found => \E r \in requests : r.wf = g.wf /\ r.id = g.id /\ h.cb = r.cb
             /\ ~ seen'.twice => ~ seen.twice /\ (h.found => ~ Held(g.wf, g.id))
             /\ seen'.did = seen.did /\ seen'.answered = seen.answered
             /\ seen'.pending = seen.pending /\ seen'.again = seen.again
             /\ seen'.blank = seen.blank
             /\ UNCHANGED <<plan, events, wfMap, worker, dropped, open, calls, requests, sent,
                            replies, rx, faults, panicked>>
<1>1. /\ g.pc = "waiting"
      /\ watchers' = (watchers \ {g}) \union
           {[g EXCEPT !.pc = IF Request(g.wf, g.id) = {} THEN "leaving" ELSE "calling",
                      !.found = Request(g.wf, g.id) # {},
                      !.cb = IF Request(g.wf, g.id) = {} THEN None
                             ELSE (CHOOSE r \in Request(g.wf, g.id) : TRUE).cb]}
      /\ seen' = [seen EXCEPT !.twice = @ \/ (Request(g.wf, g.id) # {} /\ Held(g.wf, g.id))]
      /\ UNCHANGED <<plan, events, wfMap, worker, dropped, open, calls, requests, sent,
                     replies, rx, faults, panicked>>
  BY DEF TimeUp
<1>2. PICK b \in BOOLEAN : b <=> Request(g.wf, g.id) # {}
  OBVIOUS
<1>3. PICK cb : cb = IF Request(g.wf, g.id) = {} THEN None
                     ELSE (CHOOSE r \in Request(g.wf, g.id) : TRUE).cb
  OBVIOUS
<1>4. b <=> \E r \in requests : r.wf = g.wf /\ r.id = g.id
  BY <1>2 DEF Request
<1>5. b => \E r \in requests : r.wf = g.wf /\ r.id = g.id /\ cb = r.cb
  BY <1>2, <1>3 DEF Request
<1>6. cb \in CB
  BY <1>2, <1>3, <1>5 DEF None, CB, Types, Req
<1>7. PICK pc \in {"leaving", "calling"} : pc = IF b THEN "calling" ELSE "leaving"
  OBVIOUS
<1>8. PICK h : h = [g EXCEPT !.pc = pc, !.found = b, !.cb = cb]
  OBVIOUS
<1>9. h \in Watcher /\ h.wf = g.wf /\ h.id = g.id /\ h.pc = pc /\ h.found = b /\ h.cb = cb
  BY <1>6, <1>8 DEF Watcher, Types
<1>10. watchers' = (watchers \ {g}) \union {h}
  BY <1>2, <1>7, <1>1, <1>3, <1>8
<1>13. PICK t \in BOOLEAN : t <=> (seen.twice \/ (Request(g.wf, g.id) # {} /\ Held(g.wf, g.id)))
  OBVIOUS
<1> QED
  BY <1>1, <1>4, <1>5, <1>7, <1>9, <1>10, <1>13, <1>2 DEF Types, Seen

\* What a callback does that counts down the WaitGroup of its call.
Outcome(w, cb, how, good) ==
  /\ cb.call \in DOMAIN calls /\ cb.call # 0 /\ calls[cb.call].wait # 0 /\ Changed(cb.call)
  /\ calls'[cb.call].at = calls[cb.call].at /\ calls'[cb.call].e = calls[cb.call].e
  /\ calls'[cb.call].todo = calls[cb.call].todo
  /\ calls'[cb.call].wait = calls[cb.call].wait - 1
  /\ calls'[cb.call].ok => calls[cb.call].ok /\ good
  /\ good => how = "success"
  /\ panicked' = panicked
  /\ \/ ~ good /\ UNCHANGED <<worker, dropped, open>>
     \/ /\ IsDestroy(cb) /\ how = "success" /\ UNCHANGED <<dropped, open>>
        /\ worker'[w].cleared = worker[w].cleared \union {cb.who}
        /\ worker'[w].closed = worker[w].closed
        /\ good => ~ (plan.clients[w] \subseteq worker[w].cleared \union {cb.who})
     \/ /\ IsDestroy(cb) /\ how = "success" /\ dropped' = dropped \union {w} /\ UNCHANGED open
        /\ worker'[w].cleared = worker[w].cleared \union {cb.who}
        /\ worker'[w].closed /\ ~ worker[w].closed
        /\ plan.clients[w] \subseteq worker[w].cleared \union {cb.who}
     \/ /\ ~ IsDestroy(cb) /\ how = "success" /\ UNCHANGED <<worker, dropped>>
        /\ open'[w] = open[w] \ {calls[cb.call].e}

LEMMA CallbackDoes ==
    ASSUME Types, NEW w \in Workflows, NEW cb \in CB, NEW how,
           cb.call = 0 \/ cb.call \in DOMAIN calls, Callback(w, cb, how)
    PROVE  /\ worker' \in [Workflows -> WorkerRec] /\ open' \in [Workflows -> SUBSET Nat]
           /\ dropped' \subseteq Workflows /\ faults' \in Nat /\ panicked' \in BOOLEAN
           /\ calls' \in Seq(CallRec)
           /\ \A v \in Workflows : v # w => worker'[v] = worker[v] /\ open'[v] = open[v]
           /\ worker'[w].stage = worker[w].stage /\ worker'[w].active = worker[w].active
           /\ \/ panic /\ WhyPanic(w, cb, how)
              \/ cb.call = 0 /\ UNCHANGED <<worker, dropped, open, calls, faults, panicked>>
              \/ \E good \in BOOLEAN : Outcome(w, cb, how, good)
<1>0. worker[w] \in WorkerRec /\ cb.who \in Nat
  BY DEF Types, CB
<1>1. CASE panic /\ WhyPanic(w, cb, how)
  BY <1>1 DEF panic, Types
<1>2. CASE cb.call = 0 /\ UNCHANGED <<worker, dropped, open, calls, faults, panicked>>
  BY <1>2 DEF Types
<1>3. ASSUME NEW good \in BOOLEAN, Passed(w, cb, how, good)
      PROVE  /\ worker' \in [Workflows -> WorkerRec] /\ open' \in [Workflows -> SUBSET Nat]
             /\ dropped' \subseteq Workflows /\ faults' \in Nat /\ panicked' \in BOOLEAN
             /\ calls' \in Seq(CallRec)
             /\ \A v \in Workflows : v # w => worker'[v] = worker[v] /\ open'[v] = open[v]
             /\ worker'[w].stage = worker[w].stage /\ worker'[w].active = worker[w].active
             /\ Outcome(w, cb, how, good)
  <2>1. /\ cb.call \in DOMAIN calls /\ cb.call # 0 /\ calls[cb.call].wait # 0
        /\ Done(cb, good) /\ (good => how = "success") /\ panicked' = panicked
    BY <1>3 DEF Passed
  <2>2. /\ Changed(cb.call)
        /\ calls'[cb.call].at = calls[cb.call].at /\ calls'[cb.call].e = calls[cb.call].e
        /\ calls'[cb.call].todo = calls[cb.call].todo
        /\ calls'[cb.call].wait = calls[cb.call].wait - 1
        /\ calls'[cb.call].ok => calls[cb.call].ok /\ good
    BY <2>1, DoneDoes DEF Types
  <2>3. calls' \in Seq(CallRec)
    BY <2>2 DEF Changed
  <2>4. faults' \in Nat
    BY <1>3, SMTT(90) DEF Passed, Types
  <2>5. panicked' \in BOOLEAN
    BY <2>1 DEF Types
  <2>6. ASSUME NEW closed \in BOOLEAN, Clears(w, cb, closed)
        PROVE  /\ worker' \in [Workflows -> WorkerRec]
               /\ worker'[w].stage = worker[w].stage /\ worker'[w].active = worker[w].active
               /\ worker'[w].cleared = worker[w].cleared \union {cb.who}
               /\ worker'[w].closed = closed
               /\ \A v \in Workflows : v # w => worker'[v] = worker[v]
    <3>1. PICK x : x = [worker[w] EXCEPT !.cleared = worker[w].cleared \union {cb.who},
                                         !.closed = closed]
      OBVIOUS
    <3> QED
      BY <1>0, <3>1, <2>6 DEF Types, WorkerRec, Clears
  <2>7. CASE ~ good /\ UNCHANGED <<worker, dropped, open>>
    BY <2>1, <2>2, <2>3, <2>4, <2>5, <2>7 DEF Outcome, Types
  <2>8. CASE /\ IsDestroy(cb) /\ how = "success" /\ Clears(w, cb, worker[w].closed)
             /\ good => ~ (plan.clients[w] \subseteq worker[w].cleared \union {cb.who})
             /\ UNCHANGED <<dropped, open>>
    BY <1>0, <2>6, <2>8, <2>1, <2>2, <2>3, <2>4, <2>5 DEF WorkerRec, Types, Outcome
  <2>9. CASE /\ IsDestroy(cb) /\ how = "success" /\ Clears(w, cb, TRUE)
             /\ plan.clients[w] \subseteq worker[w].cleared \union {cb.who}
             /\ ~ worker[w].closed /\ dropped' = dropped \union {w} /\ UNCHANGED open
    BY <2>6, <2>9, <2>1, <2>2, <2>3, <2>4, <2>5 DEF Types, Outcome
  <2>10. CASE /\ ~ IsDestroy(cb) /\ how = "success" /\ UNCHANGED <<worker, dropped>>
              /\ open' = [open EXCEPT ![w] = @ \ {calls[cb.call].e}]
    BY <2>10, <2>1, <2>2, <2>3, <2>4, <2>5 DEF Types, Outcome
  <2> QED
    BY <1>3, <2>7, <2>8, <2>9, <2>10 DEF Passed
<1> QED
  BY <1>1, <1>2, <1>3, CallbackCases

\* The second half of reciveMessage.
LEMMA HandleDoes ==
    ASSUME Types, Forms, NEW w \in Workflows, HandleReply(w)
    PROVE  /\ Types' /\ rx[w].busy /\ rx'[w] = Idle
           /\ \A v \in Workflows : v # w => rx'[v] = rx[v]
           /\ requests' = requests \ Request(w, rx[w].id)
           /\ rx[w].found => Callback(w, rx[w].cb, rx[w].how)
           /\ ~ rx[w].found => UNCHANGED <<worker, dropped, open, calls, faults, panicked>>
           /\ seen'.did = seen.did /\ seen'.answered = seen.answered
           /\ seen'.twice = seen.twice /\ seen'.again = seen.again /\ seen'.blank = seen.blank
           /\ seen.pending \subseteq seen'.pending
           /\ worker'[w].closed /\ ~ worker[w].closed
                /\ (\E r \in requests : r.wf = w /\ ~ IsDestroy(r.cb)) => w \in seen'.pending
           /\ UNCHANGED <<plan, events, wfMap, sent, replies, watchers>>
<1>1. /\ rx[w].busy /\ rx' = [rx EXCEPT ![w] = Idle]
      /\ requests' = requests \ Request(w, rx[w].id)
      /\ rx[w].found => Callback(w, rx[w].cb, rx[w].how)
      /\ ~ rx[w].found => UNCHANGED <<worker, dropped, open, calls, faults, panicked>>
      /\ seen' = [seen EXCEPT
           !.pending = IF worker'[w].closed /\ ~worker[w].closed
                          /\ \E r \in requests : r.wf = w /\ ~IsDestroy(r.cb)
                       THEN @ \union {w} ELSE @]
      /\ UNCHANGED <<plan, events, wfMap, sent, replies, watchers>>
  BY DEF HandleReply
<1>2. /\ rx' \in [Workflows -> Rx] /\ rx'[w] = Idle
      /\ \A v \in Workflows : v # w => rx'[v] = rx[v]
  BY <1>1 DEF Idle, Rx, Id, CB, Setup, None, Types
<1>3. /\ worker' \in [Workflows -> WorkerRec] /\ open' \in [Workflows -> SUBSET Nat]
      /\ dropped' \subseteq Workflows /\ faults' \in Nat /\ panicked' \in BOOLEAN
      /\ calls' \in Seq(CallRec)
  <2>1. CASE ~ rx[w].found
    BY <1>1, <2>1 DEF Types
  <2>2. CASE rx[w].found
    <3>2. rx[w].cb.call = 0 \/ rx[w].cb.call \in DOMAIN calls
      BY <2>2 DEF Forms, Names
    <3> QED
      BY <1>1, <2>2, <3>2, CallbackDoes DEF Types, Rx
  <2> QED
    BY <2>1, <2>2
<1>4. seen \in Seen
  BY DEF Types
<1>5. PICK P \in SUBSET Workflows :
        /\ P = IF worker'[w].closed /\ ~worker[w].closed
                          /\ \E r \in requests : r.wf = w /\ ~IsDestroy(r.cb)
               THEN seen.pending \union {w} ELSE seen.pending
  BY <1>4 DEF Seen
<1>7. /\ seen' \in Seen /\ seen'.did = seen.did /\ seen'.answered = seen.answered
      /\ seen'.twice = seen.twice /\ seen'.again = seen.again /\ seen'.blank = seen.blank
      /\ seen'.pending = P
  BY <1>4, <1>1, <1>5 DEF Seen
<1>8. Types'
  BY <1>1, <1>2, <1>3, <1>7 DEF Types
<1> QED
  BY <1>1, <1>2, <1>5, <1>7, <1>8

\* A watcher runs the callback it read.
LEMMA CallsDoes ==
    ASSUME Types, Forms, NEW g \in watchers, TimeoutCalls(g)
    PROVE  \E h \in Watcher :
             /\ Types' /\ g.pc = "calling" /\ g.found /\ g \in Watcher
             /\ watchers' = (watchers \ {g}) \union {h}
             /\ h.wf = g.wf /\ h.id = g.id /\ h.pc = "leaving" /\ h.found /\ h.cb = g.cb
             /\ Callback(g.wf, g.cb, "error")
             /\ UNCHANGED <<plan, events, wfMap, requests, sent, replies, rx, seen>>
<1>1. /\ g.pc = "calling" /\ Callback(g.wf, g.cb, "error")
      /\ watchers' = (watchers \ {g}) \union {[g EXCEPT !.pc = "leaving"]}
      /\ UNCHANGED <<plan, events, wfMap, requests, sent, replies, rx, seen>>
  BY DEF TimeoutCalls
<1>2. g \in Watcher /\ g.found /\ Names(g.wf, g.id, g.cb)
  BY <1>1 DEF Types, Forms
<1>5. PICK h : h = [g EXCEPT !.pc = "leaving"]
  OBVIOUS
<1>6. /\ h \in Watcher /\ h.wf = g.wf /\ h.id = g.id /\ h.pc = "leaving" /\ h.found = g.found
      /\ h.cb = g.cb
  BY <1>2, <1>5 DEF Watcher
<1> QED
  BY <1>1, <1>2, <1>5, <1>6, CallbackDoes DEF Types, Watcher, Names

\* A watcher removes the request.
LEMMA LeavesDoes ==
    ASSUME Types, NEW g \in watchers, TimeoutLeaves(g)
    PROVE  /\ Types' /\ g.pc = "leaving" /\ watchers' = watchers \ {g}
           /\ requests' = requests \ Request(g.wf, g.id)
           /\ seen'.did = seen.did /\ seen'.answered = seen.answered
           /\ seen'.twice = seen.twice /\ seen'.again = seen.again /\ seen'.blank = seen.blank
           /\ seen'.pending = seen.pending
           /\ UNCHANGED <<plan, events, wfMap, worker, dropped, open, calls, sent, replies, rx,
                          faults, panicked>>
<1>1. PICK S : S = {r.cb.call : r \in {x \in Request(g.wf, g.id) : ~g.found \/ x.cb # g.cb}}
  OBVIOUS
<1>3. S \subseteq Nat
  BY <1>1 DEF Request, Types, Req, CB
<1> QED
  BY <1>3, <1>1 DEF Types, Seen, TimeoutLeaves

\* A client answers a command.
LEMMA AnswerDoes ==
    ASSUME Types, NEW m \in sent, Answer(m)
    PROVE  \E k \in Reply :
             /\ Types' /\ k.wf = m.wf /\ k.id = m.id
             /\ sent' = sent \ {m} /\ replies' = replies \union {k}
             /\ k.how = "success" => Replied(m.wf, m.id)'
             /\ \A w \in Workflows : /\ seen.did[w] \subseteq seen'.did[w]
                                    /\ seen.answered[w] \subseteq seen'.answered[w]
             /\ seen'.twice = seen.twice /\ seen'.again = seen.again
             /\ seen'.blank = seen.blank /\ seen'.pending = seen.pending
             /\ UNCHANGED <<plan, events, wfMap, worker, dropped, open, calls, requests,
                            watchers, rx, panicked>>
<1>1. PICK how \in {"success", "fault"} :
        /\ sent' = sent \ {m}
        /\ how = "fault" => faults > 0 /\ m.id # Setup
        /\ faults' = IF how = "fault" THEN faults - 1 ELSE faults
        /\ replies' = replies \union {[wf |-> m.wf, id |-> m.id, how |-> how]}
        /\ seen' = IF how = "fault" \/ m.id = Setup THEN seen
                   ELSE IF m.id[1] = 0
                   THEN [seen EXCEPT !.answered[m.wf] = @ \union {m.id[2]}]
                   ELSE [seen EXCEPT !.did[m.wf] = @ \union {m.id[2]}]
        /\ UNCHANGED <<plan, events, wfMap, worker, dropped, open, calls, requests, watchers, rx,
                       panicked>>
  BY DEF Answer
<1>2. m.wf \in Workflows /\ m.id \in Id
  BY DEF Types, Cmd
<1>3. m.id[2] \in Nat
  BY <1>2 DEF Id
<1>4. PICK k : k = [wf |-> m.wf, id |-> m.id, how |-> how]
  OBVIOUS
<1>5. k \in Reply /\ k.wf = m.wf /\ k.id = m.id /\ k.how = how
  BY <1>2, <1>4 DEF Reply
<1>6. faults' \in Nat
  BY <1>1, SMTT(90) DEF Types
<1>7. seen \in Seen
  BY DEF Types
<1>8. /\ seen' \in Seen
      /\ \A w \in Workflows : /\ seen.did[w] \subseteq seen'.did[w]
                             /\ seen.answered[w] \subseteq seen'.answered[w]
      /\ seen'.twice = seen.twice /\ seen'.again = seen.again
      /\ seen'.blank = seen.blank /\ seen'.pending = seen.pending
      /\ how = "success" => Replied(m.wf, m.id)'
  <2>1. CASE how = "fault" \/ m.id = Setup
    <3>2. m.id = Setup => Replied(m.wf, m.id)'
      BY SMTT(90) DEF Replied, Setup
    <3> QED
      BY <1>7, <2>1, <3>2, <1>1
  <2>2. CASE how # "fault" /\ m.id # Setup /\ m.id[1] = 0
    <3>2. PICK f : f = [seen.answered EXCEPT ![m.wf] = @ \union {m.id[2]}]
      OBVIOUS
    <3>3. /\ f \in [Workflows -> SUBSET Nat] /\ m.id[2] \in f[m.wf]
          /\ \A w \in Workflows : seen.answered[w] \subseteq f[w]
      BY <1>2, <1>3, <1>7, <3>2 DEF Seen
    <3> QED
      BY <2>2, <3>3, <1>7, <3>2, <1>1 DEF Replied, Seen
  <2>3. CASE how # "fault" /\ m.id # Setup /\ m.id[1] # 0
    BY <1>1, <1>7, <2>3, <1>2, <1>3 DEF Seen, Replied
  <2> QED
    BY <2>1, <2>2, <2>3
<1> QED
  BY <1>1, <1>4, <1>5, <1>8, <1>6 DEF Types

-----------------------------------------------------------------------------
(* What holds of every step.                                               *)

\* Calls keep their worker and their command and do not begin again, workers
\* are not started again, and what the clients have done stays done.
Onward ==
  /\ plan' = plan /\ DOMAIN calls \subseteq DOMAIN calls'
  /\ \A n \in DOMAIN calls :
       /\ calls'[n].wf = calls[n].wf /\ calls'[n].cmd = calls[n].cmd
       /\ calls[n].at # "begun" => calls'[n].at # "begun"
  /\ \A w \in Workflows :
       /\ worker[w].stage \notin {"none", "starting"} =>
            worker'[w].stage \notin {"none", "starting"}
       /\ seen.did[w] \subseteq seen'.did[w] /\ seen.answered[w] \subseteq seen'.answered[w]

LEMMA GoesOnward ==
    ASSUME Types, Forms, Once, Next
    PROVE  Types' /\ Onward /\ ~ panicked
\* The callback of a request is known, so that its worker and its call are.
<1>CallbackOnward.
      ASSUME Types, NEW w \in Workflows, NEW cb \in CB, NEW how,
             cb.call = 0 \/ cb.call \in DOMAIN calls, Callback(w, cb, how),
             plan' = plan, seen'.did = seen.did, seen'.answered = seen.answered
      PROVE  Onward
    BY <1>CallbackOnward, CallbackDoes DEF Outcome, Changed, panic, Onward
<1>0. ~ panicked
  BY DEF Next
<1>1. CASE Dispatch
  <2>1. CASE /\ Head(events).cmd = "Create" /\ calls' = calls
             /\ worker' = [worker EXCEPT ![Head(events).wf] = NewWorker]
    <3>1. events \in Seq(Event) /\ events # <<>>
      BY <1>1 DEF Dispatch, Types
    <3>2. worker[Head(events).wf].stage = "none"
      BY <2>1, <3>1, SMTT(90) DEF Once
    <3> QED
      BY <1>0, <1>1, <2>1, DispatchDoes, <3>2 DEF Onward, Types
  <2>2. CASE /\ worker' = worker /\ DOMAIN calls = 1..Len(calls) /\ Len(calls) \in Nat
             /\ DOMAIN calls' = 1..(Len(calls) + 1)
             /\ \A k \in DOMAIN calls : calls'[k] = calls[k]
    <3>1. DOMAIN calls \subseteq DOMAIN calls'
      BY <2>2, SMTT(90)
    <3> QED
      BY <1>0, <1>1, <2>2, <3>1, DispatchDoes DEF Onward
  <2> QED
    BY <1>1, <2>1, <2>2, DispatchDoes
<1>2. ASSUME NEW w \in Workflows, Run(w) PROVE Types' /\ Onward
  BY <1>2, RunDoes DEF Onward
<1>3. ASSUME NEW w \in Workflows, ReadReply(w) PROVE Types' /\ Onward
  BY <1>3, ReadDoes DEF Onward
<1>4. ASSUME NEW w \in Workflows, HandleReply(w) PROVE Types' /\ Onward
  <2>1. CASE rx[w].found
    <3>2. rx[w].cb.call = 0 \/ rx[w].cb.call \in DOMAIN calls
      BY <2>1 DEF Forms, Names
    <3> QED
      BY <1>4, <2>1, <3>2, HandleDoes, <1>CallbackOnward DEF Types, Rx
  <2>2. CASE ~ rx[w].found
    BY <1>4, <2>2, HandleDoes DEF Onward
  <2> QED
    BY <2>1, <2>2
<1>5. ASSUME NEW n \in DOMAIN calls, Destroy(n) PROVE Types' /\ Onward
  <2>1. /\ Types' /\ Changed(n) /\ calls'[n].at = "waiting"
        /\ seen'.did = seen.did /\ seen'.answered = seen.answered
    BY <1>5, DestroyDoes
  <2>3. \A v \in Workflows : worker'[v].stage = worker[v].stage
    BY <1>5, SMTT(90) DEF Destroy, Types, WorkerRec
  <2> QED
    BY <2>1, <2>3, <1>5 DEF Onward, Changed, Destroy
<1>6. ASSUME NEW n \in DOMAIN calls, Resend(n) PROVE Types' /\ Onward
  <2>2. plan' = plan /\ worker' = worker
    BY <1>6 DEF Resend
  <2> QED
    BY <2>2, <1>6, ResendDoes DEF Onward, Changed
<1>7. ASSUME NEW n \in DOMAIN calls,
             NoWorker(n) \/ DestroyReturns(n) \/ Fetch(n) \/ RoundEnds(n)
      PROVE  Types' /\ Onward
  BY <1>7, CallMoves DEF Onward, Changed
<1>8. ASSUME NEW g \in watchers, TimeUp(g) PROVE Types' /\ Onward
  BY <1>8, TimeUpDoes DEF Onward
<1>9. ASSUME NEW g \in watchers, TimeoutCalls(g) PROVE Types' /\ Onward
  <2>1. Types' /\ g \in Watcher /\ g.found /\ Callback(g.wf, g.cb, "error")
        /\ plan' = plan /\ seen' = seen
    BY <1>9, CallsDoes
  <2> QED
    BY <2>1, <1>CallbackOnward DEF Watcher, Forms, Names
<1>10. ASSUME NEW g \in watchers, TimeoutLeaves(g) PROVE Types' /\ Onward
  BY <1>10, LeavesDoes DEF Onward
<1>11. ASSUME NEW m \in sent, Answer(m) PROVE Types' /\ Onward
  BY <1>11, AnswerDoes DEF Onward
<1> QED
  BY <1>0, <1>1, <1>2, <1>3, <1>4, <1>5, <1>6, <1>7, <1>8, <1>9, <1>10, <1>11
  DEF Next, Call, Receive, Watch

-----------------------------------------------------------------------------
(* Callbacks and DeliverIDs.                                               *)

RequestForm(r) == Names(r.wf, r.id, r.cb) /\ Known(r.wf, r.id)
ReplyForm(m) == Known(m.wf, m.id) /\ (m.how = "success" => Replied(m.wf, m.id))
WatcherForm(g) ==
  /\ Known(g.wf, g.id)
  /\ g.pc = "calling" => g.found
  /\ g.pc = "waiting" => ~ g.found
  /\ g.found => Names(g.wf, g.id, g.cb)
RxForm(w) ==
  /\ rx[w].found => rx[w].busy /\ Names(w, rx[w].id, rx[w].cb)
  /\ rx[w].busy => Known(w, rx[w].id)
  /\ rx[w].busy /\ rx[w].how = "success" => Replied(w, rx[w].id)

\* The call n may make the DeliverID id.
Fits(w, n, id) ==
  /\ calls[n].wf = w /\ calls[n].at # "begun"
  /\ calls[n].cmd = "Delete" =>
       /\ id[1] = n /\ id[2] \in plan.clients[w] /\ worker[w].stage \notin {"none", "starting"}
  /\ calls[n].cmd = "Recover" => id[1] = 0 /\ id # Setup

LEMMA FormsStep ==
    ASSUME Types, Types', Forms, Once, Onward, Next
    PROVE  Forms'
\* So what is known of a callback and of a DeliverID stays known.
<1>KnownStays.
      ASSUME Onward, NEW w \in Workflows, NEW id, NEW cb
      PROVE  /\ Names(w, id, cb) => Names(w, id, cb)'
             /\ Known(w, id) => Known(w, id)'
             /\ Replied(w, id) => Replied(w, id)'
    BY <1>KnownStays DEF Onward, Names, Known, Replied
\* Only what is new has to be looked at.
<1>FormsKeep.
      ASSUME Types, Types', Forms, Onward,
             \A r \in requests' : r \in requests \/ RequestForm(r)',
             \A m \in sent' : m \in sent \/ Known(m.wf, m.id)',
             \A m \in replies' : m \in replies \/ ReplyForm(m)',
             \A g \in watchers' : g \in watchers \/ WatcherForm(g)',
             \A w \in Workflows : rx'[w] = rx[w] \/ RxForm(w)'
      PROVE  Forms'
  <2> USE <1>FormsKeep
  <2>5. ASSUME NEW w \in Workflows PROVE RxForm(w)'
    <3>1. CASE RxForm(w)'
      BY <3>1
    <3>2. CASE rx'[w] = rx[w]
      <4>1. PICK x : x = rx[w]
        OBVIOUS
      <4>3. /\ x.found => x.busy /\ Names(w, x.id, x.cb)'
            /\ x.busy => Known(w, x.id)'
            /\ x.busy /\ x.how = "success" => Replied(w, x.id)'
        BY <1>KnownStays, <4>1 DEF Forms
      <4> QED
        BY <4>3, <3>2, <4>1 DEF RxForm, Names, Known, Replied
    <3> QED
      BY <3>1, <3>2
  <2> QED
    BY <2>5, <1>KnownStays DEF Forms, RequestForm, ReplyForm, WatcherForm, RxForm, Types,
       Req, Cmd, Watcher, Reply
\* What deliverAsync adds.
<1>DeliverForms.
      ASSUME Types, Types', Forms, Onward, NEW w \in Workflows, NEW n \in DOMAIN calls',
             NEW round, NEW ids, NEW published \in SUBSET ids,
             deliverAsync(w, n, round, ids, published),
             \A i \in ids : Known(w, i)' /\ Fits(w, n, i)'
      PROVE  Forms'
  <2> USE <1>DeliverForms
  <2>1. \A r \in requests' : r \in requests \/ RequestForm(r)'
    <3> SUFFICES ASSUME NEW r \in requests', r \notin requests PROVE RequestForm(r)'
      OBVIOUS
    <3>1. PICK i \in ids : r = [wf |-> w, id |-> i, cb |-> [call |-> n, who |-> i[2]]]
      BY DEF deliverAsync
    <3> QED
      BY <3>1 DEF RequestForm, Names, Fits
  <2>2. \A m \in sent' : m \in sent \/ Known(m.wf, m.id)'
    <3> SUFFICES ASSUME NEW m \in sent', m \notin sent PROVE Known(m.wf, m.id)'
      OBVIOUS
    <3>1. PICK i \in published : m = [wf |-> w, id |-> i]
      BY DEF deliverAsync
    <3> QED
      BY <3>1
  <2>3. \A g \in watchers' : g \in watchers \/ WatcherForm(g)'
    <3> SUFFICES ASSUME NEW g \in watchers', g \notin watchers PROVE WatcherForm(g)'
      OBVIOUS
    <3>1. PICK i \in published : g = [wf |-> w, id |-> i, call |-> n, round |-> round,
                                     pc |-> "waiting", found |-> FALSE, cb |-> None]
      BY DEF deliverAsync
    <3> QED
      BY <3>1 DEF WatcherForm
  <2> QED
    BY <2>1, <2>2, <2>3, <1>FormsKeep DEF deliverAsync
<1>1. CASE Dispatch
  BY <1>1, DispatchDoes, <1>FormsKeep
<1>2. ASSUME NEW w \in Workflows, Run(w) PROVE Forms'
  <2>1. CASE requests' = requests /\ sent' = sent
    BY <1>2, <2>1, RunDoes, <1>FormsKeep
  <2>2. CASE /\ requests' = requests \union {[wf |-> w, id |-> Setup, cb |-> None]}
             /\ sent' = sent \union {[wf |-> w, id |-> Setup]}
    <3>1. Known(w, Setup)' /\ Names(w, Setup, None)'
      BY DEF Known, Names, Setup, None
    <3>2. PICK r : r = [wf |-> w, id |-> Setup, cb |-> None]
      OBVIOUS
    <3>3. r.wf = w /\ r.id = Setup /\ r.cb = None /\ requests' = requests \union {r}
      BY <2>2, <3>2
    <3>4. RequestForm(r)'
      BY <3>1, <3>3 DEF RequestForm
    <3> QED
      BY <1>2, <2>2, <3>1, <3>3, <3>4, RunDoes, <1>FormsKeep, SMTT(90)
  <2> QED
    BY <1>2, <2>1, <2>2, RunDoes
<1>3. ASSUME NEW w \in Workflows, ReadReply(w) PROVE Forms'
  <2>1. PICK m \in replies :
          /\ m.wf = w /\ replies' = replies \ {m}
          /\ rx'[w].id = m.id /\ rx'[w].how = m.how /\ rx'[w].busy
          /\ \A v \in Workflows : v # w => rx'[v] = rx[v]
          /\ rx'[w].found => \E r \in requests : r.wf = w /\ r.id = m.id /\ rx'[w].cb = r.cb
          /\ requests' = requests /\ sent' = sent /\ watchers' = watchers
    BY <1>3, ReadDoes
  <2>2. PICK x : x = rx'[w]
    OBVIOUS
  <2>5. /\ Known(w, x.id)' /\ (x.how = "success" => Replied(w, x.id)')
        /\ x.found => Names(w, x.id, x.cb)'
    BY <1>KnownStays, <2>1, <2>2 DEF Forms
  <2>6. RxForm(w)'
    BY <2>1, <2>2, <2>5 DEF RxForm, Names, Known, Replied
  <2> QED
    BY <2>1, <2>6, <1>FormsKeep
<1>4. ASSUME NEW w \in Workflows, HandleReply(w) PROVE Forms'
  <2>1. /\ rx'[w] = Idle /\ (\A v \in Workflows : v # w => rx'[v] = rx[v])
        /\ requests' \subseteq requests
        /\ sent' = sent /\ replies' = replies /\ watchers' = watchers
    BY <1>4, HandleDoes
  <2> QED
    BY <2>1, <1>FormsKeep, SMTT(90) DEF RxForm, Idle
<1>5. ASSUME NEW n \in DOMAIN calls, Destroy(n) PROVE Forms'
  <2>1. PICK w, points, ids :
          /\ w = calls[n].wf
          /\ points = IF worker[w].stage = "starting" THEN {} ELSE plan.clients[w]
          /\ ids = DestroyIds(n, points, worker[w].active + 1)
    OBVIOUS
  <2>2. /\ Changed(n) /\ n \in Nat /\ n # 0 /\ calls[n].cmd = "Delete" /\ w \in wfMap
        /\ calls'[n].at = "waiting"
        /\ \E published \in SUBSET ids : deliverAsync(w, n, 0, ids, published)
    BY <1>5, <2>1, DestroyDoes
  <2>3. w \in Workflows /\ n \in DOMAIN calls'
    BY <2>2 DEF Types, Changed
  <2>4. ASSUME NEW i \in ids PROVE Known(w, i)' /\ Fits(w, n, i)'
    <3>1. PICK c \in points, k \in 1..(worker[w].active + 1) : i = <<n, c, k>>
      BY <2>1, SMTT(90) DEF DestroyIds
    <3> QED
      BY <2>3, <2>2, <2>1, <3>1 DEF Known, Fits, Onward, Once, Changed
  <2> QED
    BY <2>2, <2>3, <2>4, <1>DeliverForms
<1>6. ASSUME NEW n \in DOMAIN calls, Resend(n) PROVE Forms'
  <2>1. PICK w, r, round : w = calls[n].wf /\ r = First(calls[n].todo) /\ round = calls[n].round
    OBVIOUS
  <2>2. /\ Changed(n) /\ n \in Nat /\ n # 0 /\ calls[n].at = "sending"
        /\ calls'[n].at = "sending"
        /\ \E published \in SUBSET {<<0, r, 1>>} :
             deliverAsync(w, n, round, {<<0, r, 1>>}, published)
    BY <1>6, <2>1, ResendDoes
  <2>3. w \in Workflows /\ n \in DOMAIN calls'
    <3>1. calls[n] \in CallRec
      BY SMTT(90) DEF Types
    <3> QED
      BY <2>1, <2>2, <3>1 DEF Changed, CallRec
  <2>4. ASSUME NEW i \in {<<0, r, 1>>} PROVE Known(w, i)' /\ Fits(w, n, i)'
    <3>1. i = <<0, r, 1>> /\ i[1] = 0 /\ i # Setup
      BY SMTT(90) DEF Setup
    <3> QED
      BY <3>1, <2>1, <2>2 DEF Known, Fits, Setup, Changed, Once
  <2> QED
    BY <2>2, <2>3, <2>4, <1>DeliverForms, SMTT(90)
<1>7. ASSUME NEW n \in DOMAIN calls,
             NoWorker(n) \/ DestroyReturns(n) \/ Fetch(n) \/ RoundEnds(n)
      PROVE  Forms'
  BY <1>7, CallMoves, <1>FormsKeep
<1>8. ASSUME NEW g \in watchers, TimeUp(g) PROVE Forms'
  <2>1. PICK h \in Watcher :
          /\ watchers' = (watchers \ {g}) \union {h} /\ h.wf = g.wf /\ h.id = g.id
          /\ h.pc \in {"calling", "leaving"} /\ (h.pc = "calling" <=> h.found)
          /\ h.found => \E r \in requests : r.wf = g.wf /\ r.id = g.id /\ h.cb = r.cb
          /\ requests' = requests /\ sent' = sent /\ replies' = replies /\ rx' = rx
    BY <1>8, TimeUpDoes
  <2>3. Known(h.wf, h.id)' /\ (h.found => Names(h.wf, h.id, h.cb)')
    BY <1>KnownStays, <2>1 DEF Forms, Watcher
  <2> QED
    BY <2>1, <1>FormsKeep, <2>3 DEF WatcherForm
<1>9. ASSUME NEW g \in watchers, TimeoutCalls(g) PROVE Forms'
  <2>1. PICK h \in Watcher :
          /\ watchers' = (watchers \ {g}) \union {h} /\ h.wf = g.wf /\ h.id = g.id
          /\ h.pc = "leaving" /\ h.found /\ h.cb = g.cb /\ g.found
          /\ requests' = requests /\ sent' = sent /\ replies' = replies /\ rx' = rx
    BY <1>9, CallsDoes
  <2>3. WatcherForm(h)'
    BY <2>1, <1>KnownStays DEF WatcherForm, Forms, Watcher
  <2> QED
    BY <2>1, <2>3, <1>FormsKeep
<1>10. ASSUME NEW g \in watchers, TimeoutLeaves(g) PROVE Forms'
  BY <1>10, LeavesDoes, <1>FormsKeep
<1>11. ASSUME NEW m \in sent, Answer(m) PROVE Forms'
  <2>1. PICK k \in Reply :
          /\ k.wf = m.wf /\ k.id = m.id /\ sent' = sent \ {m} /\ replies' = replies \union {k}
          /\ k.how = "success" => Replied(m.wf, m.id)'
          /\ requests' = requests /\ watchers' = watchers /\ rx' = rx
    BY <1>11, AnswerDoes
  <2> QED
    BY <2>1, <1>FormsKeep, <1>KnownStays DEF ReplyForm, Types, Cmd, Forms
<1> QED
  BY <1>1, <1>2, <1>3, <1>4, <1>5, <1>6, <1>7, <1>8, <1>9, <1>10, <1>11 DEF Next,
     Call, Receive, Watch

-----------------------------------------------------------------------------
(* A worker is created once.                                               *)

\* The events that are left, when nothing else is changed but calls.
EventsOnce ==
  /\ \A i \in 1..Len(events) : events[i].cmd = "Create" => worker[events[i].wf].stage = "none"
  /\ \A i, j \in 1..Len(events) : events[i].cmd = "Create" /\ events[j] = events[i] => i = j

\* The other parts of it.
CallStage(n) ==
  /\ calls[n].at \notin {"begun", "returned"} => worker[calls[n].wf].stage # "none"
  /\ calls[n].at = "waiting" => calls[n].cmd = "Delete"
  /\ calls[n].at \in {"sending", "fetching"} => calls[n].cmd = "Recover"
WorkerStage(w) ==
  /\ w \in wfMap => worker[w].stage # "none"
  /\ worker[w].closed => worker[w].stage \notin {"none", "starting"}

LEMMA OnceStep ==
    ASSUME Types, Types', Forms, Once, Onward, Next
    PROVE  Once'
<1>EventsOnceStep.
      ASSUME Types, Types', Once, Dispatch
      PROVE  EventsOnce'
  <2> USE <1>EventsOnceStep
  <2>1. events \in Seq(Event) /\ events # <<>> /\ events' = Tail(events)
    BY DispatchDoes DEF Types
  <2>2. /\ Len(events) \in Nat /\ Len(events') = Len(events) - 1 /\ Len(events) > 0
        /\ \A i \in 1..Len(events') : events'[i] = events[i + 1] /\ i + 1 \in 1..Len(events)
        /\ Head(events) = events[1] /\ 1 \in 1..Len(events)
    BY <2>1, SMTT(90)
  <2>3. \A i, j \in 1..Len(events') : events'[i].cmd = "Create" /\ events'[j] = events'[i] => i = j
    <3> SUFFICES ASSUME NEW i \in 1..Len(events'), NEW j \in 1..Len(events'),
                        events'[i].cmd = "Create", events'[j] = events'[i]
                 PROVE  i = j
      OBVIOUS
    <3> QED
      BY <2>2, SMTT(90) DEF Once
  <2>4. ASSUME NEW i \in 1..Len(events'), events'[i].cmd = "Create"
        PROVE  worker'[events'[i].wf].stage = "none"
    <3>1. events'[i] = events[i + 1] /\ i + 1 \in 1..Len(events) /\ i + 1 # 1
      BY <2>2, SMTT(90)
    <3>2. events[i + 1] \in Event /\ events[1] \in Event
      BY <2>1, <2>2, <3>1, SMTT(90)
    <3>3. worker[events'[i].wf].stage = "none"
      BY <2>4, <3>1 DEF Once
    <3>4. events[1].cmd = "Create" => events[1].wf # events'[i].wf
      <4>1. events[1].cmd = "Create" /\ events[1].wf = events'[i].wf => events[i + 1] = events[1]
        BY <2>4, <3>1, <3>2, SMTT(90) DEF Event
      <4> QED
        BY <2>2, <3>1, <4>1 DEF Once
    <3>6. \/ worker' = worker
          \/ events[1].cmd = "Create" /\ worker' = [worker EXCEPT ![events[1].wf] = NewWorker]
      BY <2>2, DispatchDoes
    <3> QED
      BY <3>3, <3>4, <3>6, <3>1, <3>2 DEF Types, Event
  <2> QED
    BY <2>3, <2>4 DEF EventsOnce
\* What stays when a step leaves the events alone.
<1>OnceKeep.
      ASSUME Types, Types', Once, events' = events,
             \A w \in Workflows :
               /\ worker[w].stage = "none" <=> worker'[w].stage = "none"
               /\ worker[w].stage \notin {"none", "starting"} =>
                    worker'[w].stage \notin {"none", "starting"}
               /\ worker'[w].closed => worker[w].closed \/ WorkerStage(w)',
             wfMap' \subseteq wfMap,
             \A n \in DOMAIN calls' :
               (n \in DOMAIN calls /\ calls'[n].at = calls[n].at
                  /\ calls'[n].cmd = calls[n].cmd /\ calls'[n].wf = calls[n].wf) \/ CallStage(n)'
      PROVE  Once'
  <2> USE <1>OnceKeep
  <2>0. \A i \in 1..Len(events) : events[i].wf \in Workflows
    <3>1. \A i \in 1..Len(events) : events[i] \in Event
      BY SMTT(90) DEF Types
    <3> QED
      BY <3>1 DEF Event
  <2>1. EventsOnce'
    BY <2>0 DEF EventsOnce, Once
  <2>3. ASSUME NEW n \in DOMAIN calls' PROVE CallStage(n)'
    <3>1. CASE /\ n \in DOMAIN calls /\ calls'[n].at = calls[n].at
               /\ calls'[n].cmd = calls[n].cmd /\ calls'[n].wf = calls[n].wf
      <4>1. calls[n] \in CallRec
        BY <3>1, SMTT(90) DEF Types
      <4> QED
        BY <3>1, <4>1 DEF CallStage, Once, CallRec
    <3> QED
      BY <3>1
  <2> QED
    BY <2>1, <2>3 DEF Once, EventsOnce, CallStage, Types, WorkerStage
\* A callback closes only a worker that Destroy found running.
<1>CallbackOnce.
      ASSUME Types, Types', Once, NEW w \in Workflows, NEW id, NEW cb \in CB, NEW how,
             Names(w, id, cb), Callback(w, cb, how), events' = events, wfMap' = wfMap
      PROVE  Once'
  <2> USE <1>CallbackOnce
  <2>1. cb.call = 0 \/ cb.call \in DOMAIN calls
    BY DEF Names
  <2>2. /\ \A v \in Workflows : v # w => worker'[v] = worker[v]
        /\ worker'[w].stage = worker[w].stage
        /\ \/ UNCHANGED <<worker, calls>>
           \/ \E good \in BOOLEAN : Outcome(w, cb, how, good)
    BY <2>1, CallbackDoes DEF panic
  <2>3. CASE UNCHANGED <<worker, calls>>
    BY <2>3 DEF Once
  <2>4. CASE \E good \in BOOLEAN : Outcome(w, cb, how, good)
    BY <2>4, <2>2, <1>OnceKeep DEF Outcome, Changed, IsDestroy, Names, WorkerStage
  <2> QED
    BY <2>2, <2>3, <2>4
<1>1. CASE Dispatch
  <2>1. EventsOnce'
    BY <1>1, <1>EventsOnceStep
  <2>2. CASE /\ Head(events).cmd = "Create" /\ calls' = calls
             /\ worker' = [worker EXCEPT ![Head(events).wf] = NewWorker]
             /\ wfMap' = wfMap \union {Head(events).wf}
    <3>2. \A w \in Workflows : IF w = Head(events).wf
                              THEN worker'[w].stage = "starting" /\ ~ worker'[w].closed
                              ELSE worker'[w] = worker[w]
      BY <2>2, <1>1, DispatchDoes DEF Types, NewWorker, Event
    <3>3. wfMap \subseteq Workflows
      BY DEF Types
    <3>4. \A w \in Workflows : WorkerStage(w)'
      BY <2>2, <3>2 DEF Once, WorkerStage
    <3>5. \A n \in DOMAIN calls' : CallStage(n)'
      <4>1. \A n \in DOMAIN calls : calls[n] \in CallRec
        BY SMTT(90) DEF Types
      <4> QED
        BY <2>2, <3>2, <4>1, SMTT(90) DEF Once, CallStage, CallRec
    <3> QED
      BY <2>1, <3>4, <3>5 DEF Once, EventsOnce, WorkerStage, CallStage, Types
  <2>3. CASE /\ worker' = worker /\ wfMap' = wfMap
             /\ Len(calls) \in Nat /\ DOMAIN calls = 1..Len(calls)
             /\ DOMAIN calls' = 1..(Len(calls) + 1)
             /\ \A k \in DOMAIN calls : calls'[k] = calls[k]
             /\ calls'[Len(calls) + 1] = NewCall(Head(events))
    BY <2>1, <2>3, SMTT(90) DEF Once, EventsOnce, CallStage, NewCall
  <2> QED
    BY <1>1, <2>2, <2>3, DispatchDoes
<1>2. ASSUME NEW w \in Workflows, Run(w) PROVE Once'
  BY <1>2, RunDoes, <1>OnceKeep
<1>3. ASSUME NEW w \in Workflows, ReadReply(w) PROVE Once'
  <2>1. events' = events /\ calls' = calls /\ worker' = worker /\ wfMap' = wfMap
    BY <1>3, ReadDoes
  <2> QED
    BY <2>1 DEF Once
<1>4. ASSUME NEW w \in Workflows, HandleReply(w) PROVE Once'
  <2>1. CASE rx[w].found
    <3>1. rx[w].cb \in CB
      BY DEF Types, Rx
    <3> QED
      BY <1>4, <2>1, <3>1, HandleDoes, <1>CallbackOnce DEF Forms
  <2>2. CASE ~ rx[w].found
    <3>1. events' = events /\ calls' = calls /\ worker' = worker /\ wfMap' = wfMap
      BY <1>4, <2>2, HandleDoes
    <3> QED
      BY <3>1 DEF Once
  <2> QED
    BY <2>1, <2>2
<1>5. ASSUME NEW n \in DOMAIN calls, Destroy(n) PROVE Once'
  <2>1. /\ Changed(n) /\ calls'[n].at = "waiting" /\ calls[n].cmd = "Delete"
        /\ calls[n].wf \in wfMap
    BY <1>5, DestroyDoes
  <2>2. events' = events /\ wfMap' = wfMap
    BY <1>5 DEF Destroy
  <2>3. \A v \in Workflows : /\ worker'[v].stage = worker[v].stage
                            /\ worker'[v].closed = worker[v].closed
    BY <1>5 DEF Destroy, Types, WorkerRec
  <2>4. CallStage(n)'
    BY <2>1, <2>3 DEF CallStage, Changed, Once, Types
  <2> QED
    BY <2>1, <2>2, <2>3, <2>4, <1>OnceKeep DEF Changed
<1>6. ASSUME NEW n \in DOMAIN calls, Resend(n) PROVE Once'
  <2>1. Changed(n) /\ calls[n].at = "sending" /\ calls'[n].at = "sending"
    BY <1>6, ResendDoes
  <2> QED
    BY <2>1, <1>OnceKeep, <1>6 DEF Changed, Resend
<1>7. ASSUME NEW n \in DOMAIN calls,
             NoWorker(n) \/ DestroyReturns(n) \/ Fetch(n) \/ RoundEnds(n)
      PROVE  Once'
  <2>1. /\ Changed(n) /\ events' = events /\ worker' = worker
        /\ calls'[n].at \in {"returned", "sending", "fetching"}
        /\ calls'[n].at = "sending" => Fetch(n) /\ calls'[n].cmd = "Recover"
        /\ calls'[n].at = "fetching" => calls[n].at = "sending"
    BY <1>7, CallMoves
  <2>4. CallStage(n)'
    BY <2>1 DEF CallStage, Changed, Once, Fetch
  <2> QED
    BY <2>1, <2>4, <1>OnceKeep, <1>7 DEF Changed, NoWorker, DestroyReturns, Fetch,
       RoundEnds
<1>8. ASSUME NEW g \in watchers, TimeUp(g) PROVE Once'
  <2>1. events' = events /\ calls' = calls /\ worker' = worker /\ wfMap' = wfMap
    BY <1>8, TimeUpDoes
  <2> QED
    BY <2>1 DEF Once
<1>9. ASSUME NEW g \in watchers, TimeoutCalls(g) PROVE Once'
  <2>1. /\ g \in Watcher /\ g.found /\ Callback(g.wf, g.cb, "error")
        /\ events' = events /\ wfMap' = wfMap
    BY <1>9, CallsDoes
  <2> QED
    BY <2>1, <1>CallbackOnce DEF Watcher, Forms
<1>10. ASSUME NEW g \in watchers, TimeoutLeaves(g) PROVE Once'
  <2>1. events' = events /\ calls' = calls /\ worker' = worker /\ wfMap' = wfMap
    BY <1>10, LeavesDoes
  <2> QED
    BY <2>1 DEF Once
<1>11. ASSUME NEW m \in sent, Answer(m) PROVE Once'
  <2>1. events' = events /\ calls' = calls /\ worker' = worker /\ wfMap' = wfMap
    BY <1>11, AnswerDoes
  <2> QED
    BY <2>1 DEF Once
<1> QED
  BY <1>1, <1>2, <1>3, <1>4, <1>5, <1>6, <1>7, <1>8, <1>9, <1>10, <1>11 DEF Next,
     Call, Receive, Watch

-----------------------------------------------------------------------------
(* The rows that are dropped.                                              *)

LEMMA CleanlyStep ==
    ASSUME Types, Types', Forms, Once, Cleanly, Onward, Next
    PROVE  Cleanly'
\* A callback that clears a client has a reply from the client.
<1>CallbackCleanly.
      ASSUME Types, Types', Cleanly, NEW w \in Workflows, NEW id, NEW cb \in CB, NEW how,
             Names(w, id, cb), how = "success" => Replied(w, id), Callback(w, cb, how),
             plan' = plan, seen'.did = seen.did
      PROVE  Cleanly'
  <2> USE <1>CallbackCleanly
  <2>1. cb.call = 0 \/ cb.call \in DOMAIN calls
    BY DEF Names
  <2>2. /\ \A v \in Workflows : v # w => worker'[v] = worker[v]
        /\ \/ UNCHANGED <<worker, dropped>>
           \/ \E good \in BOOLEAN : Outcome(w, cb, how, good)
    BY <2>1, CallbackDoes DEF panic
  <2>3. CASE UNCHANGED <<worker, dropped>>
    BY <2>3 DEF Cleanly, DroppedWasCleared
  <2>4. CASE \E good \in BOOLEAN : Outcome(w, cb, how, good)
    <3>1. IsDestroy(cb) /\ how = "success" => cb.who \in seen.did[w]
      BY DEF Types, IsDestroy, Names, Replied
    <3>2. /\ \/ worker' = worker
             \/ /\ worker'[w].cleared = worker[w].cleared \union {cb.who}
                /\ IsDestroy(cb) /\ how = "success"
          /\ \/ dropped' = dropped
             \/ /\ dropped' = dropped \union {w} /\ IsDestroy(cb) /\ how = "success"
                /\ plan.clients[w] \subseteq worker[w].cleared \union {cb.who}
      BY <2>4 DEF Outcome
    <3>3. \A v \in Workflows : worker'[v].cleared \subseteq seen.did[v]
      BY <2>2, <3>1, <3>2 DEF Cleanly
    <3> QED
      BY <3>3, <3>1, <3>2 DEF Cleanly, DroppedWasCleared
  <2> QED
    BY <2>2, <2>3, <2>4
<1>a. ASSUME dropped' = dropped, \A w \in Workflows : worker'[w].cleared \subseteq worker[w].cleared
      PROVE  Cleanly'
  BY <1>a DEF Cleanly, DroppedWasCleared, Onward, Types
<1>1. CASE Dispatch
  <2>1. \A w \in Workflows : worker'[w].cleared \subseteq worker[w].cleared
    <3>1. CASE worker' = [worker EXCEPT ![Head(events).wf] = NewWorker]
      BY <3>1 DEF Types, NewWorker
    <3>2. CASE worker' = worker
      BY <3>2
    <3> QED
      BY <1>1, <3>1, <3>2, DispatchDoes
  <2> QED
    BY <1>1, <1>a, <2>1, DispatchDoes
<1>2. ASSUME NEW w \in Workflows, Run(w) PROVE Cleanly'
  BY <1>2, <1>a, RunDoes
<1>3. ASSUME NEW w \in Workflows, ReadReply(w) PROVE Cleanly'
  BY <1>3, <1>a, ReadDoes
<1>4. ASSUME NEW w \in Workflows, HandleReply(w) PROVE Cleanly'
  <2>1. CASE rx[w].found
    <3>2. Names(w, rx[w].id, rx[w].cb) /\ (rx[w].how = "success" => Replied(w, rx[w].id))
      BY <2>1 DEF Forms
    <3>3. Callback(w, rx[w].cb, rx[w].how) /\ plan' = plan /\ seen'.did = seen.did
      BY <1>4, <2>1, HandleDoes
    <3> QED
      BY <3>2, <3>3, <1>CallbackCleanly DEF Types, Rx
  <2>2. CASE ~ rx[w].found
    BY <1>4, <1>a, <2>2, HandleDoes
  <2> QED
    BY <2>1, <2>2
<1>5. ASSUME NEW n \in DOMAIN calls, Destroy(n) PROVE Cleanly'
  BY <1>a, <1>5 DEF Destroy, Types, WorkerRec
<1>6. ASSUME NEW n \in DOMAIN calls, Resend(n) PROVE Cleanly'
  BY <1>6, <1>a DEF Resend
<1>7. ASSUME NEW n \in DOMAIN calls,
             NoWorker(n) \/ DestroyReturns(n) \/ Fetch(n) \/ RoundEnds(n)
      PROVE  Cleanly'
  BY <1>7, <1>a, CallMoves
<1>8. ASSUME NEW g \in watchers, TimeUp(g) PROVE Cleanly'
  BY <1>8, <1>a, TimeUpDoes
<1>9. ASSUME NEW g \in watchers, TimeoutCalls(g) PROVE Cleanly'
  <2>1. /\ g \in Watcher /\ g.found /\ Callback(g.wf, g.cb, "error")
        /\ plan' = plan /\ seen' = seen
    BY <1>9, CallsDoes
  <2> QED
    BY <2>1, <1>CallbackCleanly DEF Watcher, Forms
<1>10. ASSUME NEW g \in watchers, TimeoutLeaves(g) PROVE Cleanly'
  BY <1>10, <1>a, LeavesDoes
<1>11. ASSUME NEW m \in sent, Answer(m) PROVE Cleanly'
  BY <1>11, <1>a, AnswerDoes
<1> QED
  BY <1>1, <1>2, <1>3, <1>4, <1>5, <1>6, <1>7, <1>8, <1>9, <1>10, <1>11 DEF Next,
     Call, Receive, Watch

LEMMA InvInit == Init => Inv
<1> SUFFICES ASSUME Init PROVE Inv
  OBVIOUS
<1>1. plan \in Plans
  BY DEF Init
<1>2. /\ plan.records \in [Workflows -> SUBSET Nat] /\ plan.events \in Seq(Event)
      /\ plan.faults \in Nat
      /\ \A i, j \in 1..Len(plan.events) :
           plan.events[i].cmd = "Create" /\ plan.events[j] = plan.events[i] => i = j
  BY <1>1, PlansAssumption DEF Event
<1>3. Absent \in WorkerRec /\ Absent.stage = "none" /\ ~ Absent.closed /\ Absent.cleared = {}
  BY DEF Absent, NewWorker, WorkerRec
<1>6. calls \in Seq(CallRec) /\ DOMAIN calls = {}
  BY SMTT(90) DEF Init
<1>9. Once
  <2>1. \A i \in 1..Len(events) : events[i] \in Event
    BY <1>2, SMTT(90) DEF Init
  <2> QED
    BY <1>2, <1>3, <1>6, <2>1 DEF Init, Once, Event
<1> QED
  BY <1>9, <1>1, <1>2, <1>3, <1>6 DEF Inv, Init, Forms, Types, Seen, Idle, Rx, Id,
     CB, Setup, None, Cleanly, DroppedWasCleared

LEMMA InvStep == Inv /\ [Next]_vars => Inv'
<1> SUFFICES ASSUME Inv, [Next]_vars PROVE Inv'
  OBVIOUS
<1>1. CASE Next
  BY <1>1, GoesOnward, FormsStep, OnceStep, CleanlyStep DEF Inv
<1>2. CASE UNCHANGED vars
  <2>2. Forms'
    BY <1>2 DEF Inv, Forms, vars, Names, Known, Replied
  <2> QED
    BY <2>2, <1>2 DEF Inv, Types, vars, Cleanly, DroppedWasCleared, Once
<1> QED
  BY <1>1, <1>2

LEMMA InvAlways == Spec => []Inv
BY InvInit, InvStep, PTL DEF Spec

\* The callback of Destroy drops the row of a workflow only when every client
\* of it has really cleared the workflow, whatever requests time out, are
\* answered late or are answered twice, and however often Destroy is called.
THEOREM DroppedIsCleared == Spec => []DroppedWasCleared
<1>1. Inv => DroppedWasCleared
  BY DEF Inv, Cleanly
<1> QED
  BY <1>1, InvAlways, PTL

-----------------------------------------------------------------------------
(* What Recover marks.                                                     *)

\* The parts of a call.
LEMMA CallHas ==
    ASSUME Types, NEW n \in DOMAIN calls
    PROVE  /\ n \in Nat /\ n # 0 /\ calls[n].wf \in Workflows
           /\ calls[n].wait \in Nat /\ calls[n].e \in Nat /\ calls[n].todo \in SUBSET Nat
           /\ calls[n].cmd \in {"Delete", "Recover"}
<1>2. calls[n] \in CallRec /\ n \in Nat /\ n # 0
  BY SMTT(90) DEF Types
<1> QED
  BY <1>2 DEF CallRec

\* A callback changes one call, and clears and closes only.
LEMMA CallbackGrows ==
    ASSUME Types, NEW w \in Workflows, NEW id, NEW cb \in CB, NEW how,
           Names(w, id, cb), Callback(w, cb, how)
    PROVE  /\ \A v \in Workflows :
                /\ worker'[v].stage = worker[v].stage
                /\ worker[v].cleared \subseteq worker'[v].cleared
                /\ worker[v].closed => worker'[v].closed
           /\ DOMAIN calls' = DOMAIN calls
           /\ \A n \in DOMAIN calls : n # cb.call => calls'[n] = calls[n]
<1>1. cb.call = 0 \/ cb.call \in DOMAIN calls
  BY DEF Names
<1>2. CASE UNCHANGED <<worker, calls>>
  BY <1>2
<1>3. CASE \E good \in BOOLEAN : Outcome(w, cb, how, good)
  <2>2. /\ worker[w].cleared \subseteq worker'[w].cleared
        /\ worker[w].closed => worker'[w].closed
    BY <1>3 DEF Outcome
  <2>3. /\ \A v \in Workflows : v # w => worker'[v] = worker[v]
        /\ worker'[w].stage = worker[w].stage
    BY <1>1, CallbackDoes
  <2> QED
    BY <2>2, <2>3, <1>3 DEF Outcome, Changed
<1> QED
  BY <1>1, <1>2, <1>3, CallbackDoes DEF panic

\* Another call's deliverAsync.
\* The requests of a call, and the one its worker is handling, are among those
\* there were.
Fewer(n) ==
  /\ \A r \in requests' : r.cb.call = n => r \in requests
  /\ \A w \in Workflows : rx'[w].found /\ rx'[w].cb.call = n =>
       rx'[w] = rx[w] \/ \E r \in requests : r.id = rx'[w].id /\ r.cb = rx'[w].cb

\* A record is marked as recovered only when the command of it, or of an earlier
\* record of the round, was answered: Recover sends the records in their order
\* and sends none of another round while a success of the last can still come.
THEOREM MarkedIsExplained == Spec => []RecoveredExplained
<1>FewerHopes.
      ASSUME NEW n, Fewer(n)
      PROVE  Hopes(n)' \subseteq Hopes(n)
  <2> USE <1>FewerHopes
  <2> SUFFICES ASSUME NEW x \in Hopes(n)' PROVE x \in Hopes(n)
    OBVIOUS
  <2>1. CASE \E r \in requests' : r.cb.call = n /\ r.id = x
    BY <2>1 DEF Fewer, Hopes, Ids
  <2>2. CASE \E w \in Workflows : rx'[w].found /\ rx'[w].cb.call = n /\ rx'[w].id = x
    <3>1. PICK w \in Workflows : rx'[w].found /\ rx'[w].cb.call = n /\ rx'[w].id = x
      BY <2>2
    <3>2. CASE rx'[w] = rx[w]
      BY <3>1, <3>2 DEF Hopes
    <3>3. CASE \E r \in requests : r.id = rx'[w].id /\ r.cb = rx'[w].cb
      BY <3>1, <3>3 DEF Hopes, Ids
    <3> QED
      BY <3>1, <3>2, <3>3 DEF Fewer
  <2> QED
    BY <2>1, <2>2 DEF Hopes, Ids
\* A step that leaves a call of Recover where it is, or counts its WaitGroup
\* down for a success and takes that one away.
<1>RoundsKeep.
      ASSUME Types, Types', NEW n \in DOMAIN calls, n \in DOMAIN calls', Rounds(n), Fewer(n),
             calls'[n].at = calls[n].at, calls'[n].e = calls[n].e, calls'[n].todo = calls[n].todo,
             calls'[n].ok => calls[n].ok /\ (calls'[n].wait = calls[n].wait
               \/ (calls'[n].wait = calls[n].wait - 1 /\ Hopes(n)' # Hopes(n)))
      PROVE  Rounds(n)'
  <2> USE <1>RoundsKeep
  <2>1. Hopes(n)' \subseteq Hopes(n)
    BY <1>FewerHopes
  <2>5. ASSUME NEW w \in Workflows, rx'[w].found, rx'[w].cb.call = n
        PROVE  rx'[w].cb.who <= calls'[n].e
    BY <2>5 DEF Rounds, Fewer
  <2>6. ASSUME calls'[n].ok PROVE IsFiniteSet(Hopes(n)') /\ Cardinality(Hopes(n)') <= calls'[n].wait
    <3>1. IsFiniteSet(Hopes(n)) /\ Cardinality(Hopes(n)) <= calls[n].wait
      BY <2>6 DEF Rounds
    <3>2. /\ IsFiniteSet(Hopes(n)') /\ Cardinality(Hopes(n)') <= Cardinality(Hopes(n))
          /\ Cardinality(Hopes(n)) = Cardinality(Hopes(n)') => Hopes(n)' = Hopes(n)
      BY <2>1, <3>1, FS_Subset
    <3>3. Cardinality(Hopes(n)) \in Nat /\ Cardinality(Hopes(n)') \in Nat
      BY <3>1, <3>2, FS_CardinalityType
    <3>4. calls[n].wait \in Nat
      BY CallHas
    <3> QED
      BY <3>1, <3>2, <3>3, <3>4, <2>6, SMTT(90)
  <2> QED
    BY <2>5, <2>6, <2>1 DEF Rounds, Fewer
\* The callbacks of a call of Recover are of its worker.
<1>RecoverNames.
      ASSUME Types, Forms, NEW n \in DOMAIN calls, calls[n].cmd = "Recover"
      PROVE  /\ n \in Nat /\ n # 0
             /\ \A r \in requests : r.cb.call = n => r.wf = calls[n].wf
             /\ \A w \in Workflows : rx[w].found /\ rx[w].cb.call = n =>
                  w = calls[n].wf /\ rx[w].cb.who = rx[w].id[2] /\ rx[w].id[1] = 0 /\ rx[w].id # Setup
  <2> USE <1>RecoverNames
  <2>1. n \in Nat /\ n # 0
    BY SMTT(90) DEF Types
  <2>2. \A r \in requests : r.cb.call = n => r.wf = calls[n].wf
    BY <2>1 DEF Forms, Names
  <2>3. \A w \in Workflows : rx[w].found /\ rx[w].cb.call = n =>
          w = calls[n].wf /\ rx[w].cb.who = rx[w].id[2] /\ rx[w].id[1] = 0 /\ rx[w].id # Setup
    BY <2>1 DEF Forms, Names
  <2> QED
    BY <2>1, <2>2, <2>3
<1>DeliverRounds.
      ASSUME Types, Types', Forms, NEW n \in DOMAIN calls, Rounds(n), calls'[n] = calls[n],
             n \in DOMAIN calls', NEW w, NEW m, m # n, NEW round, NEW ids, NEW published,
             deliverAsync(w, m, round, ids, published)
      PROVE  Rounds(n)'
  <2> USE <1>DeliverRounds
  <2>1. Fewer(n)
    BY SMTT(90) DEF deliverAsync, Fewer
  <2> QED
    BY <2>1, <1>RoundsKeep
\* The loop of Recover sends the least of the records left.
<1>ResendRounds.
      ASSUME Types, Types', Forms, NEW n \in DOMAIN calls, calls[n].cmd = "Recover",
             Rounds(n), Resend(n)
      PROVE  Rounds(n)'
  <2> USE <1>ResendRounds
  <2>1. PICK r, w, t, round : /\ r = First(calls[n].todo) /\ w = calls[n].wf /\ t = calls[n].todo
                              /\ round = calls[n].round
    OBVIOUS
  <2>2. /\ n # 0 /\ calls[n].at = "sending" /\ t # {} /\ r \in Nat
        /\ calls'[n].at = "sending" /\ calls'[n].ok = calls[n].ok
        /\ calls'[n].e = r /\ calls'[n].todo = t \ {r}
        /\ calls'[n].wait = calls[n].wait + 1
    BY <2>1, ResendDoes
  <2>3. PICK published \in SUBSET {<<0, r, 1>>} : deliverAsync(w, n, round, {<<0, r, 1>>}, published)
    BY <2>1, ResendDoes
  <2>4. t \in SUBSET Nat /\ calls[n].e \in Nat /\ calls[n].wait \in Nat
    BY <2>1, CallHas
  <2>5. r \in t /\ \A y \in t : r <= y
    BY <2>1, <2>2, <2>4, FirstIsLeast, SMTT(90)
  <2>6. Hopes(n) = {} \/ calls[n].e < r
    BY <2>1, <2>2, <2>5 DEF Rounds
  <2>7. /\ rx' = rx
        /\ \A q \in requests' : q.cb.call = n =>
             q \in requests \/ (q.id = <<0, r, 1>> /\ q.cb.who = r)
    BY <2>3, SMTT(90) DEF deliverAsync
  <2>8. \A q \in requests : q.cb.call = n => q.cb.who \in Nat /\ q.cb.who <= r
    <3> SUFFICES ASSUME NEW q \in requests, q.cb.call = n PROVE q.cb.who \in Nat /\ q.cb.who <= r
      OBVIOUS
    <3>1. q.cb.who \in Nat
      BY DEF Types, Req, CB
    <3>2. q.cb.who <= calls[n].e
      BY DEF Rounds
    <3>3. q.id \in Hopes(n)
      BY DEF Hopes, Ids
    <3> QED
      BY <2>2, <2>4, <2>6, <3>1, <3>2, <3>3, SMTT(90)
  <2>9. \A v \in Workflows : rx[v].found /\ rx[v].cb.call = n => rx[v].cb.who <= r
    <3> SUFFICES ASSUME NEW v \in Workflows, rx[v].found, rx[v].cb.call = n
                 PROVE  rx[v].cb.who <= r
      OBVIOUS
    <3>1. rx[v].cb.who \in Nat
      BY DEF Types, Rx, CB
    <3>2. rx[v].cb.who <= calls[n].e
      BY DEF Rounds
    <3>3. rx[v].id \in Hopes(n)
      BY DEF Hopes
    <3> QED
      BY <2>2, <2>4, <2>6, <3>1, <3>2, <3>3, SMTT(90)
  <2>10. \A q \in requests' : q.cb.call = n => q.cb.who <= calls'[n].e
    BY <2>2, <2>7, <2>8, SMTT(90)
  <2>12. \A y \in calls'[n].todo : calls'[n].e < y
    BY <2>2, <2>4, <2>5, SMTT(90)
  <2>13. ASSUME calls'[n].ok
         PROVE  IsFiniteSet(Hopes(n)') /\ Cardinality(Hopes(n)') <= calls'[n].wait
    <3>1. Hopes(n)' \subseteq Hopes(n) \union {<<0, r, 1>>}
      BY <2>7 DEF Hopes, Ids
    <3>2. IsFiniteSet(Hopes(n)) /\ Cardinality(Hopes(n)) <= calls[n].wait
      BY <2>2, <2>13 DEF Rounds
    <3>3. /\ IsFiniteSet(Hopes(n) \union {<<0, r, 1>>})
          /\ \/ Cardinality(Hopes(n) \union {<<0, r, 1>>}) = Cardinality(Hopes(n))
             \/ Cardinality(Hopes(n) \union {<<0, r, 1>>}) = Cardinality(Hopes(n)) + 1
      BY <3>2, FS_AddElement
    <3>4. /\ IsFiniteSet(Hopes(n)')
          /\ Cardinality(Hopes(n)') <= Cardinality(Hopes(n) \union {<<0, r, 1>>})
      BY <3>1, <3>3, FS_Subset
    <3>5. /\ Cardinality(Hopes(n)) \in Nat /\ Cardinality(Hopes(n)') \in Nat
          /\ Cardinality(Hopes(n) \union {<<0, r, 1>>}) \in Nat
      BY <3>2, <3>3, <3>4, FS_CardinalityType
    <3> QED
      BY <2>2, <2>4, <3>2, <3>3, <3>4, <3>5, SMTT(90)
  <2> QED
    BY <2>2, <2>10, <2>12, <2>13, <2>7, <2>9 DEF Rounds
\* A reply takes its request away, and the one being handled with it.
<1>HandleRounds.
      ASSUME Types, Types', Forms, Once, ~ panicked, ~ panicked', NEW v \in Workflows, HandleReply(v),
             NEW n \in DOMAIN calls, calls[n].cmd = "Recover", Rounds(n)
      PROVE  Rounds(n)'
  <2> USE <1>HandleRounds
  <2>1. /\ rx[v].busy /\ rx'[v] = Idle
        /\ \A u \in Workflows : u # v => rx'[u] = rx[u]
        /\ requests' = requests \ Request(v, rx[v].id)
        /\ rx[v].found => Callback(v, rx[v].cb, rx[v].how)
        /\ ~ rx[v].found => UNCHANGED <<worker, calls, panicked>>
    BY HandleDoes
  <2>2. Fewer(n)
    <3>1. \A u \in Workflows : rx'[u] = rx[u] \/ ~ rx'[u].found
      BY <2>1, SMTT(90) DEF Idle
    <3> QED
      BY <2>1, <3>1 DEF Fewer
  <2>3. CASE ~ rx[v].found
    BY <2>1, <2>2, <2>3, <1>RoundsKeep
  <2>4. CASE rx[v].found
    <3>1. rx[v].cb \in CB /\ Names(v, rx[v].id, rx[v].cb) /\ Callback(v, rx[v].cb, rx[v].how)
      BY <2>1, <2>4 DEF Types, Rx, Forms
    <3>2. n \in DOMAIN calls' /\ (n # rx[v].cb.call => calls'[n] = calls[n])
      BY <3>1, CallbackGrows
    <3>3. CASE rx[v].cb.call # n
      BY <2>2, <3>2, <3>3, <1>RoundsKeep
    <3>4. CASE rx[v].cb.call = n
      <4>1. n \in Nat /\ n # 0 /\ v = calls[n].wf
        BY <2>4, <3>4, <1>RecoverNames
      <4>2. PICK good \in BOOLEAN : Outcome(v, rx[v].cb, rx[v].how, good)
        BY <3>1, <3>4, <4>1, CallbackDoes DEF panic
      <4>4. rx[v].id \in Hopes(n)
        BY <2>4, <3>4 DEF Hopes
      <4>5. rx[v].id \notin Hopes(n)'
        <5>1. \A r \in requests' : r.cb.call = n => r.id # rx[v].id
          BY <2>1, <4>1, <1>RecoverNames DEF Request
        <5>2. \A u \in Workflows : ~ (rx'[u].found /\ rx'[u].cb.call = n)
          BY <2>1, <4>1, <1>RecoverNames, SMTT(90) DEF Idle
        <5> QED
          BY <5>1, <5>2 DEF Hopes, Ids
      <4> QED
        BY <2>2, <3>2, <4>4, <4>5, <1>RoundsKeep, <3>4, <4>2 DEF Outcome
    <3> QED
      BY <3>3, <3>4
  <2> QED
    BY <2>3, <2>4
\* A callback run for a timeout makes its call fail.
<1>WatchRounds.
      ASSUME Types, Types', Forms, ~ panicked, ~ panicked', NEW g \in watchers, Watch(g),
             NEW n \in DOMAIN calls, calls[n].cmd = "Recover", Rounds(n)
      PROVE  Rounds(n)'
  <2> USE <1>WatchRounds
  <2>1. CASE TimeUp(g)
    BY <2>1, TimeUpDoes, <1>RoundsKeep DEF Fewer
  <2>2. CASE TimeoutLeaves(g)
    BY <1>RoundsKeep, <2>2, LeavesDoes DEF Fewer
  <2>3. CASE TimeoutCalls(g)
    <3>1. /\ g \in Watcher /\ g.found /\ Callback(g.wf, g.cb, "error")
          /\ UNCHANGED <<requests, rx>>
      BY <2>3, CallsDoes
    <3>2. g.wf \in Workflows /\ g.cb \in CB /\ Names(g.wf, g.id, g.cb)
      BY <3>1 DEF Watcher, Forms
    <3>3. Fewer(n)
      BY <3>1 DEF Fewer
    <3>4. n \in DOMAIN calls' /\ (n # g.cb.call => calls'[n] = calls[n])
      BY <3>1, <3>2, CallbackGrows
    <3>5. CASE g.cb.call # n
      BY <3>3, <3>4, <3>5, <1>RoundsKeep
    <3>6. CASE g.cb.call = n
      <4>1. n # 0
        BY <1>RecoverNames
      <4>2. PICK good \in BOOLEAN : Outcome(g.wf, g.cb, "error", good)
        BY <3>1, <3>2, <3>6, <4>1, CallbackDoes DEF panic
      <4> QED
        BY <3>3, <3>4, <1>RoundsKeep, <3>6, <4>2 DEF Outcome
    <3> QED
      BY <3>5, <3>6
  <2> QED
    BY <2>1, <2>2, <2>3 DEF Watch
<1>CallRounds.
      ASSUME Types, Types', Forms, Once, Onward, NEW m \in DOMAIN calls, Call(m),
             NEW n \in DOMAIN calls, calls[n].cmd = "Recover", Rounds(n)
      PROVE  Rounds(n)'
  <2> USE <1>CallRounds
  <2>0. n \in DOMAIN calls'
    BY DEF Onward
  <2>1. CASE Destroy(m)
    <3>2. PICK w, ids : /\ Changed(m)
                        /\ \E published \in SUBSET ids : deliverAsync(w, m, 0, ids, published)
      BY <2>1, DestroyDoes
    <3> QED
      BY <2>0, <3>2, <1>DeliverRounds, <2>1 DEF Changed, Destroy
  <2>2. CASE Resend(m)
    <3>1. CASE n = m
      BY <2>2, <3>1, <1>ResendRounds
    <3>2. CASE n # m
      <4>1. PICK w, ids, round :
              /\ Changed(m)
              /\ \E published \in SUBSET ids : deliverAsync(w, m, round, ids, published)
        BY <2>2, ResendDoes
      <4> QED
        BY <2>0, <3>2, <4>1, <1>DeliverRounds DEF Changed
    <3> QED
      BY <3>1, <3>2
  <2>3. CASE NoWorker(m) \/ DestroyReturns(m) \/ Fetch(m) \/ RoundEnds(m)
    <3>1. /\ Changed(m) /\ UNCHANGED <<requests, rx>>
          /\ calls'[m].wait = calls[m].wait /\ calls'[m].e = calls[m].e
          /\ calls'[m].ok => calls[m].ok
          /\ calls'[m].at \in {"returned", "sending", "fetching"}
          /\ calls'[m].at = "sending" => Fetch(m)
          /\ calls'[m].at = "fetching" =>
               calls[m].at = "sending" /\ calls[m].ok /\ calls[m].wait = 0
      BY <2>3, CallMoves
    <3>2. Fewer(n) /\ Hopes(n)' = Hopes(n)
      BY <3>1 DEF Fewer, Hopes, Ids
    <3>3. CASE n # m
      BY <3>1, <3>3, <2>0, <3>2, <1>RoundsKeep DEF Changed
    <3>4. CASE n = m
      <4>2. calls'[n].at = "fetching" => Hopes(n)' = {}
        <5> SUFFICES ASSUME calls'[n].at = "fetching" PROVE Hopes(n)' = {}
          OBVIOUS
        <5>1. IsFiniteSet(Hopes(n)) /\ Cardinality(Hopes(n)) <= 0
          BY <3>1, <3>4 DEF Rounds
        <5>3. Cardinality(Hopes(n)) = 0
          BY <5>1, FS_CardinalityType, SMTT(90)
        <5> QED
          BY <3>2, <5>1, <5>3, FS_EmptySet
      <4> QED
        BY <3>1, <3>4, <4>2, <3>2 DEF Rounds, Fetch
    <3> QED
      BY <3>3, <3>4
  <2> QED
    BY <2>1, <2>2, <2>3 DEF Call
<1>OtherRounds.
      ASSUME Types, Types', Forms, Marks, ~ panicked,
             \/ Dispatch
             \/ \E w \in Workflows : Run(w)
             \/ \E w \in Workflows : ReadReply(w)
             \/ \E m \in sent : Answer(m),
             NEW n \in DOMAIN calls', calls'[n].cmd = "Recover"
      PROVE  Rounds(n)'
  <2> USE <1>OtherRounds
  <2>1. CASE Dispatch
    <3>1. UNCHANGED <<requests, rx>>
      BY <2>1, DispatchDoes
    <3>2. CASE n \in DOMAIN calls /\ calls'[n] = calls[n]
      BY <3>2, <1>RoundsKeep, <3>1 DEF Marks, Fewer
    <3>3. CASE n \notin DOMAIN calls /\ calls'[n] = NewCall(Head(events))
      <4>1. n \in Nat /\ n # 0
        BY SMTT(90) DEF Types
      <4>2. \A r \in requests' : r.cb.call # n
        BY <3>1, <3>3, <4>1, SMTT(90) DEF Forms, Names
      <4>3. \A w \in Workflows : ~ (rx'[w].found /\ rx'[w].cb.call = n)
        BY <3>1, <3>3, <4>1 DEF Forms, Names
      <4>4. Hopes(n)' = {}
        BY <4>2, <4>3 DEF Hopes, Ids
      <4>5. IsFiniteSet(Hopes(n)') /\ Cardinality(Hopes(n)') = 0
        BY <4>4, FS_EmptySet
      <4>6. calls'[n].at = "begun" /\ calls'[n].wait = 0
        BY <3>3, SMTT(90) DEF NewCall
      <4> QED
        BY <4>2, <4>3, <4>4, <4>5, <4>6, SMTT(90) DEF Rounds
    <3>4. \/ n \in DOMAIN calls /\ calls'[n] = calls[n]
          \/ n \notin DOMAIN calls /\ calls'[n] = NewCall(Head(events))
      BY <2>1, DispatchDoes, SMTT(90)
    <3> QED
      BY <3>2, <3>3, <3>4
  <2>2. ASSUME NEW w \in Workflows, Run(w) PROVE Rounds(n)'
    <3>1. /\ UNCHANGED <<calls, rx>>
          /\ \A r \in requests' : r \in requests \/ r = [wf |-> w, id |-> Setup, cb |-> None]
      BY <2>2, RunDoes, SMTT(90)
    <3>2. n \in DOMAIN calls /\ calls'[n] = calls[n] /\ n # 0
      BY <3>1, SMTT(90) DEF Types
    <3> QED
      BY <3>2, <1>RoundsKeep, <3>1, SMTT(90) DEF Marks, Fewer, None
  <2>3. ASSUME NEW w \in Workflows, ReadReply(w) PROVE Rounds(n)'
    BY <1>RoundsKeep, <2>3, ReadDoes, SMTT(90) DEF Marks, Fewer
  <2>4. ASSUME NEW m \in sent, Answer(m) PROVE Rounds(n)'
    BY <2>4, AnswerDoes, <1>RoundsKeep DEF Marks, Fewer
  <2> QED
    BY <2>1, <2>2, <2>3, <2>4
\* A record is marked by the callback of a reply only.
<1>MarkedStep.
      ASSUME Types, Types', Forms, Once, Onward, Marks, ~ panicked, Next
      PROVE  RecoveredExplained'
  <2> USE <1>MarkedStep
  <2>0. /\ plan' = plan
        /\ \A w \in Workflows : seen.answered[w] \subseteq seen'.answered[w]
    BY DEF Onward
  <2>a. ASSUME NEW w \in Workflows, NEW r \in plan.records[w] \ open[w]
        PROVE  r \in seen'.answered[w] \/ \E q \in seen'.answered[w] : q < r
    BY <2>0 DEF Marks, RecoveredExplained
  <2>1. CASE open' = open
    BY <2>0, <2>a, <2>1 DEF RecoveredExplained
  <2>2. ASSUME NEW w \in Workflows, NEW cb \in CB, NEW id, NEW how, Callback(w, cb, how),
               Names(w, id, cb), open' # open
        PROVE  /\ how = "success" /\ cb.call \in DOMAIN calls /\ calls[cb.call].cmd = "Recover"
               /\ open'[w] = open[w] \ {calls[cb.call].e}
               /\ \A v \in Workflows : v # w => open'[v] = open[v]
    <3>1. cb.call = 0 \/ cb.call \in DOMAIN calls
      BY <2>2 DEF Names
    <3>2. PICK good \in BOOLEAN : Outcome(w, cb, how, good)
      BY <2>2, <3>1, CallbackDoes DEF panic
    <3>3. /\ ~ IsDestroy(cb) /\ how = "success" /\ cb.call # 0
          /\ open'[w] = open[w] \ {calls[cb.call].e} /\ cb.call \in DOMAIN calls
      BY <2>2, <3>2 DEF Outcome
    <3> QED
      BY <3>3, CallHas, <2>2, <3>1, CallbackDoes DEF IsDestroy
  <2>3. ASSUME NEW w \in Workflows, HandleReply(w), open' # open PROVE RecoveredExplained'
    <3>1. rx[w].busy /\ rx[w].found /\ Callback(w, rx[w].cb, rx[w].how)
      BY <2>3, HandleDoes
    <3>2. rx[w].cb \in CB /\ Names(w, rx[w].id, rx[w].cb)
      BY <3>1 DEF Types, Rx, Forms
    <3>3. PICK n : n = rx[w].cb.call
      OBVIOUS
    <3>4. /\ rx[w].how = "success" /\ n \in DOMAIN calls /\ calls[n].cmd = "Recover"
          /\ open'[w] = open[w] \ {calls[n].e}
          /\ \A v \in Workflows : v # w => open'[v] = open[v]
      BY <2>2, <2>3, <3>1, <3>2, <3>3, SMTT(90)
    <3>7. rx[w].cb.who <= calls[n].e
      BY <3>1, <3>3, <3>4 DEF Marks, Rounds
    <3>9. rx[w].cb.who = calls[n].e \/ rx[w].cb.who < calls[n].e
      BY <3>7, <3>2, <3>4, CallHas, SMTT(90) DEF CB
    <3>10. rx[w].cb.who \in seen.answered[w]
      BY <3>1, <3>3, <3>4, <1>RecoverNames DEF Forms, Replied
    <3> QED
      BY <2>0, <2>a, <3>4, <3>9, <3>10 DEF RecoveredExplained
  <2>4. ASSUME NEW g \in watchers, TimeoutCalls(g) PROVE open' = open
    <3>1. /\ g \in Watcher /\ g.found /\ Callback(g.wf, g.cb, "error")
      BY <2>4, CallsDoes
    <3> QED
      BY <2>2, <3>1, SMTT(90) DEF Watcher, Forms
  <2>5. ASSUME NEW n \in DOMAIN calls, Call(n) PROVE open' = open
    BY <2>5 DEF Call, Destroy, NoWorker, DestroyReturns, Fetch, Resend, RoundEnds
  <2>6. ASSUME NEW g \in watchers, TimeUp(g) \/ TimeoutLeaves(g) PROVE open' = open
    BY <2>6 DEF TimeUp, TimeoutLeaves
  <2>7. ASSUME NEW w \in Workflows, Run(w) \/ ReadReply(w) PROVE open' = open
    BY <2>7 DEF Run, RunStarts, RunFails, RunEnds, ConnCloses, ReadReply
  <2> QED
    BY <2>1, <2>3, <2>4, <2>5, <2>6, <2>7 DEF Next, Receive, Watch, Dispatch, Answer
<1>1. Init => Marks
  <2> SUFFICES ASSUME Init PROVE Marks
    OBVIOUS
  <2>1. DOMAIN calls = {} /\ \A w \in Workflows : plan.records[w] \ open[w] = {}
    BY SMTT(90) DEF Init
  <2> QED
    BY <2>1 DEF Marks, RecoveredExplained
<1>2. Inv /\ Inv' /\ Marks /\ [Next]_vars => Marks'
  <2> SUFFICES ASSUME Inv, Inv', Marks, [Next]_vars PROVE Marks'
    OBVIOUS
  <2>1. CASE Next
    <3>1. Types /\ Types' /\ Forms /\ Forms' /\ Once
      BY DEF Inv
    <3>2. Onward /\ ~ panicked
      BY <2>1, <3>1, GoesOnward
    <3>4. ASSUME ~ panicked', NEW n \in DOMAIN calls', calls'[n].cmd = "Recover" PROVE Rounds(n)'
      <4>1. CASE \/ Dispatch
                 \/ \E w \in Workflows : Run(w)
                 \/ \E w \in Workflows : ReadReply(w)
                 \/ \E m \in sent : Answer(m)
        BY <3>1, <3>2, <3>4, <4>1, <1>OtherRounds
      <4>2. CASE \E w \in Workflows : HandleReply(w)
        <5>1. PICK w \in Workflows : HandleReply(w)
          BY <4>2
        <5>2. n \in DOMAIN calls
          <6>1. CASE ~ rx[w].found
            BY <3>1, <3>4, <5>1, <6>1, HandleDoes
          <6>2. CASE rx[w].found
            <7>1. /\ rx[w].cb \in CB /\ Names(w, rx[w].id, rx[w].cb)
                  /\ Callback(w, rx[w].cb, rx[w].how)
              BY <3>1, <5>1, <6>2, HandleDoes DEF Types, Rx, Forms
            <7> QED
              BY <3>1, <3>4, <7>1, CallbackGrows
          <6> QED
            BY <6>1, <6>2
        <5>3. calls[n].cmd = "Recover" /\ Rounds(n)
          BY <3>2, <3>4, <5>2 DEF Onward, Marks
        <5> QED
          BY <3>1, <3>2, <3>4, <5>1, <5>2, <5>3, <1>HandleRounds
      <4>3. CASE \E m \in DOMAIN calls : Call(m)
        <5>1. PICK m \in DOMAIN calls : Call(m)
          BY <4>3
        <5>2. n \in DOMAIN calls
          BY <3>1, <3>4, <5>1, DestroyDoes, ResendDoes, CallMoves DEF Call, Changed
        <5>3. calls[n].cmd = "Recover" /\ Rounds(n)
          BY <3>2, <3>4, <5>2 DEF Onward, Marks
        <5> QED
          BY <3>1, <3>2, <5>1, <5>2, <5>3, <1>CallRounds
      <4>4. CASE \E g \in watchers : Watch(g)
        BY <4>4, <3>4, <3>1, CallsDoes, CallbackGrows, <3>2, <1>WatchRounds DEF TimeUp,
           TimeoutLeaves, Watcher, Forms, Watch, Onward, Marks
      <4> QED
        BY <2>1, <4>1, <4>2, <4>3, <4>4 DEF Next, Receive
    <3> QED
      BY <3>4, <2>1, <3>1, <3>2, <1>MarkedStep DEF Marks
  <2>2. CASE UNCHANGED vars
    <3>1. UNCHANGED <<plan, open, calls, requests, rx, panicked, seen>>
      BY <2>2 DEF vars
    <3>3. \A n : Hopes(n)' = Hopes(n)
      BY <3>1 DEF Hopes, Ids
    <3> QED
      BY <3>1, <3>3 DEF Marks, RecoveredExplained, Rounds
  <2> QED
    BY <2>1, <2>2
<1>3. Marks => RecoveredExplained
  BY DEF Marks
<1> QED
  BY <1>1, <1>2, <1>3, InvAlways, PTL DEF Spec

=============================================================================
