------------------------------ MODULE Triggers ------------------------------
(***************************************************************************)
(* A trigger runs a broker, a channel or a task of a workflow, once or on  *)
(* a schedule.  Three parties keep a trace of it, with nothing that holds  *)
(* them together: the row of the table triggers, written by the handlers   *)
(* of the HTTP server; the message TRIGGER-<workflow>, which is lost when  *)
(* no worker is subscribed; and the entry in one of the three crons of the *)
(* runner, which all its workers share (scheduler.go).                     *)
(*                                                                         *)
(* An entry's job blocks on the channel of its worker, and the loop        *)
(* handleTriggerSchedule of that worker runs the jobs one after another.   *)
(***************************************************************************)
EXTENDS Naturals, Sequences

CONSTANTS
  Workflows,
  Plans         \* [trigger, deleted, silent, stops, crashes]: what happens

\* Row ids begin at 1, and a row of triggers names a workflow.
ASSUME PlansAssumption ==
  \A p \in Plans : \A t \in DOMAIN p.trigger :
    t # 0 /\ p.trigger[t].wf \in Workflows

VARIABLES
  plan,         \* the scenario: the triggers asked for, those deleted again,
                \* the workflows whose broker never answers
  triggers,     \* the table: trigger -> the status of its row
  adding,       \* trigger -> where TriggerWorkflow is
  deleting,     \* trigger -> where DeleteTriggerWorkflow is
  subject,      \* workflow -> the messages its subscription holds
  worker,       \* workflow -> how far Run of its worker has come
  callback,     \* workflow -> what its subscription's callback is doing
  entries,      \* the entries of the runner's three crons
  ticking,      \* the crons that run
  senders,      \* workflow -> the jobs blocked on its triggerCh
  loop,         \* workflow -> the trigger handleTriggerSchedule is running
  destroying,   \* the workflows in Worker.Destroy
  dropped,      \* the workflows whose row is deleted
  left,         \* the calls of Destroy and the crashes still to come
  seen          \* history, read by no action

vars == <<plan, triggers, adding, deleting, subject, worker, callback, entries,
          ticking, senders, loop, destroying, dropped, left, seen>>
http == <<adding, deleting>>
sched == <<entries, ticking, senders, loop>>
ending == <<destroying, dropped, left>>

Kinds == {"task", "broker", "channel"}
None == 0

\* trigger -> [wf, kind, id, schedule]; schedule is "" to run once, "good" for
\* one the cron's parser accepts and "bad" for one it refuses.
Ids == DOMAIN plan.trigger
Of(t) == plan.trigger[t]
Object(t) == <<Of(t).kind, Of(t).id>>
EntriesOf(t) == {e \in entries : Object(e.t) = Object(t)}
Idle == [t |-> None, at |-> "idle", live |-> FALSE]
Subscribed == {"subscribed", "points", "listening"}

TypeOK ==
  /\ triggers \in [Ids -> {"none", "deliver", "scheduled"}]
  /\ adding \in [Ids -> {"new", "inserted", "done"}]
  /\ deleting \in [Ids -> {"no", "read", "deleted", "done"}]
  /\ worker \in [Workflows -> Subscribed \union {"off", "closed"}]
  /\ entries \subseteq [t : Ids, live : BOOLEAN]
  /\ ticking \subseteq Kinds
  /\ destroying \subseteq Workflows /\ dropped \subseteq Workflows

Init ==
  /\ plan \in Plans
  /\ triggers = [t \in Ids |-> "none"]
  /\ adding = [t \in Ids |-> "new"]
  /\ deleting = [t \in Ids |-> "no"]
  /\ subject = [w \in Workflows |-> <<>>]
  /\ worker = [w \in Workflows |-> "off"]
  /\ callback = [w \in Workflows |-> Idle]
  /\ entries = {} /\ ticking = {}
  /\ senders = [w \in Workflows |-> <<>>]
  /\ loop = [w \in Workflows |-> None]
  /\ destroying = {} /\ dropped = {}
  /\ left = [stops |-> plan.stops, crashes |-> plan.crashes]
  /\ seen = [replaced |-> {}, forgotten |-> {}, late |-> {}, doubled |-> {}]

-----------------------------------------------------------------------------
(* The handlers of the HTTP server.  Each is a goroutine of its own.       *)

\* NATS gives a message to the subscriptions there are, and keeps none.
Published(w, m) ==
  IF worker[w] \in Subscribed THEN [subject EXCEPT ![w] = Append(@, m)]
                              ELSE subject

\* Mutant of InsertTrigger: the row is written as if the runner had it.
InsertTriggerScheduled(t) ==
  /\ adding[t] = "new" /\ Of(t).wf \notin dropped
  /\ adding' = [adding EXCEPT ![t] = "inserted"]
  /\ triggers' = [triggers EXCEPT ![t] = "scheduled"]
  /\ UNCHANGED <<plan, deleting, subject, worker, callback, sched, ending, seen>>

\* TriggerWorkflow: the row first, which refers to the workflow's row.
InsertTrigger(t) ==
  /\ adding[t] = "new"
  /\ IF Of(t).wf \in dropped
       THEN adding' = [adding EXCEPT ![t] = "done"] /\ UNCHANGED triggers
       ELSE adding' = [adding EXCEPT ![t] = "inserted"]
            /\ triggers' = [triggers EXCEPT ![t] = "deliver"]
  /\ UNCHANGED <<plan, deleting, subject, worker, callback, sched, ending, seen>>

PublishTrigger(t) ==
  /\ adding[t] = "inserted"
  /\ adding' = [adding EXCEPT ![t] = "done"]
  /\ subject' = Published(Of(t).wf, [t |-> t, action |-> ""])
  /\ UNCHANGED <<plan, triggers, deleting, worker, callback, sched, ending, seen>>

\* DeleteTriggerWorkflow reads the row, deletes it and publishes what it read.
GetTriggersByID(t) ==
  /\ t \in plan.deleted /\ deleting[t] = "no"
  /\ triggers[t] # "none"
  /\ deleting' = [deleting EXCEPT ![t] = "read"]
  /\ UNCHANGED <<plan, triggers, adding, subject, worker, callback, sched,
                 ending, seen>>

DeleteTriggerByID(t) ==
  /\ deleting[t] = "read"
  /\ deleting' = [deleting EXCEPT ![t] = "deleted"]
  /\ triggers' = [triggers EXCEPT ![t] = "none"]
  /\ UNCHANGED <<plan, adding, subject, worker, callback, sched, ending, seen>>

PublishDelete(t) ==
  /\ deleting[t] = "deleted"
  /\ deleting' = [deleting EXCEPT ![t] = "done"]
  /\ subject' = Published(Of(t).wf, [t |-> t, action |-> "delete"])
  /\ seen' = [seen EXCEPT !.late = IF adding[t] = "done" THEN @ ELSE @ \union {t}]
  /\ UNCHANGED <<plan, triggers, adding, worker, callback, sched, ending>>

-----------------------------------------------------------------------------
(* The worker comes up: the subscription first, then the points RunBroker  *)
(* and RunChannel look up, then the channel the jobs send on.              *)

\* startInitWorkflow and Run up to setPoints.
Subscribe(w) ==
  /\ worker[w] = "off" /\ w \notin dropped
  /\ worker' = [worker EXCEPT ![w] = "subscribed"]
  /\ UNCHANGED <<plan, triggers, http, subject, callback, sched, ending, seen>>

SetPoints(w) ==
  /\ worker[w] = "subscribed"
  /\ worker' = [worker EXCEPT ![w] = "points"]
  /\ UNCHANGED <<plan, triggers, http, subject, callback, sched, ending, seen>>

\* The beginning of handleTriggerSchedule, in a goroutine of Run.
SetTriggerCh(w) ==
  /\ worker[w] = "points"
  /\ worker' = [worker EXCEPT ![w] = "listening"]
  /\ UNCHANGED <<plan, triggers, http, subject, callback, sched, ending, seen>>

\* The process ends, by a panic or otherwise, and is started again.  Nothing
\* reads the table triggers when it starts.
Restarted ==
  /\ worker' = [w \in Workflows |-> "off"]
  /\ subject' = [w \in Workflows |-> <<>>]
  /\ callback' = [w \in Workflows |-> Idle]
  /\ loop' = [w \in Workflows |-> None]
  /\ senders' = [w \in Workflows |-> <<>>]
  /\ entries' = {} /\ ticking' = {} /\ destroying' = {}
  /\ seen' = [seen EXCEPT !.forgotten =
                @ \union {t \in Ids : triggers[t] = "scheduled"}]

Crash ==
  /\ left.crashes > 0
  /\ left' = [left EXCEPT !.crashes = @ - 1]
  /\ Restarted
  /\ UNCHANGED <<plan, triggers, http, dropped>>

-----------------------------------------------------------------------------
(* handleTrigger, run by the subscription's callback: one message at a     *)
(* time for a workflow, and at the same time for two workflows.            *)

\* RemoveTask, RemoveBroker, RemoveChannel: one entry of the object, whatever
\* trigger it is of.
RemoveEntry(t) ==
  \/ EntriesOf(t) = {} /\ UNCHANGED entries
  \/ \E e \in EntriesOf(t) : entries' = entries \ {e}

\* The other triggers whose entry this step takes away.
Ousted(t) == {e.t : e \in entries \ entries'} \ {t}

Handling(w, action) ==
  /\ worker[w] \in Subscribed
  /\ callback[w] = Idle
  /\ subject[w] # <<>> /\ Head(subject[w]).action = action
  /\ subject' = [subject EXCEPT ![w] = Tail(@)]

\* Mutant of HandleDelete: the entry stays.
HandleDeleteNot(w) ==
  /\ Handling(w, "delete")
  /\ UNCHANGED <<plan, triggers, http, worker, callback, sched, ending, seen>>

HandleDelete(w) ==
  /\ Handling(w, "delete")
  /\ LET t == Head(subject[w]).t IN
     /\ RemoveEntry(t)
     /\ seen' = [seen EXCEPT !.replaced = @ \union Ousted(t)]
  /\ UNCHANGED <<plan, triggers, http, worker, callback, ticking, senders, loop,
                 ending>>

\* AddTask, AddBroker, AddChannel: the object's entry goes, whether the new
\* trigger has a schedule or not.  The broker and the channel are copied here,
\* with the channel they send on, if they have one by now.
HandleAdd(w) ==
  /\ Handling(w, "")
  /\ LET t == Head(subject[w]).t IN
     /\ RemoveEntry(t)
     /\ callback' = [callback EXCEPT ![w] =
          [t |-> t, at |-> "add", live |-> worker[w] = "listening"]]
     /\ seen' = [seen EXCEPT !.replaced = @ \union Ousted(t)]
  /\ UNCHANGED <<plan, triggers, http, worker, ticking, senders, loop, ending>>

Goes(w, from, to) ==
  /\ callback[w].at = from
  /\ callback' = [callback EXCEPT ![w].at = to]

\* AddJob and Start.
AddJob(w) ==
  LET t == callback[w].t IN
  /\ Goes(w, "add", "update") /\ Of(t).schedule = "good"
  /\ entries' = entries \union {[t |-> t, live |-> callback[w].live]}
  /\ ticking' = ticking \union {Of(t).kind}
  /\ seen' = [seen EXCEPT !.doubled =
                @ \union UNION {{e.t, t} : e \in EntriesOf(t)}]
  /\ UNCHANGED <<plan, triggers, http, subject, worker, senders, loop, ending>>

\* The cron's parser refuses the schedule; handleTrigger ignores the error.
AddJobFails(w) ==
  /\ Goes(w, "add", "update") /\ Of(callback[w].t).schedule = "bad"
  /\ UNCHANGED <<plan, triggers, http, subject, worker, sched, ending, seen>>

\* Without a schedule the object is run in the callback.
RunNow(w) ==
  LET t == callback[w].t IN
  /\ Goes(w, "add", "run") /\ Of(t).schedule = ""
  /\ Of(t).kind # "task" => worker[w] # "subscribed"
  /\ UNCHANGED <<plan, triggers, http, subject, worker, sched, ending, seen>>

\* RunBroker and RunChannel dereference a point that is not there yet.
RunPanics(w) ==
  LET t == callback[w].t IN
  /\ callback[w].at = "add" /\ Of(t).schedule = ""
  /\ Of(t).kind # "task" /\ worker[w] = "subscribed"
  /\ Restarted
  /\ UNCHANGED <<plan, triggers, http, dropped, left>>

\* RunBroker waits for the result of processBroker; RunChannel waits for
\* nothing and RunTask does nothing.
Hangs(t) == Of(t).kind = "broker" /\ Of(t).wf \in plan.silent

RunReturns(w) ==
  /\ Goes(w, "run", "update") /\ ~ Hangs(callback[w].t)
  /\ UNCHANGED <<plan, triggers, http, subject, worker, sched, ending, seen>>

\* UpdateStatusByID changes the row if it is still there.
Updated(t) ==
  [triggers EXCEPT ![t] = IF @ = "none" THEN @ ELSE "scheduled"]

UpdateTrigger(w) ==
  /\ callback[w].at = "update"
  /\ callback' = [callback EXCEPT ![w] = Idle]
  /\ triggers' = Updated(callback[w].t)
  /\ UNCHANGED <<plan, http, subject, worker, sched, ending, seen>>

-----------------------------------------------------------------------------
(* The crons and the loop that serves them.                                *)

\* Run of a broker or a channel, in a goroutine of the cron: it blocks until
\* the loop receives, and for ever on the nil channel of an entry that is not
\* live.  At most one blocked job of a trigger is kept here.
Fire(t) ==
  /\ Of(t).kind \in ticking \ {"task"}
  /\ [t |-> t, live |-> TRUE] \in entries
  /\ \A i \in DOMAIN senders[Of(t).wf] : senders[Of(t).wf][i] # t
  /\ senders' = [senders EXCEPT ![Of(t).wf] = Append(@, t)]
  /\ UNCHANGED <<plan, triggers, http, subject, worker, callback, entries,
                 ticking, loop, ending, seen>>

\* triggerCh is never closed: the loop outlives its worker.
Receive(w) ==
  /\ loop[w] = None /\ senders[w] # <<>>
  /\ loop' = [loop EXCEPT ![w] = Head(senders[w])]
  /\ senders' = [senders EXCEPT ![w] = Tail(@)]
  /\ UNCHANGED <<plan, triggers, http, subject, worker, callback, entries,
                 ticking, ending, seen>>

\* Mutant of FinishTrigger: the loop waits for the answers to a channel, too.
FinishTriggerWaits(w) ==
  /\ loop[w] # None /\ Of(loop[w]).kind = "broker" /\ ~ Hangs(loop[w])
  /\ loop' = [loop EXCEPT ![w] = None]
  /\ triggers' = Updated(loop[w])
  /\ UNCHANGED <<plan, http, subject, worker, callback, entries, ticking,
                 senders, ending, seen>>

FinishTrigger(w) ==
  /\ loop[w] # None /\ ~ Hangs(loop[w])
  /\ loop' = [loop EXCEPT ![w] = None]
  /\ triggers' = Updated(loop[w])
  /\ UNCHANGED <<plan, http, subject, worker, callback, entries, ticking,
                 senders, ending, seen>>

-----------------------------------------------------------------------------
(* Worker.Destroy, as far as triggers see it: it begins by stopping the    *)
(* three crons, which are those of every workflow, and removes no entry.   *)

DestroyBegins(w) ==
  /\ left.stops > 0
  /\ worker[w] \in {"points", "listening"} /\ w \notin destroying
  /\ left' = [left EXCEPT !.stops = @ - 1]
  /\ destroying' = destroying \union {w}
  /\ ticking' = {}
  /\ UNCHANGED <<plan, triggers, http, subject, worker, callback, entries,
                 senders, loop, dropped, seen>>

\* Every client has cleared the workflow: its row goes, the rows that refer to
\* it go with it, and the worker's connection is closed.
DestroySucceeds(w) ==
  /\ w \in destroying
  /\ destroying' = destroying \ {w}
  /\ dropped' = dropped \union {w}
  /\ triggers' = [t \in Ids |-> IF Of(t).wf = w THEN "none" ELSE triggers[t]]
  /\ worker' = [worker EXCEPT ![w] = "closed"]
  /\ subject' = [subject EXCEPT ![w] = <<>>]
  /\ UNCHANGED <<plan, http, callback, sched, left, seen>>

DestroyFails(w) ==
  /\ w \in destroying
  /\ destroying' = destroying \ {w}
  /\ UNCHANGED <<plan, triggers, http, subject, worker, callback, sched,
                 dropped, left, seen>>

Next ==
  \/ \E t \in Ids :
       \/ InsertTrigger(t) \/ PublishTrigger(t)
       \/ GetTriggersByID(t) \/ DeleteTriggerByID(t) \/ PublishDelete(t)
       \/ Fire(t)
  \/ \E w \in Workflows :
       \/ Subscribe(w) \/ SetPoints(w) \/ SetTriggerCh(w)
       \/ HandleDelete(w) \/ HandleAdd(w) \/ AddJob(w) \/ AddJobFails(w)
       \/ RunNow(w) \/ RunPanics(w) \/ RunReturns(w) \/ UpdateTrigger(w)
       \/ Receive(w) \/ FinishTrigger(w)
       \/ DestroyBegins(w) \/ DestroySucceeds(w) \/ DestroyFails(w)
  \/ Crash

\* Go runs every goroutine that can run, and the time a schedule names comes.
\* Nothing is assumed of users, of crashes or of the end of a Destroy.
Fairness ==
  /\ \A t \in UNION {DOMAIN p.trigger : p \in Plans} :
       WF_vars(t \in Ids /\ Fire(t))
  /\ \A w \in Workflows : WF_vars(Receive(w)) /\ WF_vars(FinishTrigger(w))

Spec == Init /\ [][Next]_vars /\ Fairness

-----------------------------------------------------------------------------
(* Properties.                                                             *)

\* What the runner has scheduled is stored, or its deletion is on its way to
\* the worker - unless the deletion was published before the creation, the
\* workflow was destroyed with its entries in the crons, or two workers of
\* one user added a trigger of the same channel at the same time, so that a
\* deletion took the other's entry (handleTrigger; scheduler.go).
EntriesAreStored ==
  \A e \in entries :
    \/ triggers[e.t] # "none"
    \/ deleting[e.t] = "deleted"
    \/ \E i \in 1..Len(subject[Of(e.t).wf]) :
         subject[Of(e.t).wf][i] = [t |-> e.t, action |-> "delete"]
    \/ e.t \in seen.late
    \/ Of(e.t).wf \in dropped
    \/ e.t \in seen.doubled

\* A row whose status says that it is scheduled has its entry in a cron -
\* unless a message about another trigger of the same object took the entry
\* away, the runner was restarted since, or the schedule cannot be parsed,
\* which handleTrigger does not look at before UpdateTrigger.
ScheduledHasEntry ==
  \A t \in Ids :
    triggers[t] = "scheduled" /\ Of(t).schedule = "good" =>
      \/ \E e \in entries : e.t = t
      \/ t \in seen.replaced \union seen.forgotten

\* An entry goes on being run - until it is removed, or a call of Destroy, be
\* it of another workflow and without success, stops the crons, or the loop
\* of its worker waits for a broker that never answers.  An entry added
\* before handleTriggerSchedule set the channel is not live and never runs.
EntriesRun ==
  \A t \in UNION {DOMAIN p.trigger : p \in Plans} :
    []<>(\/ t \notin Ids
         \/ [t |-> t, live |-> TRUE] \notin entries
         \/ Of(t).kind \notin ticking \ {"task"}
         \/ loop[Of(t).wf] = t
         \/ loop[Of(t).wf] # None /\ Hangs(loop[Of(t).wf]))
====
