---------------------------- MODULE DaemonAgent ----------------------------
(***************************************************************************)
(* The agent of a kairos daemon, seen by one workflow: the loop that       *)
(* handles the server's commands (handleTaskEvent), the goroutines it      *)
(* starts, the bolt store they share, the cron of the scheduler and the    *)
(* subscribers of the brokers.  The daemon can die between any two steps   *)
(* (killed, or by a panic of one of its goroutines) and starts again from  *)
(* its store.                                                              *)
(*                                                                         *)
(* The hub hands every command over in a goroutine of its own, so commands *)
(* reach the loop in any order or, when the daemon dies, not at all, and a *)
(* command that the server repeats (a retry, a restarted runner) can come  *)
(* late.  The server starts a task once it knows that the task is set, and *)
(* sets nothing more after it asked for the workflow to be destroyed.      *)
(***************************************************************************)
EXTENDS Naturals, Sequences, FiniteSets, FiniteSetsExt

CONSTANTS
  Tasks,       \* ids of the workflow's tasks on this daemon, as numbers
  Scheduled,   \* the tasks with a Schedule
  Fed,         \* the tasks with an Input of their own
  Waiting,     \* the tasks whose Wait is "input"
  Brokers,     \* ids of the workflow's brokers on this daemon, as numbers
  Plans,       \* what may come: the brokers' templates, how often a command
               \*   reaches the daemon and how many writes of the store fail
  MaxRuns,     \* bound on the runs of a task at one time
  MaxStarts    \* bound on the starts of the daemon

ASSUME IdsAreNumbers == Tasks \subseteq Nat \ {0} /\ Brokers \subseteq Nat \ {0}

VARIABLES
  template,    \* broker |-> "good", "nofunc" (a function the scripts lack)
               \*   or "none" (no template)
  left,        \* command |-> how often it still comes, at most
  faults,      \* how many writes of the store still fail, at most
  asked,       \* a command to destroy the workflow was handled
  answered,    \* the tasks the server was told are set, before it asked for
               \*   the destruction of the workflow
  tasksBucket, brokersBucket,   \* the top-level buckets of the store
  workflowBucket,               \* the workflow's own buckets
  executed,    \* the tasks with an executions bucket
  queueBucket, \* task |-> the inputs that wait for its next run
  triggersBucket,               \* the tasks with a stored trigger
  up,          \* the daemon runs
  loop,        \* where handleTaskEvent is
  boot,        \* where the goroutine of StartServer is
  setups,      \* the running setupBroker goroutines
  triggers,    \* the running Trigger goroutines
  runs,        \* the goroutines that run a task
  Cron,        \* task |-> number of its entries in the cron
  BrokerWfs,   \* broker |-> its subscriber, 0 for none
  made,        \* broker |-> subscribers made since the start
  live,        \* the subscribers that are subscribed and not destroyed
  starts,
  seen         \* history, read by no action: see Init

input == <<template, left, faults, asked, answered>>
store == <<tasksBucket, brokersBucket, workflowBucket, executed, queueBucket,
           triggersBucket>>
subscribers == <<BrokerWfs, made, live>>
memory == <<loop, boot, setups, triggers, runs, Cron, subscribers>>
vars == <<input, store, up, memory, starts, seen>>

OfTask == {"SetTaskCmd", "TriggerStartTaskCmd", "InputTaskCmd", "TriggerCmd"}
Destroy == <<"RequestDestroyWf", 0>>
Cmds == (OfTask \X Tasks) \cup ({"SetBrokerCmd"} \X Brokers) \cup {Destroy}
Idle == [at |-> "idle"]
Done == [at |-> "done"]
\* the empty task that GetTask returns for an id the store lacks
NoTask == 0
NoEntry == [t \in Tasks \cup {NoTask} |-> 0]
Started == [loop |-> Idle, boot |-> [at |-> "start"], none |-> [b \in Brokers |-> 0]]

------------------------------------------------------------------------------
(***************************************************************************)
(* A panic in any goroutine ends the process, like a kill: the store stays *)
(* and everything else is lost.                                            *)
(***************************************************************************)
Die(history) ==
  /\ up' = FALSE
  /\ loop' = Started.loop /\ boot' = Started.boot
  /\ setups' = {} /\ triggers' = {} /\ runs' = {}
  /\ Cron' = NoEntry
  /\ BrokerWfs' = Started.none /\ made' = Started.none /\ live' = {}
  /\ seen' = [history EXCEPT !.raced = FALSE, !.unknown = FALSE, !.again = FALSE,
                             !.gone = FALSE, !.early = FALSE,
                             !.triggered = {}]
  /\ UNCHANGED <<input, store, starts>>

panic == Die([seen EXCEPT !.panics = @ + 1])

Crash == up /\ Die(seen)

\* Start: the store is opened again, the loop and the start-up goroutine run.
Start ==
  /\ ~up /\ starts < MaxStarts
  /\ up' = TRUE /\ starts' = starts + 1
  /\ UNCHANGED <<input, store, memory, seen>>

------------------------------------------------------------------------------
(***************************************************************************)
(* The subscribers.  Detach takes the subscriber out of every topic and    *)
(* destroys it, which closes its channel: a second time is a panic.        *)
(* setupBroker reads the broker's subscriber first and detaches, makes     *)
(* and sets a new one later; nothing keeps two of them apart.              *)
(***************************************************************************)
Detachable(b, s) == s = 0 \/ <<b, s>> \in live

\* Mutant: the old subscriber is not detached.
ResubscribeKeep(b, s) ==
  /\ live' = live \cup {<<b, made[b] + 1>>}
  /\ made' = [made EXCEPT ![b] = @ + 1]
  /\ BrokerWfs' = [BrokerWfs EXCEPT ![b] = made[b] + 1]

Resubscribe(b, s) ==
  /\ live' = (live \ {<<b, s>>}) \cup {<<b, made[b] + 1>>}
  /\ made' = [made EXCEPT ![b] = @ + 1]
  /\ BrokerWfs' = [BrokerWfs EXCEPT ![b] = made[b] + 1]

SettingUp(b) ==
  \/ \E g \in setups : g.broker = b
  \/ boot.at = "start"
  \/ boot.at \in {"brokers", "setup"} /\ b \in boot.todo

setupBrokerRead(g) ==
  /\ g.at = "begun"
  /\ setups' = (setups \ {g})
                 \cup {[g EXCEPT !.at = "read", !.s = BrokerWfs[g.broker]]}
  /\ UNCHANGED <<input, store, up, loop, boot, triggers, runs, Cron, subscribers,
                 starts, seen>>

setupBroker(g) ==
  /\ g.at = "read"
  /\ \/ ~Detachable(g.broker, g.s) /\ panic
     \/ /\ Detachable(g.broker, g.s)
        /\ Resubscribe(g.broker, g.s)
        /\ setups' = setups \ {g}
        /\ UNCHANGED <<input, store, up, loop, boot, triggers, runs, Cron, starts, seen>>

------------------------------------------------------------------------------
(***************************************************************************)
(* A run of a task.  A request for a scheduled task without an input of    *)
(* its own only goes into the queue; a run by the cron takes the first     *)
(* request out of it.  SetExecutionDone writes the task back in the        *)
(* transaction that has read it.                                           *)
(***************************************************************************)
Begin(t, by, n) == [task |-> t, by |-> by, n |-> n, at |-> "begun"]

SetQueue(r) ==
  /\ queueBucket' = [queueBucket EXCEPT ![r.task] = Append(@, r.n)]
  /\ runs' = runs \ {r}
  /\ UNCHANGED <<executed, seen>>

GetQueue(t) ==
  LET q == queueBucket[t]
  IN  /\ queueBucket' = [queueBucket EXCEPT ![t] = IF q = <<>> THEN q ELSE Tail(q)]
      /\ UNCHANGED seen

Execute(r) ==
  /\ executed' = executed \cup {r.task}
  /\ runs' = (runs \ {r}) \cup {[r EXCEPT !.at = "running"]}

Run(r) ==
  /\ r.at = "begun" /\ r.task # NoTask
  /\ \/ r.task \in Fed /\ Execute(r) /\ UNCHANGED <<queueBucket, seen>>
     \/ r.task \in Scheduled \ Fed /\ r.by = "request" /\ SetQueue(r)
     \/ /\ r.task \notin Scheduled \cup Fed /\ r.by = "request"
        /\ Execute(r) /\ UNCHANGED <<queueBucket, seen>>
     \/ r.task \notin Fed /\ r.by = "cron" /\ GetQueue(r.task) /\ Execute(r)
  /\ UNCHANGED <<input, tasksBucket, brokersBucket, workflowBucket, triggersBucket, up,
                 loop, boot, setups, triggers, Cron, subscribers, starts>>

\* task.Run of an empty task has no logger.
RunPanics(r) == r.at = "begun" /\ r.task = NoTask /\ panic

\* Mutant: the task is written back without being read again.
SetExecutionDoneBlind(r) ==
  /\ r.at = "running"
  /\ runs' = runs \ {r}
  /\ executed' = executed \cup {r.task}
  /\ tasksBucket' = tasksBucket \cup {r.task}
  /\ workflowBucket' = [workflowBucket EXCEPT !.tasks = @ \cup {r.task}]
  /\ UNCHANGED <<input, brokersBucket, queueBucket, triggersBucket, up, loop, boot,
                 setups, triggers, Cron, subscribers, starts, seen>>

SetExecutionDone(r) ==
  /\ r.at = "running"
  /\ runs' = runs \ {r}
  /\ executed' = IF r.task \in tasksBucket THEN executed \cup {r.task} ELSE executed
  /\ UNCHANGED <<tasksBucket, workflowBucket>>
  /\ UNCHANGED <<input, brokersBucket, queueBucket, triggersBucket, up, loop, boot,
                 setups, triggers, Cron, subscribers, starts, seen>>

\* The cron runs an entry.
Tick(t) ==
  /\ up /\ Cron[t] > 0
  /\ Cardinality({r \in runs : r.task = t}) < MaxRuns
  /\ LET used == {r.n : r \in {r \in runs : r.task = t /\ r.by = "cron"}}
     IN  runs' = runs \cup {Begin(t, "cron", Min(1..MaxRuns \ used))}
  /\ UNCHANGED <<input, store, up, loop, boot, setups, triggers, Cron, subscribers,
                 starts, seen>>

------------------------------------------------------------------------------
(***************************************************************************)
(* The scheduler's AddTask: the task's entry goes out of the cron in one   *)
(* step, and the new one comes in with another.                            *)
(***************************************************************************)
\* Mutant: the entry is not looked for.
RemovedNone(entries, ts) == entries

Removed(entries, ts) ==
  [t \in DOMAIN entries |-> IF t \in ts /\ entries[t] > 0 THEN entries[t] - 1 ELSE entries[t]]

(***************************************************************************)
(* handleTaskEvent: one command at a time.  A handler is one step, but for *)
(* those that touch the scheduler or the store more than once.             *)
(***************************************************************************)
Take(c) == up /\ loop.at = "idle" /\ left[c] > 0

\* The transactions that store a task, a broker and a trigger.
setTaskTxFunc(t) ==
  /\ tasksBucket' = tasksBucket \cup {t}
  /\ workflowBucket' = [workflowBucket EXCEPT !.tasks = @ \cup {t}]

setBrokerTxFunc(b) ==
  /\ brokersBucket' = brokersBucket \cup {b}
  /\ workflowBucket' = [workflowBucket EXCEPT !.brokers = @ \cup {b}]

setTrigger(t) == triggersBucket' = triggersBucket \cup {t}

\* The answer is a success even when the store fails.
SetTaskCmd(t) ==
  /\ \/ /\ setTaskTxFunc(t)
        /\ seen' = [seen EXCEPT !.late = @ \/ seen.destroyed]
        /\ UNCHANGED faults
     \/ /\ faults > 0 /\ faults' = faults - 1
        /\ UNCHANGED <<tasksBucket, workflowBucket, seen>>
  /\ answered' = IF asked THEN answered ELSE answered \cup {t}
  /\ UNCHANGED <<brokersBucket, executed, queueBucket, triggersBucket, memory>>

TriggerStartTaskCmd(t) ==
  /\ t \in answered
  /\ \/ /\ t \notin tasksBucket
        /\ runs' = runs \cup {Begin(NoTask, "cron", 0)}
        /\ seen' = [seen EXCEPT !.unknown = TRUE]
        /\ UNCHANGED <<loop, Cron>>
     \/ /\ t \in tasksBucket \ Scheduled
        /\ runs' = IF t \in Waiting THEN runs ELSE runs \cup {Begin(t, "cron", 0)}
        /\ UNCHANGED <<loop, Cron, seen>>
     \/ /\ t \in tasksBucket \cap Scheduled
        /\ Cron' = Removed(Cron, {t})
        /\ loop' = [at |-> "add", task |-> t]
        /\ seen' = [seen EXCEPT !.early = @ \/ boot # Done]
        /\ UNCHANGED runs
  /\ UNCHANGED <<answered, store, boot, setups, triggers, subscribers, faults>>

AddTask ==
  /\ up /\ loop.at = "add"
  /\ Cron' = [Cron EXCEPT ![loop.task] = @ + 1]
  /\ loop' = Idle
  /\ seen' = [seen EXCEPT !.started = @ \cup {loop.task}]
  /\ UNCHANGED <<input, store, up, boot, setups, triggers, runs, subscribers, starts>>

\* Mutant: the task is not checked.
InputTaskCmdUnchecked(t) ==
  /\ runs' = runs \cup {Begin(IF t \in tasksBucket THEN t ELSE NoTask, "request",
                              left[<<"InputTaskCmd", t>>])}
  /\ UNCHANGED <<answered, faults, store, loop, boot, setups, triggers, Cron,
                 subscribers, seen>>

\* Answered at once; the input of a task that the store lacks is dropped.
InputTaskCmd(t) ==
  /\ runs' = IF t \in tasksBucket
             THEN runs \cup {Begin(t, "request", left[<<"InputTaskCmd", t>>])}
             ELSE runs
  /\ UNCHANGED <<answered, faults, store, loop, boot, setups, triggers, Cron,
                 subscribers, seen>>

\* The broker is stored before its template is looked at.
SetBrokerCmd(b) ==
  /\ \/ /\ setBrokerTxFunc(b)
        /\ setups' = IF template[b] # "good" THEN setups
                     ELSE setups \cup {[broker |-> b, n |-> left[<<"SetBrokerCmd", b>>],
                                        at |-> "begun", s |-> 0]}
        /\ seen' = [seen EXCEPT !.stored = @ \cup {b},
                                !.late = @ \/ seen.destroyed,
                                !.again = @ \/ seen.gone,
                                !.raced = @ \/ SettingUp(b)]
        /\ UNCHANGED faults
     \/ /\ faults > 0 /\ faults' = faults - 1
        /\ UNCHANGED <<brokersBucket, workflowBucket, setups, seen>>
  /\ UNCHANGED <<answered, tasksBucket, executed, queueBucket, triggersBucket, loop,
                 boot, triggers, runs, Cron, subscribers>>

\* A trigger may bring an input, a schedule or neither; it is stored first.
TriggerCmd(t) ==
  /\ \/ /\ setTrigger(t)
        /\ \E k \in {"input", "schedule", "neither"} :
             triggers' = triggers \cup {[trigger |-> t, kind |-> k, at |-> "begun", task |-> t]}
        /\ UNCHANGED faults
     \/ /\ faults > 0 /\ faults' = faults - 1
        /\ UNCHANGED <<triggersBucket, triggers>>
  /\ UNCHANGED <<answered, tasksBucket, brokersBucket, workflowBucket, executed,
                 queueBucket, loop, boot, setups, runs, Cron, subscribers, seen>>

------------------------------------------------------------------------------
(***************************************************************************)
(* The Trigger goroutine, for a task.  AddTask takes the task's own entry  *)
(* out of the cron, whatever the trigger brings; without a schedule and an *)
(* input nothing can be added, and the trigger stays in the store.         *)
(***************************************************************************)
Becomes(g, h) == triggers' = (triggers \ {g}) \cup {h}

TriggerGet(g) ==
  /\ g.at = "begun"
  /\ Becomes(g, [g EXCEPT !.at = "read", !.task = IF g.task \in tasksBucket THEN @ ELSE NoTask])
  /\ UNCHANGED <<Cron, executed, triggersBucket, seen>>

TriggerRemove(g) ==
  /\ g.at = "read"
  /\ Cron' = Removed(Cron, {g.task})
  /\ \/ g.kind = "schedule" /\ Becomes(g, [g EXCEPT !.at = "add"]) /\ UNCHANGED executed
     \/ /\ g.kind = "input" /\ Becomes(g, [g EXCEPT !.at = "added"])
        /\ executed' = executed \cup ({g.task} \cap Tasks)
     \/ g.kind = "neither" /\ triggers' = triggers \ {g} /\ UNCHANGED executed
  /\ seen' = [seen EXCEPT !.triggered = @ \cup {g.task}]
  /\ UNCHANGED triggersBucket

TriggerAdd(g) ==
  /\ g.at = "add"
  /\ Cron' = [Cron EXCEPT ![g.task] = @ + 1]
  /\ Becomes(g, [g EXCEPT !.at = "added"])
  /\ UNCHANGED <<executed, triggersBucket, seen>>

DeleteTrigger(g) ==
  /\ g.at = "added"
  /\ triggersBucket' = triggersBucket \ {g.trigger}
  /\ triggers' = triggers \ {g}
  /\ UNCHANGED <<Cron, executed, seen>>

Trigger(g) ==
  /\ \/ TriggerGet(g) \/ TriggerRemove(g) \/ TriggerAdd(g) \/ DeleteTrigger(g)
  /\ UNCHANGED <<input, tasksBucket, brokersBucket, workflowBucket, queueBucket, up,
                 loop, boot, setups, runs, subscribers, starts>>

------------------------------------------------------------------------------
(***************************************************************************)
(* DeleteWorkflow.  GetWorkflow lists the workflow's tasks and only the    *)
(* first of its brokers, since the loop over the brokers advances the      *)
(* cursor of the tasks.  DeleteTask is rolled back for a task without      *)
(* executions; Store.DeleteWorkflow deletes those, and the first broker.   *)
(***************************************************************************)
FirstBroker == IF workflowBucket.brokers = {} THEN {} ELSE {Min(workflowBucket.brokers)}

GetWorkflow == [tasks |-> workflowBucket.tasks, brokers |-> FirstBroker]

SubsOf(wfi) == {<<b, BrokerWfs[b]>> : b \in {b \in wfi.brokers : BrokerWfs[b] # 0}}

\* DeleteTask for each of these: a task goes with its executions or not at all.
deleteTasksTxFunc(ts) ==
  /\ tasksBucket' = tasksBucket \ (ts \cap executed)
  /\ executed' = executed \ (ts \cap tasksBucket)

RequestDestroyWf ==
  LET wfi == GetWorkflow
  IN  /\ SubsOf(wfi) \subseteq live
      /\ live' = live \ SubsOf(wfi)
      /\ Cron' = Removed(Cron, wfi.tasks)
      /\ deleteTasksTxFunc(wfi.tasks)
      /\ loop' = [at |-> "destroy"]
      /\ seen' = [seen EXCEPT !.raced = @ \/ \E b \in Brokers : SettingUp(b),
                              !.gone = TRUE, !.started = {},
                              !.early = @ \/ boot # Done]
      /\ UNCHANGED <<answered, faults, brokersBucket, workflowBucket, queueBucket,
                     triggersBucket, boot, setups, triggers, runs, BrokerWfs, made>>

\* Mutant: every broker is deleted, as if GetWorkflow had listed them all.
DeleteWorkflowAll ==
  /\ up /\ loop.at = "destroy"
  /\ tasksBucket' = tasksBucket \ workflowBucket.tasks
  /\ brokersBucket' = brokersBucket \ workflowBucket.brokers
  /\ workflowBucket' = [tasks |-> {}, brokers |-> {}]
  /\ loop' = Idle
  /\ seen' = [seen EXCEPT !.destroyed = TRUE]
  /\ UNCHANGED <<input, executed, queueBucket, triggersBucket, up, boot, setups,
                 triggers, runs, Cron, subscribers, starts>>

DeleteWorkflow ==
  /\ up /\ loop.at = "destroy"
  /\ tasksBucket' = tasksBucket \ workflowBucket.tasks
  /\ brokersBucket' = brokersBucket \ FirstBroker
  /\ workflowBucket' = [tasks |-> {}, brokers |-> {}]
  /\ loop' = Idle
  /\ seen' = [seen EXCEPT !.destroyed = TRUE]
  /\ UNCHANGED <<input, executed, queueBucket, triggersBucket, up, boot, setups,
                 triggers, runs, Cron, subscribers, starts>>

handleTaskEvent ==
  \E c \in Cmds :
    /\ Take(c)
    /\ left' = [left EXCEPT ![c] = @ - 1]
    /\ asked' = (asked \/ c = Destroy)
    /\ \/ c[1] = "SetTaskCmd" /\ SetTaskCmd(c[2])
       \/ c[1] = "TriggerStartTaskCmd" /\ TriggerStartTaskCmd(c[2])
       \/ c[1] = "InputTaskCmd" /\ InputTaskCmd(c[2])
       \/ c[1] = "SetBrokerCmd" /\ SetBrokerCmd(c[2])
       \/ c[1] = "TriggerCmd" /\ TriggerCmd(c[2])
       \/ c = Destroy /\ RequestDestroyWf
    /\ UNCHANGED <<template, up, starts>>

\* DeleteWorkflow detaches a subscriber that an earlier one has destroyed.
DetachTwice ==
  /\ Take(Destroy)
  /\ ~(SubsOf(GetWorkflow) \subseteq live)
  /\ panic

------------------------------------------------------------------------------
(***************************************************************************)
(* StartServer's goroutine: setupBrokers, then scheduleTasks, next to the  *)
(* loop.  Scheduler.Start clears the cron and gives up at the first task   *)
(* it cannot add: one with neither a schedule nor an input.                *)
(***************************************************************************)
GetBrokers ==
  /\ boot.at = "start"
  /\ boot' = [at |-> "brokers", todo |-> brokersBucket]
  /\ UNCHANGED <<subscribers, Cron, executed>>

setupBrokersRead ==
  /\ boot.at = "brokers" /\ boot.todo # {}
  /\ template[Min(boot.todo)] # "none"
  /\ boot' = [at |-> "setup", todo |-> boot.todo, s |-> BrokerWfs[Min(boot.todo)]]
  /\ UNCHANGED <<subscribers, Cron, executed>>

setupBrokers ==
  LET b == Min(boot.todo)
  IN  /\ boot.at = "setup"
      /\ Detachable(b, boot.s)
      /\ Resubscribe(b, boot.s)
      /\ boot' = [at |-> "brokers", todo |-> boot.todo \ {b}]
      /\ UNCHANGED <<Cron, executed>>

GetTasks ==
  /\ boot.at = "brokers" /\ boot.todo = {}
  /\ boot' = [at |-> "listed", todo |-> tasksBucket]
  /\ UNCHANGED <<subscribers, Cron, executed>>

ClearCron ==
  /\ boot.at = "listed"
  /\ Cron' = NoEntry
  /\ boot' = [at |-> "tasks", todo |-> boot.todo]
  /\ UNCHANGED <<subscribers, executed>>

scheduleTask ==
  LET t == Min(boot.todo)
  IN  /\ boot.at = "tasks" /\ boot.todo # {}
      /\ \/ /\ t \in Scheduled
            /\ Cron' = Removed(Cron, {t})
            /\ boot' = [at |-> "add", todo |-> boot.todo]
            /\ UNCHANGED executed
         \/ /\ t \in Fed \ Scheduled
            /\ executed' = executed \cup {t}
            /\ boot' = [at |-> "tasks", todo |-> boot.todo \ {t}]
            /\ UNCHANGED Cron
         \/ /\ t \notin Fed \cup Scheduled
            /\ boot' = Done
            /\ UNCHANGED <<Cron, executed>>
      /\ UNCHANGED subscribers

scheduleTaskAdd ==
  LET t == Min(boot.todo)
  IN  /\ boot.at = "add"
      /\ Cron' = [Cron EXCEPT ![t] = @ + 1]
      /\ boot' = [at |-> "tasks", todo |-> boot.todo \ {t}]
      /\ UNCHANGED <<subscribers, executed>>

scheduleEnd ==
  /\ boot.at = "tasks" /\ boot.todo = {}
  /\ boot' = Done
  /\ UNCHANGED <<subscribers, Cron, executed>>

StartServer ==
  /\ up
  /\ \/ GetBrokers \/ setupBrokersRead \/ setupBrokers \/ GetTasks
     \/ ClearCron \/ scheduleTask \/ scheduleTaskAdd \/ scheduleEnd
  /\ UNCHANGED <<input, tasksBucket, brokersBucket, workflowBucket, queueBucket,
                 triggersBucket, up, loop, setups, triggers, runs, starts, seen>>

\* A stored broker without a template, or a subscriber that is destroyed twice.
StartServerPanics ==
  /\ up
  /\ \/ boot.at = "brokers" /\ boot.todo # {} /\ template[Min(boot.todo)] = "none"
     \/ boot.at = "setup" /\ ~Detachable(Min(boot.todo), boot.s)
  /\ panic

------------------------------------------------------------------------------
Init ==
  /\ \E p \in Plans : template = p.template /\ left = p.copies /\ faults = p.faults
  /\ asked = FALSE /\ answered = {}
  /\ tasksBucket = {} /\ brokersBucket = {} /\ executed = {}
  /\ workflowBucket = [tasks |-> {}, brokers |-> {}]
  /\ queueBucket = [t \in Tasks |-> <<>>] /\ triggersBucket = {}
  /\ up = FALSE /\ starts = 0
  /\ loop = Started.loop /\ boot = Started.boot
  /\ setups = {} /\ triggers = {} /\ runs = {}
  /\ Cron = NoEntry
  /\ BrokerWfs = Started.none /\ made = Started.none /\ live = {}
  /\ seen = [panics |-> 0,         \* how often a goroutine panicked
             destroyed |-> FALSE,  \* the workflow was destroyed
             late |-> FALSE,       \*   and something of it was set after that
             started |-> {},       \* the tasks put into the cron by a command
             stored |-> {},        \* the brokers put into the store
             \* and, since the daemon was last started:
             raced |-> FALSE,      \* a broker was set, or the workflow destroyed,
                                   \*   while a goroutine was setting a broker up
             unknown |-> FALSE,    \* a task was started that the store lacked
             gone |-> FALSE,       \* the workflow was destroyed
             again |-> FALSE,      \*   and a broker of it was set after that
             triggered |-> {},     \* the tasks that a trigger took out of the cron
             early |-> FALSE]      \* a task was started, or the workflow
                                   \*   destroyed, before the start-up was over

Next ==
  \/ Crash \/ Start
  \/ handleTaskEvent \/ AddTask \/ DeleteWorkflow \/ DetachTwice
  \/ \E g \in setups : setupBrokerRead(g) \/ setupBroker(g)
  \/ \E g \in triggers : Trigger(g)
  \/ \E r \in runs : Run(r) \/ RunPanics(r) \/ SetExecutionDone(r)
  \/ \E t \in Tasks : Tick(t)
  \/ StartServer \/ StartServerPanics

Spec == Init /\ [][Next]_vars

------------------------------------------------------------------------------
\* The daemon runs, and no command, set-up or trigger is under way.
Quiet == up /\ loop.at = "idle" /\ boot = Done /\ setups = {} /\ triggers = {}

Handlers(b) == {x \in live : x[1] = b}

(***************************************************************************)
(* The daemon dies of its own only in four ways: a task was started that   *)
(* the store lacked (task.Run has no logger), a stored broker has no       *)
(* template (setupBrokers), a broker was set again after its workflow was  *)
(* destroyed (its destroyed subscriber is still in BrokerWfs), or two      *)
(* goroutines were setting the same broker up.                             *)
(***************************************************************************)
PanicsExplained ==
  [][seen'.panics > seen.panics =>
       \/ seen.unknown \/ seen.again \/ seen.raced
       \/ \E b \in brokersBucket : template[b] = "none"]_vars

(***************************************************************************)
(* Messages of a broker are handled by one subscriber at most, however     *)
(* often the broker is set, unless two goroutines were setting it up.      *)
(***************************************************************************)
OneHandler == ~seen.raced => \A b \in Brokers : Cardinality(Handlers(b)) <= 1

(***************************************************************************)
(* What runs is what a restart would bring back: when nothing is under     *)
(* way, every stored broker with a valid template has a handler, and every *)
(* handler belongs to a stored broker.                                     *)
(***************************************************************************)
RunsWhatIsStored ==
  Quiet /\ ~seen.raced =>
    \A b \in Brokers :
      /\ b \in brokersBucket /\ template[b] = "good" => Handlers(b) # {}
      /\ Handlers(b) # {} => b \in brokersBucket

(***************************************************************************)
(* A task in the cron is there once and is in the store, and a stored task *)
(* that a command put into the cron is there, also after a restart, unless *)
(* a trigger of the task has replaced its entry (AddTask) or the store     *)
(* holds a task with a smaller key that has neither a schedule nor an      *)
(* input: Scheduler.Start gives up at that one.                            *)
(***************************************************************************)
CronFollowsStore ==
  Quiet /\ ~seen.early =>
    \A t \in Tasks \ seen.triggered :
      /\ Cron[t] <= 1
      /\ Cron[t] = 1 => t \in tasksBucket
      /\ t \in seen.started \cap tasksBucket =>
           \/ Cron[t] = 1
           \/ \E u \in tasksBucket \ (Scheduled \cup Fed) : u < t

(***************************************************************************)
(* Once the workflow is destroyed, no task of it is stored, not even one   *)
(* whose run ended later; of its brokers all but the first one are, and    *)
(* come back with every restart.                                           *)
(***************************************************************************)
DestroyedButBrokers ==
  seen.destroyed /\ ~seen.late =>
    /\ tasksBucket = {}
    /\ brokersBucket = {b \in seen.stored : b # Min(seen.stored)}

==============================================================================
