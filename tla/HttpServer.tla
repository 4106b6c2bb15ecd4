----------------------------- MODULE HttpServer -----------------------------
(***************************************************************************)
(* The HTTP server, the tables it shares with the runner, and the start of *)
(* the runner: how a workflow gets from a request into the tables and from *)
(* there to a worker, and how a daemon logs in.                            *)
(*                                                                         *)
(* Each request is a goroutine.  Postgres runs every statement at READ     *)
(* COMMITTED: a statement sees what is committed, and its own transaction. *)
(* No table has a unique name, so two requests can both find that a name   *)
(* is free.  The row id of a workflow is the number of its request here.   *)
(***************************************************************************)
EXTENDS Naturals, Sequences, FiniteSets

CONSTANT
  Plans         \* [creates, clients, channels, drops, logins, registers,
                \*  deletes, starts, crashes, httpCrashes]

VARIABLES
  plan,         \* the scenario: what there is, what is asked for, what fails
  create,       \* request -> where CreateWorkflow is, and the id it found
  workflows,    \* the committed rows of the table workflows
  tasks,        \* [wf, by]: the committed tasks, and the request they are of
  clients,      \* the table clients
  channels,     \* the table channels
  login,        \* request -> where Login or Auth is
  loop,         \* what the loop of createPubSub is doing
  SuccessEvent, \* the payload of the global of that name
  runner,       \* how far the runner's start has come
  events,       \* RUNNER_HTTP: events the runner's subscription holds
  started,      \* workflow -> its workers in the runner
  left,         \* the requests and the failures still to come
  seen          \* history, read by no action

vars == <<plan, create, workflows, tasks, clients, channels, login, loop,
          SuccessEvent, runner, events, started, left, seen>>
tables == <<workflows, tasks, clients, channels>>
logins == <<login, loop, SuccessEvent>>
running == <<runner, events, started>>

Creates == DOMAIN plan.creates
Logins == DOMAIN plan.logins
Asked(h) == plan.creates[h]          \* [user, name, client, channel]
Key(h) == <<Asked(h).user, Asked(h).name>>
None == 0

Down == [at |-> "down", listens |-> FALSE, ids |-> {}]

TypeOK ==
  /\ workflows \subseteq Creates
  /\ tasks \subseteq [wf : Creates, by : Creates]
  /\ runner.at \in {"down", "fetch", "load", "up", "failed"}
  /\ started \in [Creates -> Nat]
  /\ \A l \in Logins : login[l].at \in {"select", "insert", "update", "send",
                                        "wait", "compare", "done"}

Init ==
  /\ plan \in Plans
  /\ create = [h \in Creates |-> [at |-> "check", wid |-> None]]
  /\ workflows = {} /\ tasks = {}
  /\ clients = {[name |-> c.name, user |-> c.user, id |-> 0] : c \in plan.clients}
  /\ channels = plan.channels
  /\ login = [l \in Logins |-> [at |-> "select", result |-> ""]]
  /\ loop = [l |-> None, at |-> "idle"]
  /\ SuccessEvent = None
  /\ runner = Down /\ events = <<>>
  /\ started = [h \in Creates |-> 0]
  /\ left = [drops |-> plan.drops, registers |-> plan.registers,
             deletes |-> plan.deletes, starts |-> plan.starts,
             crashes |-> plan.crashes, httpCrashes |-> plan.httpCrashes]
  /\ seen = [raced |-> {}, missed |-> {}, overlap |-> {}, moved |-> {},
             overwritten |-> {}, timeout |-> FALSE, httpDied |-> FALSE]

-----------------------------------------------------------------------------
(* What the tables say of a workflow (storage.go: DetailWorkflow, and then *)
(* Compile): it is loaded, or there is an error, or clients[0] panics.     *)

RowsOf(user, name) == {c \in clients : c.user = user /\ c.name = name}
ClientsOf(id) == {Asked(t.by).client : t \in {t \in tasks : t.wf = id}} \ {""}

\* Compile: what the brokers listen to is there.
Compiles(h) ==
  Asked(h).channel = "" \/ <<Asked(h).user, Asked(h).channel>> \in channels

DetailWorkflow(id) ==
  LET Rows(c) == Cardinality(RowsOf(Asked(id).user, c))
      bad == {"panic" : c \in {c \in ClientsOf(id) : Rows(c) = 0}}
             \union {"error" : c \in {c \in ClientsOf(id) : Rows(c) > 1}}
  IN IF id \notin workflows THEN {"error"}
     ELSE IF bad # {} THEN bad
     ELSE IF \A t \in tasks : t.wf = id => Compiles(t.by) THEN {"ok"}
     ELSE {"error"}

-----------------------------------------------------------------------------
(* CreateWorkflow of the controllers and of the storage.                   *)

At(h, from, to) ==
  /\ create[h].at = from
  /\ create' = [create EXCEPT ![h].at = to]

\* Mutant of CheckWorkflow: the clients are not looked up.
CheckWorkflowBlind(h) ==
  /\ Compiles(h) /\ At(h, "check", "exist")
  /\ UNCHANGED <<plan, tables, logins, running, left, seen>>

\* Every client of a task is there, and the file compiles; or it is refused.
CheckWorkflow(h) ==
  /\ \/ /\ Asked(h).client # "" => RowsOf(Asked(h).user, Asked(h).client) # {}
        /\ Compiles(h)
        /\ At(h, "check", "exist")
     \/ /\ \/ Asked(h).client # "" /\ RowsOf(Asked(h).user, Asked(h).client) = {}
           \/ ~ Compiles(h)
        /\ At(h, "check", "done")
  /\ UNCHANGED <<plan, tables, logins, running, left, seen>>

\* The name is free, as far as this transaction can see.
InTransaction(h) == create[h].at \in {"insert", "commit"}
Twins(h) == {i \in Creates \ {h} : Key(i) = Key(h)}

\* Mutant of CheckExist: the name is not looked up.
CheckExistNot(h) ==
  /\ At(h, "exist", "insert")
  /\ LET rivals == {i \in Twins(h) : InTransaction(i)} IN
     seen' = [seen EXCEPT !.raced = @ \union UNION {{h, i} : i \in rivals}]
  /\ UNCHANGED <<plan, tables, logins, running, left>>

CheckExist(h) ==
  /\ \/ /\ Twins(h) \intersect workflows = {}
        /\ At(h, "exist", "insert")
     \/ /\ Twins(h) \intersect workflows # {}
        /\ At(h, "exist", "done")
  /\ LET rivals == {i \in Twins(h) : InTransaction(i)} IN
     seen' = [seen EXCEPT !.raced = @ \union UNION {{h, i} : i \in rivals}]
  /\ UNCHANGED <<plan, tables, logins, running, left>>

\* The new row is inserted and read back by its name: the last one wins.
InsertAndSelect(h) ==
  /\ \E id \in {h} \union (Twins(h) \intersect workflows) :
       /\ create[h].at = "insert"
       /\ create' = [create EXCEPT ![h] = [at |-> "commit", wid |-> id]]
  /\ UNCHANGED <<plan, tables, logins, running, left, seen>>

\* The tasks and brokers go to that row, and the transaction is committed;
\* the row is gone only if it was another's.
Commit(h) ==
  LET wid == create[h].wid IN
  /\ \/ /\ wid = h \/ wid \in workflows
        /\ At(h, "commit", "detail")
        /\ workflows' = workflows \union {h}
        /\ tasks' = tasks \union {[wf |-> wid, by |-> h]}
     \/ /\ wid # h /\ wid \notin workflows
        /\ At(h, "commit", "done")
        /\ UNCHANGED <<workflows, tasks>>
  /\ UNCHANGED <<plan, clients, channels, logins, running, left, seen>>

\* The user has been told of the success; now the workflow is read back.  An
\* error is logged, a panic ends the handler (gin recovers).
ReadBack(h) ==
  /\ \E outcome \in DetailWorkflow(create[h].wid) :
       \/ outcome = "ok" /\ At(h, "detail", "publish") /\ UNCHANGED seen
       \/ /\ outcome # "ok" /\ At(h, "detail", "done")
          /\ seen' = [seen EXCEPT !.missed = @ \union {create[h].wid}]
  /\ UNCHANGED <<plan, tables, logins, running, left>>

\* NATS gives an event to the subscriptions there are, and keeps none.
Published(e) == IF runner.listens THEN Append(events, e) ELSE events

PublishCreate(h) ==
  /\ At(h, "publish", "done")
  /\ events' = Published([cmd |-> "create", id |-> create[h].wid])
  /\ seen' = [seen EXCEPT !.missed =
                IF runner.listens THEN @ ELSE @ \union {create[h].wid}]
  /\ UNCHANGED <<plan, tables, logins, runner, started, left>>

\* DropWorkflow and StopWorkflow only publish.
DropWorkflow(id) ==
  /\ id \in left.drops /\ id \in workflows
  /\ left' = [left EXCEPT !.drops = @ \ {id}]
  /\ events' = Published([cmd |-> "delete", id |-> id])
  /\ UNCHANGED <<plan, create, tables, logins, runner, started, seen>>

\* DeleteChannel, once the deliverer has answered REMOVE_CHANNEL.
DeleteChannels(c) ==
  /\ c \in left.deletes
  /\ left' = [left EXCEPT !.deletes = @ \ {c}]
  /\ channels' = channels \ {c}
  /\ UNCHANGED <<plan, create, workflows, tasks, clients, logins, running, seen>>

-----------------------------------------------------------------------------
(* Clients: CreateClient of the web page, and the logins of daemons, Login *)
(* with a key and Auth through the browser.                                *)

\* The number of a row is of no interest beyond telling it from others.
Inserted(c) == clients \union {[name |-> c.name, user |-> c.user,
                                id |-> Cardinality(clients) + 1]}
SeenInsert(c) ==
  [seen EXCEPT !.moved = IF RowsOf(c.user, c.name) = {} THEN @
                                                       ELSE @ \union {c.name}]

CreateClient(c) ==
  /\ c \in left.registers
  /\ left' = [left EXCEPT !.registers = @ \ {c}]
  /\ clients' = Inserted(c)
  /\ seen' = SeenInsert(c)
  /\ UNCHANGED <<plan, create, workflows, tasks, channels, logins, running>>

LoginAt(l, from, to) ==
  /\ login[l].at = from
  /\ login' = [login EXCEPT ![l].at = to]
AfterSetClient(l) == IF plan.logins[l].key THEN "done" ELSE "send"

\* SetClient asks for the name, whoever it belongs to.
SelectClient(l) ==
  /\ \/ /\ \A c \in clients : c.name # plan.logins[l].name
        /\ LoginAt(l, "select", "insert")
     \/ /\ \E c \in clients : c.name = plan.logins[l].name
        /\ LoginAt(l, "select", "update")
  /\ UNCHANGED <<plan, create, tables, loop, SuccessEvent, running, left, seen>>

InsertClient(l) ==
  /\ LoginAt(l, "insert", AfterSetClient(l))
  /\ clients' = Inserted(plan.logins[l])
  /\ seen' = SeenInsert(plan.logins[l])
  /\ UNCHANGED <<plan, create, workflows, tasks, channels, loop, SuccessEvent,
                 running, left>>

\* Every row of the name becomes the user's.
UpdateClient(l) ==
  LET me == plan.logins[l]
      mine == {c \in clients : c.name = me.name}
  IN
  /\ LoginAt(l, "update", AfterSetClient(l))
  /\ clients' = (clients \ mine) \union {[c EXCEPT !.user = me.user] : c \in mine}
  /\ seen' = [seen EXCEPT !.moved =
                IF \A c \in mine : c.user = me.user THEN @ ELSE @ \union {me.name}]
  /\ UNCHANGED <<plan, create, workflows, tasks, channels, loop, SuccessEvent,
                 running, left>>

\* Auth gives the token to the loop of createPubSub over a channel without a
\* buffer, and then waits for its answer or for AuthTimeout.
SendToken(l) ==
  /\ loop.at = "idle"
  /\ LoginAt(l, "send", "wait")
  /\ loop' = [l |-> l, at |-> "publish"]
  /\ UNCHANGED <<plan, create, tables, SuccessEvent, running, left, seen>>

\* The loop publishes the token to the daemon and writes the global event.
PublishToken ==
  /\ loop.at = "publish"
  /\ loop' = [loop EXCEPT !.at = "answer"]
  /\ SuccessEvent' = loop.l
  /\ seen' = [seen EXCEPT !.overwritten =
                @ \union {l \in Logins : login[l].at = "compare"}]
  /\ UNCHANGED <<plan, create, tables, login, running, left>>

\* Mutant of Answer: the loop serves one login.
AnswerOnce ==
  /\ loop.at = "answer"
  /\ LoginAt(loop.l, "wait", "compare")
  /\ loop' = [l |-> None, at |-> "over"]
  /\ UNCHANGED <<plan, create, tables, SuccessEvent, running, left, seen>>

\* Fn sends a copy of the event; it blocks while nobody receives.
Answer ==
  /\ loop.at = "answer"
  /\ LoginAt(loop.l, "wait", "compare")
  /\ loop' = [l |-> None, at |-> "idle"]
  /\ UNCHANGED <<plan, create, tables, SuccessEvent, running, left, seen>>

\* The copy is compared with the global, which may be another login's by now.
Compare(l) ==
  /\ login[l].at = "compare"
  /\ login' = [login EXCEPT ![l] = [at |-> "done", result |->
                 IF SuccessEvent = l THEN "successful" ELSE "error"]]
  /\ UNCHANGED <<plan, create, tables, loop, SuccessEvent, running, left, seen>>

AuthTimeout(l) ==
  /\ login[l].at = "wait"
  /\ login' = [login EXCEPT ![l] = [at |-> "done", result |-> "timeout"]]
  /\ seen' = [seen EXCEPT !.timeout = TRUE]
  /\ UNCHANGED <<plan, create, tables, loop, SuccessEvent, running, left>>

-----------------------------------------------------------------------------
(* The runner (runner.go): its subscription and its first load of every    *)
(* stored workflow run side by side.                                       *)

StartRunner ==
  /\ runner.at = "down" /\ left.starts > 0
  /\ left' = [left EXCEPT !.starts = @ - 1]
  /\ runner' = [runner EXCEPT !.at = "fetch"]
  /\ UNCHANGED <<plan, create, tables, logins, events, started, seen>>

listenMB ==
  /\ runner.at # "down" /\ ~ runner.listens
  /\ runner' = [runner EXCEPT !.listens = TRUE]
  /\ UNCHANGED <<plan, create, tables, logins, events, started, left, seen>>

\* Announced since the runner was started, or about to be: a second creation.
Announcing(id) ==
  \/ started[id] > 0
  \/ \E h \in Creates : create[h].wid = id /\ create[h].at \in {"detail", "publish"}
  \/ \E i \in 1..Len(events) : events[i] = [cmd |-> "create", id |-> id]

GetWorkflows ==
  /\ runner.at = "fetch"
  /\ runner' = [runner EXCEPT !.at = "load", !.ids = workflows]
  /\ seen' = [seen EXCEPT
                !.missed = @ \ workflows,
                !.overlap = @ \union {id \in workflows : Announcing(id)}]
  /\ UNCHANGED <<plan, create, tables, logins, events, started, left>>

\* Mutant of LoadWorkflow: what is loaded is announced as well.
LoadWorkflowAnnounced(id) ==
  /\ runner.at = "load" /\ id \in runner.ids
  /\ DetailWorkflow(id) = {"ok"}
  /\ runner' = [runner EXCEPT !.ids = @ \ {id}]
  /\ started' = [started EXCEPT ![id] = @ + 1]
  /\ events' = Published([cmd |-> "create", id |-> id])
  /\ UNCHANGED <<plan, create, tables, logins, left, seen>>

\* startInitWorkflow: an error ends the load with what is loaded by then, a
\* panic ends the runner.
LoadWorkflow(id) ==
  /\ runner.at = "load" /\ id \in runner.ids
  /\ \E outcome \in DetailWorkflow(id) :
       \/ /\ outcome = "ok"
          /\ runner' = [runner EXCEPT !.ids = @ \ {id}]
          /\ started' = [started EXCEPT ![id] = @ + 1]
          /\ UNCHANGED events
       \/ /\ outcome = "error"
          /\ runner' = [runner EXCEPT !.at = "failed", !.ids = {}]
          /\ UNCHANGED <<started, events>>
       \/ /\ outcome = "panic"
          /\ runner' = Down /\ events' = <<>>
          /\ started' = [h \in Creates |-> 0]
  /\ UNCHANGED <<plan, create, tables, logins, left, seen>>

Loaded ==
  /\ runner.at = "load" /\ runner.ids = {}
  /\ runner' = [runner EXCEPT !.at = "up"]
  /\ UNCHANGED <<plan, create, tables, logins, events, started, left, seen>>

Handling(cmd) ==
  /\ events # <<>> /\ Head(events).cmd = cmd
  /\ events' = Tail(events)

\* Mutant of StartWorker: events are not taken before the start is over.
StartWorkerIfUp ==
  /\ Handling("create")
  /\ started' = [started EXCEPT ![Head(events).id] =
                   IF runner.at = "up" THEN @ + 1 ELSE @]
  /\ UNCHANGED <<plan, create, tables, logins, runner, left, seen>>

\* execute: a worker for every event, whether there is one already or not.
StartWorker ==
  /\ Handling("create")
  /\ started' = [started EXCEPT ![Head(events).id] = @ + 1]
  /\ UNCHANGED <<plan, create, tables, logins, runner, left, seen>>

\* DestroyWorker does nothing for a workflow without a worker.  When every
\* client has cleared the workflow, its row goes and all that refers to it.
DestroyWorker ==
  LET id == Head(events).id IN
  /\ Handling("delete")
  /\ \/ UNCHANGED <<workflows, tasks, started>>
     \/ /\ started[id] > 0
        /\ workflows' = workflows \ {id}
        /\ tasks' = {t \in tasks : t.wf # id}
        /\ started' = [started EXCEPT ![id] = @ - 1]
  /\ UNCHANGED <<plan, create, clients, channels, logins, runner, left, seen>>

CrashRunner ==
  /\ left.crashes > 0 /\ runner.at # "down"
  /\ left' = [left EXCEPT !.crashes = @ - 1]
  /\ runner' = Down /\ events' = <<>>
  /\ started' = [h \in Creates |-> 0]
  /\ UNCHANGED <<plan, create, tables, logins, seen>>

\* The HTTP server dies, and every request with it.
CrashHttp ==
  /\ left.httpCrashes > 0
  /\ left' = [left EXCEPT !.httpCrashes = @ - 1]
  /\ create' = [h \in Creates |-> [create[h] EXCEPT !.at = "done"]]
  /\ login' = [l \in Logins |-> [login[l] EXCEPT !.at = "done"]]
  /\ loop' = [l |-> None, at |-> "idle"]
  /\ SuccessEvent' = None
  /\ seen' = [seen EXCEPT !.httpDied = TRUE, !.missed = @ \union
       {create[h].wid : h \in {h \in Creates : create[h].at \in {"detail", "publish"}}}]
  /\ UNCHANGED <<plan, tables, running>>

Next ==
  \/ \E h \in Creates :
       \/ CheckWorkflow(h) \/ CheckExist(h) \/ InsertAndSelect(h) \/ Commit(h)
       \/ ReadBack(h) \/ PublishCreate(h) \/ DropWorkflow(h) \/ LoadWorkflow(h)
  \/ \E c \in channels : DeleteChannels(c)
  \/ \E c \in left.registers : CreateClient(c)
  \/ \E l \in Logins :
       \/ SelectClient(l) \/ InsertClient(l) \/ UpdateClient(l)
       \/ SendToken(l) \/ Compare(l) \/ AuthTimeout(l)
  \/ PublishToken \/ Answer
  \/ listenMB \/ GetWorkflows \/ Loaded \/ StartWorker \/ DestroyWorker
  \/ StartRunner \/ CrashRunner \/ CrashHttp

\* Go runs every goroutine that can run and Postgres answers.  Nothing is
\* assumed of users, of crashes, or of a runner that is down being started.
\* A timeout may come first whenever it can come at all.
Fairness ==
  /\ \A h \in UNION {DOMAIN p.creates : p \in Plans} :
       WF_vars(h \in Creates /\
         (\/ CheckWorkflow(h) \/ CheckExist(h) \/ InsertAndSelect(h) \/ Commit(h)
          \/ ReadBack(h) \/ PublishCreate(h)))
  /\ \A l \in UNION {DOMAIN p.logins : p \in Plans} :
       WF_vars(l \in Logins /\
         (\/ SelectClient(l) \/ InsertClient(l) \/ UpdateClient(l)
          \/ SendToken(l) \/ Compare(l) \/ AuthTimeout(l)))
  /\ WF_vars(PublishToken \/ Answer) /\ WF_vars(listenMB)
  /\ WF_vars(StartWorker \/ DestroyWorker)
  /\ WF_vars(GetWorkflows \/ Loaded \/ \E id \in Creates : LoadWorkflow(id))

Spec == Init /\ [][Next]_vars /\ Fairness

-----------------------------------------------------------------------------
(* Properties.                                                             *)

\* A committed workflow has the tasks and brokers of its own request, and
\* nobody else's - unless two requests for one name were in their transactions
\* at once, when the id read back by name may be the other's
\* (storage.CreateWorkflow).
RowsAreWhole ==
  \A id \in workflows \ seen.raced :
    {t.by : t \in {t \in tasks : t.wf = id}} = {id}

\* A stored workflow can be loaded, by the runner's start or to be announced -
\* unless a client of it was moved to another user by a login under its name,
\* or is registered twice, or a channel it listens to was deleted
\* (DetailWorkflow, Compile).
StoredLoads ==
  \A id \in workflows \ seen.raced :
    \/ DetailWorkflow(id) = {"ok"}
    \/ ClientsOf(id) \intersect seen.moved # {}
    \/ <<Asked(id).user, Asked(id).channel>> \in plan.channels \ channels

\* A workflow has one worker - unless the runner read the table while the
\* workflow's creation was still to be announced, or two requests for its name
\* were in their transactions at once (startInitWorkflow, listenMB, execute).
OneWorker ==
  \A id \in Creates : started[id] <= 1 \/ id \in seen.overlap \union seen.raced

\* A stored workflow gets a worker - unless its event was lost or never sent
\* and the runner has not been started since, the runner is down, or its
\* start stopped at a workflow it could not load.
StoredRuns ==
  \A id \in UNION {DOMAIN p.creates : p \in Plans} :
    []<>(\/ id \notin workflows
         \/ started[id] > 0
         \/ id \in seen.missed \union seen.raced
         \/ runner.at \in {"down", "failed"})

\* A login ends, and a daemon that was given its token is told so - unless the
\* loop served another login before the answer was compared with the global
\* event.  After one timeout the loop waits for ever, and so do later logins
\* (controllers/auth.go, createPubSub).
LoginsSucceed ==
  \A l \in UNION {DOMAIN p.logins : p \in Plans} :
    []<>(\/ l \notin Logins
         \/ seen.timeout \/ seen.httpDied
         \/ /\ login[l].at = "done"
            /\ \/ plan.logins[l].key \/ login[l].result = "successful"
               \/ l \in seen.overwritten)
====
