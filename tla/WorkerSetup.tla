------------------------------- MODULE WorkerSetup -------------------------------
(***************************************************************************)
(* How a workflow is set up (src/server/runner/worker.go): the goroutine   *)
(* run() sends every task and broker to its clients, the event loop of     *)
(* Run() counts the answers, and when allDelivered() says so announces     *)
(* "Workflow setup success" and tells every client to start its tasks.     *)
(* The daemon's side (kairos-local/kairosdeamon/agent) stores a task on    *)
(* SetTaskCmd and schedules a stored one on TriggerStartTaskCmd; its hub   *)
(* hands each command to a goroutine, so commands may overtake each other. *)
(*                                                                         *)
(* Each delivery and its retries are WorkerDelivery's subject.  Here one   *)
(* that fails is a command or an answer that never arrives: a retry that   *)
(* is answered does not reach the event loop.                              *)
(***************************************************************************)
EXTENDS Integers, Sequences, FiniteSets

CONSTANTS
    TaskPlan,    \* <<task, client>> in the order of workflow.Tasks and task.Clients;
                 \* <<task, "kairos">> for a PubSub task; HttpHook tasks
                 \* are left out, as pushAllCmdTask does nothing for them
    BrokerPlan   \* <<broker, client>>, likewise

Pairs == {TaskPlan[i] : i \in DOMAIN TaskPlan} \cup {BrokerPlan[i] : i \in DOMAIN BrokerPlan}
Plan == TaskPlan \o BrokerPlan
Units == {p[1] : p \in Pairs}
TaskPairs == {TaskPlan[i] : i \in DOMAIN TaskPlan}
IsPubSub(p) == p[2] = "kairos"

ASSUME PlanAssumption == Len(TaskPlan) > 0 /\ Cardinality(Pairs) = Len(Plan)

VARIABLES
    delivers,    \* w.taskDelivers and w.brokerDelivers
    pos,         \* run(): the element of Plan it has come to
    posting,     \* run(): is it blocked sending a PubSub task's event
    loop,        \* event loop: 0 receiving; k > 0 triggering TaskPlan[k]; -1 blocked
    bad,         \* tasks with malformed Metadata (the client's id) or PubSub payload
    net,         \* commands on their way to the daemons
    answers,     \* answers on their way back
    stored, scheduled,   \* what the daemons have stored and scheduled
    setters,     \* the go w.setWfStatus(s) that have not run yet
    status,      \* w.status
    (* what the properties look at *)
    passes,      \* how often the event loop announced the setup
    acked,       \* pairs whose success the event loop has counted
    late,        \* pairs that run() had yet to come to at an announcement
    starts,      \* how often each pair was told to start
    lost,        \* pairs whose daemon was told to start a task it did not have
    unstored,    \* pairs whose daemon failed to store the task, yet answered success
    failed       \* has anything gone wrong: a fault, a lost command or answer

runVars == <<pos, posting>>
history == <<passes, acked, late, starts, lost, unstored>>
vars == <<delivers, runVars, loop, bad, net, answers, stored, scheduled, setters, status,
          history, failed>>

Status == {"pending", "success", "fault"}

(* client is the entry's name, bare as the worker registers it or, once    *)
(* answered, with the suffix _client of RunOn (on).                        *)
Entry(c, on, s) == [client |-> c, on |-> on, status |-> s]

Init ==
    /\ delivers = [u \in Units |-> <<>>]
    /\ pos = 1 /\ posting = FALSE /\ loop = 0
    /\ bad \in SUBSET TaskPairs
    /\ net = {} /\ answers = {} /\ stored = {} /\ scheduled = {}
    /\ setters = {"Delivering"} /\ status = "Running"
    /\ passes = 0 /\ acked = {} /\ late = {} /\ starts = [p \in Pairs |-> 0]
    /\ lost = {} /\ unstored = {} /\ failed = (bad # {})

-----------------------------------------------------------------------------
(* A mutant of Matches: the two names are compared without the suffix.     *)
Matches_noSuffix(e, d) == (e.on = d.on /\ e.client = d.client) \/ e.client = "kairos"

(* updateStatusDeliverTask and updateStatusDeliverBroker: an answer d      *)
(* replaces every entry registered for its client, a PubSub task's entry   *)
(* is replaced by anything, and otherwise d is added.                      *)
Matches(e, d) == (~e.on /\ d.on /\ e.client = d.client) \/ e.client = "kairos"

updateStatusDeliver(u, d) ==
    LET v == delivers[u] IN
    [delivers EXCEPT ![u] =
        IF \E i \in DOMAIN v : Matches(v[i], d)
        THEN [i \in DOMAIN v |-> IF Matches(v[i], d) THEN d ELSE v[i]]
        ELSE Append(v, d)]

(* A mutant of allDelivered: only faults count.                            *)
allDelivered_noFault(ds) ==
    \A u \in Units : \A i \in DOMAIN ds[u] : ds[u][i].status # "fault"

allDelivered(ds) ==
    \A u \in Units : \A i \in DOMAIN ds[u] : ds[u][i].status = "success"

-----------------------------------------------------------------------------
(* run(): pushAllCmdTask(SetTaskCmd), then deliverBrokers(SetBrokerCmd).   *)
(* A malformed task ends the tasks, a broker that cannot be    *)
(* published ends the brokers; the publish error of a task is dropped.     *)
After(p, sent) ==
    IF p \in bad THEN Len(TaskPlan) + 1
    ELSE IF pos > Len(TaskPlan) /\ ~sent THEN Len(Plan) + 1
    ELSE pos + 1

SendSetup(sent) ==
    /\ pos <= Len(Plan) /\ ~IsPubSub(Plan[pos])
    /\ LET p == Plan[pos]
           out == sent /\ p \notin bad IN
       /\ delivers' = updateStatusDeliver(p[1], Entry(p[2], FALSE, "pending"))
       /\ net' = IF out THEN net \cup {[cmd |-> "set", pair |-> p]} ELSE net
       /\ failed' = (failed \/ ~out)
       /\ pos' = After(p, sent)
    /\ UNCHANGED <<posting, loop, bad, answers, stored, scheduled, setters, status, history>>

(* A PubSub task runs in the worker: it is scheduled at once and run()     *)
(* sends its own success to the event loop.                                *)
SetupPubSub ==
    /\ pos <= Len(Plan) /\ IsPubSub(Plan[pos]) /\ ~posting
    /\ delivers' = updateStatusDeliver(Plan[pos][1], Entry("kairos", FALSE, "pending"))
    /\ IF Plan[pos] \in bad
       THEN pos' = After(Plan[pos], FALSE) /\ UNCHANGED <<scheduled, posting>>
       ELSE scheduled' = scheduled \cup {Plan[pos]} /\ posting' = TRUE /\ UNCHANGED pos
    /\ UNCHANGED <<loop, bad, net, answers, stored, setters, status, history, failed>>

-----------------------------------------------------------------------------
(* The event loop takes one answer; when that was the last one, it         *)
(* announces the setup and turns to the tasks (pushAllCmdTask              *)
(* (TriggerStartTaskCmd)) before it receives again.                        *)
Count(p, d) ==
    /\ loop = 0
    /\ delivers' = updateStatusDeliver(p[1], d)
    /\ acked' = IF d.status = "success" THEN acked \cup {p} ELSE acked
    /\ IF allDelivered(delivers')
       THEN /\ passes' = passes + 1 /\ loop' = 1 /\ setters' = setters \cup {"Running"}
            /\ late' = late \cup {Plan[i] : i \in pos..Len(Plan)}
       ELSE UNCHANGED <<passes, loop, setters, late>>

(* checkCmdReply on an answer: the fault of a broker goes to the retries,  *)
(* everything else to the event loop, which must be receiving.             *)
IsBroker(p) == p \notin TaskPairs

TakeAnswer(a) ==
    /\ a \in answers
    /\ ~(IsBroker(a.pair) /\ a.status = "fault")
    /\ answers' = answers \ {a}
    /\ Count(a.pair, Entry(a.pair[2], TRUE, a.status))
    /\ UNCHANGED <<runVars, bad, net, stored, scheduled, status, starts, lost, unstored, failed>>

DropFault(a) ==
    /\ a \in answers
    /\ IsBroker(a.pair) /\ a.status = "fault"
    /\ answers' = answers \ {a}
    /\ UNCHANGED <<delivers, runVars, loop, bad, net, stored, scheduled, setters, status, history, failed>>

TakePosted ==
    /\ posting
    /\ Count(Plan[pos], Entry("kairos", FALSE, "success"))
    /\ posting' = FALSE /\ pos' = pos + 1
    /\ UNCHANGED <<bad, net, answers, stored, scheduled, status, starts, lost, unstored, failed>>

(* The next task to trigger, or back to receiving.                         *)
Advance == IF loop = Len(TaskPlan) THEN 0 ELSE loop + 1

(* A mutant of Registered: the trigger is not registered as pending.       *)
Registered_not(p) == delivers

(* deliverTask registers the pair as pending for TriggerStartTaskCmd too.  *)
Registered(p) == updateStatusDeliver(p[1], Entry(p[2], FALSE, "pending"))

(* pushAllCmdTask(TriggerStartTaskCmd), one client.                        *)
Trigger(sent) ==
    /\ loop > 0 /\ ~IsPubSub(TaskPlan[loop])
    /\ LET p == TaskPlan[loop]
           out == sent /\ p \notin bad IN
       /\ delivers' = Registered(p)
       /\ net' = IF out THEN net \cup {[cmd |-> "start", pair |-> p]} ELSE net
       /\ starts' = IF out THEN [starts EXCEPT ![p] = @ + 1] ELSE starts
       /\ failed' = (failed \/ ~out)
       /\ loop' = IF p \in bad THEN 0 ELSE Advance
    /\ UNCHANGED <<runVars, bad, answers, stored, scheduled, setters, status,
                   passes, acked, late, lost, unstored>>

(* ... and a PubSub task: the event loop sends to the channel that only    *)
(* it receives from, and blocks.                                           *)
TriggerPubSub ==
    /\ loop > 0 /\ IsPubSub(TaskPlan[loop])
    /\ delivers' = Registered(TaskPlan[loop])
    /\ IF TaskPlan[loop] \in bad
       THEN loop' = 0 /\ UNCHANGED scheduled
       ELSE loop' = -1 /\ scheduled' = scheduled \cup {TaskPlan[loop]}
    /\ UNCHANGED <<runVars, bad, net, answers, stored, setters, status, history, failed>>

(* go w.setWfStatus(s): the goroutines run in any order.                   *)
setWfStatus(s) ==
    /\ s \in setters
    /\ setters' = setters \ {s}
    /\ status' = s
    /\ UNCHANGED <<delivers, runVars, loop, bad, net, answers, stored, scheduled, history, failed>>

-----------------------------------------------------------------------------
(* handleTaskEvent of the daemon, SetTaskCmd and SetBrokerCmd.  A task     *)
(* that cannot be stored is answered with success all the same.            *)
HandleSet(m, outcome) ==
    /\ m \in net /\ m.cmd = "set"
    /\ net' = net \ {m}
    /\ outcome = "unstored" => ~IsBroker(m.pair)
    /\ answers' = answers \cup {[pair |-> m.pair, status |-> IF outcome = "fault" THEN "fault" ELSE "success"]}
    /\ stored' = IF outcome = "stored" THEN stored \cup {m.pair} ELSE stored
    /\ unstored' = IF outcome = "unstored" THEN unstored \cup {m.pair} ELSE unstored
    /\ failed' = (failed \/ outcome # "stored")
    /\ UNCHANGED <<delivers, runVars, loop, bad, scheduled, setters, status, passes, acked, late, starts, lost>>

(* handleTaskEvent of the daemon, TriggerStartTaskCmd: an unknown task is  *)
(* answered with success and not scheduled.                                *)
HandleStart(m) ==
    /\ m \in net /\ m.cmd = "start"
    /\ net' = net \ {m}
    /\ IF m.pair \in stored
       THEN scheduled' = scheduled \cup {m.pair} /\ UNCHANGED lost
       ELSE lost' = lost \cup {m.pair} /\ UNCHANGED scheduled
    /\ UNCHANGED <<delivers, runVars, loop, bad, answers, stored, setters, status,
                   passes, acked, late, starts, unstored, failed>>

(* A command is lost, or an answer comes after its request timed out.      *)
LoseCommand(m) ==
    /\ m \in net
    /\ net' = net \ {m} /\ failed' = TRUE
    /\ UNCHANGED <<delivers, runVars, loop, bad, answers, stored, scheduled, setters, status, history>>

LoseAnswer(a) ==
    /\ a \in answers
    /\ answers' = answers \ {a} /\ failed' = TRUE
    /\ UNCHANGED <<delivers, runVars, loop, bad, net, stored, scheduled, setters, status, history>>

-----------------------------------------------------------------------------
EventLoop == (\E a \in answers : TakeAnswer(a) \/ DropFault(a)) \/ TakePosted
             \/ (\E sent \in BOOLEAN : Trigger(sent)) \/ TriggerPubSub

RunThread == (\E sent \in BOOLEAN : SendSetup(sent)) \/ SetupPubSub

Daemons == \E m \in net : HandleStart(m) \/ \E o \in {"stored", "unstored", "fault"} : HandleSet(m, o)

Next ==
    \/ RunThread \/ EventLoop \/ Daemons
    \/ \E s \in setters : setWfStatus(s)
    \/ \E m \in net : LoseCommand(m)
    \/ \E a \in answers : LoseAnswer(a)

Spec == Init /\ [][Next]_vars

(* Goroutines that can run do, and daemons that are connected answer.      *)
(* Losing something is never obliged to happen.                            *)
FairSpec == Spec /\ WF_vars(RunThread) /\ WF_vars(EventLoop) /\ WF_vars(Daemons)

-----------------------------------------------------------------------------
(* However answers, registrations and the event loop interleave, no client *)
(* is told twice to start a task: the entry that the trigger itself        *)
(* registers keeps allDelivered() false from then on.                      *)
StartedOnce == \A p \in Pairs : starts[p] <= 1

(* A daemon is told to start a task it does not have only if run() had not *)
(* yet sent the task when the setup was announced, or if the daemon       *)
(* failed to store it: commands overtaking each other are not a cause.     *)
LostOnlyIfLate == \A p \in lost : p \in late \cup unstored

(* Without a fault and without a loss, the setup is announced.             *)
SetupEnds == <>(passes > 0 \/ failed)

(* "Workflow setup success" is logged when every task and broker has been  *)
(* set up on each of its clients.                                          *)
SuccessMeansAllDelivered == passes > 0 => acked = Pairs
====
