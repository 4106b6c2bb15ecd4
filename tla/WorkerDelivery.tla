---------------------------- MODULE WorkerDelivery ----------------------------
(***************************************************************************)
(* How one Worker of the runner delivers commands to clients:              *)
(* deliverAsync, the requests map, the reply subscription, the timeout     *)
(* goroutines and handleRetryDeliver (src/server/runner/worker.go).        *)
(*                                                                         *)
(* A command is published on NATS together with a callback kept in         *)
(* `requests` under its DeliverID.  The callback is run by whoever finds   *)
(* it there: the NATS subscription when a reply arrives, or the goroutine  *)
(* deliverAsync spawned, when its timeout expires.  Both read the map under *)
(* a read lock and delete the entry later, so the two can interleave, and  *)
(* a retry re-registers the same DeliverID between the two halves.         *)
(*                                                                         *)
(* A failed delivery travels over deliverErrCh and the worker's CBQueue to *)
(* handleRetryDeliver, all of whose calls run on the one dispatching       *)
(* goroutine.                                                              *)
(***************************************************************************)
EXTENDS Naturals, Sequences

CONSTANTS
    Cmds,          \* the commands the worker delivers
    Kind,          \* which command each one is
    RetryLimit     \* the literal 3 in "msg.Attempt > 3"

Kinds == {"SetTask", "SetBroker", "StartTask", "InputTask", "Trigger"}

ASSUME KindAssumption == Kind \in [Cmds -> Kinds]
ASSUME RetryLimitAssumption == RetryLimit \in Nat \ {0}

VARIABLES
    deliverCmd,    \* the counter behind nextCmdID
    msg,           \* per command: DeliverID, Attempt and Retry of its CmdTask
    requests,      \* the requests map: records [id, cmd, cb]
    timers,        \* the goroutines spawned by deliverAsync
    deliverErrs,   \* failures on their way to handleRetryDeliver, in order
    backoff,       \* per command: retries waiting in time.AfterFunc
    wire,          \* commands published and not yet handled by their client
    replies,       \* replies published by clients and not yet received
    rx,            \* the reply the subscription callback is working on
    record,        \* per command: its row of workflow_records
    conn,          \* is natsConn open
    sends,         \* history: successful publishes of each command
    answered,      \* history: commands a reply of which reached a callback
    unpublished,   \* history: DeliverIDs a publish of which failed
    ioErr          \* history: which calls of the worker for a command failed

vars == <<deliverCmd, msg, requests, timers, deliverErrs, backoff, wire, replies,
          rx, record, conn, sends, answered, unpublished, ioErr>>

-----------------------------------------------------------------------------
(* Retry is nil until the first failure; then it carries the id of the     *)
(* record, or -1 ("norec") when inserting that record failed.              *)
Msg      == [DeliverID: Nat, Attempt: Nat, Retry: {"nil", "rec", "norec"}]
Request  == [id: Nat, cmd: Cmds, cb: {"own", "retry"}]
Timer    == [id: Nat, cmd: Cmds, n: Nat, pc: {"waiting", "calling", "leaving"}]
Failure  == [cmd: Cmds, id: Nat]
Envelope == [id: Nat, cmd: Cmds, n: Nat]
Reply    == [id: Nat, cmd: Cmds, n: Nat, status: {"success", "fault"}, copy: {1, 2}]
Handling == [id: Nat, status: {"success", "fault"}, found: SUBSET Request]
Idle     == [id |-> 0, status |-> "success", found |-> {}]

Init ==
    /\ deliverCmd = 0
    /\ msg = [c \in Cmds |-> [DeliverID |-> 0, Attempt |-> 0, Retry |-> "nil"]]
    /\ requests = {}
    /\ timers = {}
    /\ deliverErrs = <<>>
    /\ backoff = [c \in Cmds |-> 0]
    /\ wire = {}
    /\ replies = {}
    /\ rx = Idle
    /\ record = [c \in Cmds |-> "none"]
    /\ conn = TRUE
    /\ sends = [c \in Cmds |-> 0]
    /\ answered = {}
    /\ unpublished = {}
    /\ ioErr = [c \in Cmds |-> {}]

-----------------------------------------------------------------------------
Lookup(id) == {r \in requests : r.id = id}

removeRequest(id) == requests \ Lookup(id)

addRequest(id, c, cb) == removeRequest(id) \cup {[id |-> id, cmd |-> c, cb |-> cb]}

(* deliver succeeded: the command is out and a goroutine watches it.       *)
Published(c, id) ==
    /\ conn
    /\ sends' = [sends EXCEPT ![c] = @ + 1]
    /\ wire' = wire \cup {[id |-> id, cmd |-> c, n |-> sends[c] + 1]}
    /\ timers' = timers \cup
                 {[id |-> id, cmd |-> c, n |-> sends[c] + 1, pc |-> "waiting"]}
    /\ UNCHANGED unpublished

(* deliver failed, as it may at any time and always does once the          *)
(* connection is closed: deliverAsync returns the error, the request stays *)
(* registered and nothing watches it.                                      *)
Unpublished(id) ==
    /\ unpublished' = unpublished \cup {id}
    /\ UNCHANGED <<sends, wire, timers>>

(* deliverAsync up to the publish: a zero DeliverID is replaced in the     *)
(* copy that is sent, never in the caller's command.                       *)
FreshID(did) == IF did = 0 THEN deliverCmd + 1 ELSE did

Register(c, did, cb) ==
    /\ deliverCmd' = IF did = 0 THEN deliverCmd + 1 ELSE deliverCmd
    /\ requests' = addRequest(FreshID(did), c, cb)

(* A publish or a database call made for c returned an error.              *)
Failed(c, call) == ioErr' = [ioErr EXCEPT ![c] = @ \cup {call}]

(* wrapDeliverErr: the failure goes over deliverErrCh to retryDeliver,     *)
(* which pushes it on the CBQueue.                                         *)
wrapDeliverErr(c, id) == deliverErrs' = Append(deliverErrs, [cmd |-> c, id |-> id])

-----------------------------------------------------------------------------
(* The first delivery: deliverTaskToClient, deliverInputTaskCmd or         *)
(* handleTrigger.  When the publish fails only deliverInputTaskCmd reports *)
(* it, with an empty reply whose DeliverID is 0.                           *)
Send(c) ==
    /\ msg[c].Attempt = 0
    /\ msg' = [msg EXCEPT ![c] = [@ EXCEPT !.DeliverID = deliverCmd + 1, !.Attempt = 1]]
    /\ Register(c, 0, "own")
    /\ \/ /\ Published(c, deliverCmd + 1)
          /\ UNCHANGED <<deliverErrs, ioErr>>
       \/ /\ Unpublished(deliverCmd + 1)
          /\ IF Kind[c] = "InputTask"
             THEN wrapDeliverErr(c, 0) /\ UNCHANGED ioErr
             ELSE Failed(c, "send") /\ UNCHANGED deliverErrs
    /\ UNCHANGED <<backoff, replies, rx, record, conn, answered>>

(* A client handles a command and publishes its reply.  A broker that does *)
(* not compile on the client is answered with a fault, on some paths twice. *)
ClientReplies(m) ==
    /\ m \in wire
    /\ wire' = wire \ {m}
    /\ \E st \in {"success"} \cup (IF Kind[m.cmd] = "SetBroker" THEN {"fault"} ELSE {}) :
       \E copies \in (IF st = "fault" THEN {{1}, {1, 2}} ELSE {{1}}) :
          replies' = replies \cup
            {[id |-> m.id, cmd |-> m.cmd, n |-> m.n, status |-> st, copy |-> k] : k \in copies}
    /\ UNCHANGED <<deliverCmd, msg, requests, timers, deliverErrs, backoff, rx, record,
                   conn, sends, answered, unpublished, ioErr>>

-----------------------------------------------------------------------------
(* reciveMessage, first half: the callback of the reply's DeliverID is     *)
(* read under the read lock.                                               *)
ReadRequest(r) ==
    /\ conn
    /\ rx = Idle
    /\ r \in replies
    /\ replies' = replies \ {r}
    /\ rx' = [id |-> r.id, status |-> r.status, found |-> Lookup(r.id)]
    /\ UNCHANGED <<deliverCmd, msg, requests, timers, deliverErrs, backoff, wire, record,
                   conn, sends, answered, unpublished, ioErr>>

SetRecovered(c, value) ==
    record' = [record EXCEPT ![c] = IF msg[c].Retry = "rec" THEN value ELSE @]

(* A callback called without an error.  The callback of a retry marks the  *)
(* record as recovered whatever the reply's status; the command's own      *)
(* callback does so only in deliverInputTaskCmd, and only checkCmdReply of *)
(* a SetBroker looks at the status.                                        *)
Callback(r) ==
    LET c == r.cmd IN
    IF r.cb = "own" /\ Kind[c] = "SetBroker" /\ rx.status = "fault"
    THEN wrapDeliverErr(c, rx.id) /\ UNCHANGED <<record, answered>>
    ELSE /\ answered' = answered \cup {c}
         /\ IF r.cb = "retry" \/ Kind[c] \in {"InputTask", "Trigger"}
            THEN SetRecovered(c, "recovered")
            ELSE UNCHANGED record
         /\ UNCHANGED deliverErrs

(* reciveMessage, second half: the entry is deleted, whoever put it there  *)
(* meanwhile, and the callback that was read runs.                         *)
HandleReply ==
    /\ rx # Idle
    /\ requests' = removeRequest(rx.id)
    /\ rx' = Idle
    /\ IF rx.found = {}
       THEN UNCHANGED <<deliverErrs, record, answered>>
       ELSE \E r \in rx.found : Callback(r)
    /\ UNCHANGED <<deliverCmd, msg, timers, backoff, wire, replies, conn, sends,
                   unpublished, ioErr>>

-----------------------------------------------------------------------------
(* The goroutine of deliverAsync, in three steps: the timeout expires (or  *)
(* closeCh is closed) and the map is read; the callback found there runs   *)
(* with an error, which every callback passes to wrapDeliverErr; the       *)
(* deferred removeRequest deletes the entry.                               *)
Expire(t) ==
    /\ timers' = (timers \ {t}) \cup
                 {[t EXCEPT !.pc = IF Lookup(t.id) = {} THEN "leaving" ELSE "calling"]}
    /\ UNCHANGED <<deliverCmd, msg, requests, deliverErrs, backoff, wire, replies, rx,
                   record, conn, sends, answered, unpublished, ioErr>>

TimerFires_onCloseOnly(t) == t \in timers /\ t.pc = "waiting" /\ ~conn /\ Expire(t)

TimerFires(t) == t \in timers /\ t.pc = "waiting" /\ Expire(t)

TimerCalls(t) ==
    /\ t \in timers /\ t.pc = "calling"
    /\ timers' = (timers \ {t}) \cup {[t EXCEPT !.pc = "leaving"]}
    /\ wrapDeliverErr(t.cmd, t.id)
    /\ UNCHANGED <<deliverCmd, msg, requests, backoff, wire, replies, rx, record, conn,
                   sends, answered, unpublished, ioErr>>

TimerLeaves(t) ==
    /\ t \in timers /\ t.pc = "leaving"
    /\ timers' = timers \ {t}
    /\ requests' = removeRequest(t.id)
    /\ UNCHANGED <<deliverCmd, msg, deliverErrs, backoff, wire, replies, rx, record, conn,
                   sends, answered, unpublished, ioErr>>

-----------------------------------------------------------------------------
NextFailure(c) == deliverErrs # <<>> /\ Head(deliverErrs).cmd = c

(* retryDeliver's switch passes a failure to handleRetryDeliver; it has no *)
(* case for TriggerCmd.                                                    *)
Retried_brokersOnly(c) == Kind[c] = "SetBroker"

Retried(c) == Kind[c] # "Trigger"

DropFailure(c) ==
    /\ NextFailure(c) /\ ~Retried(c)
    /\ deliverErrs' = Tail(deliverErrs)
    /\ UNCHANGED <<deliverCmd, msg, requests, timers, backoff, wire, replies, rx, record,
                   conn, sends, answered, unpublished, ioErr>>

(* handleRetryDeliver when msg.Retry is nil: log the failure, attach the   *)
(* record of this DeliverID, inserted if there is none, and send again at  *)
(* once under the DeliverID of the failed reply.  If the insertion fails   *)
(* the command is sent again without a record.                             *)
FirstRetry(c) ==
    LET id == Head(deliverErrs).id IN
    /\ NextFailure(c) /\ Retried(c) /\ msg[c].Retry = "nil"
    /\ deliverErrs' = Tail(deliverErrs)
    /\ \E retry \in {"rec", "norec"} :
          /\ msg' = [msg EXCEPT ![c] = [DeliverID |-> id, Attempt |-> @.Attempt + 1,
                                        Retry |-> retry]]
          /\ record' = [record EXCEPT ![c] = IF retry = "rec" /\ @ = "none" THEN "open" ELSE @]
          /\ IF retry = "norec" THEN Failed(c, "insert") ELSE UNCHANGED ioErr
    /\ Register(c, id, "retry")
    /\ Published(c, FreshID(id)) \/ Unpublished(FreshID(id))
    /\ UNCHANGED <<backoff, replies, rx, conn, answered>>

(* handleRetryDeliver returns early when looking that record up fails.     *)
FirstRetryFault(c) ==
    /\ NextFailure(c) /\ Retried(c) /\ msg[c].Retry = "nil"
    /\ deliverErrs' = Tail(deliverErrs)
    /\ Failed(c, "query")
    /\ UNCHANGED <<deliverCmd, msg, requests, timers, backoff, wire, replies, rx, record,
                   conn, sends, answered, unpublished>>

OverLimit_offByOne(c) == msg[c].Attempt > RetryLimit + 1

OverLimit(c) == msg[c].Attempt > RetryLimit

(* handleRetryDeliver on a command that already is a retry: refuse it over *)
(* the limit, otherwise reopen its record and schedule the next delivery.  *)
(* It returns early when one of the two updates fails.                     *)
LaterRetry(c) ==
    /\ NextFailure(c) /\ Retried(c) /\ msg[c].Retry # "nil"
    /\ deliverErrs' = Tail(deliverErrs)
    /\ IF OverLimit(c)
       THEN UNCHANGED <<msg, record, backoff, ioErr>>
       ELSE /\ msg' = [msg EXCEPT ![c].Attempt = @ + 1]
            /\ \/ SetRecovered(c, "open") /\ backoff' = [backoff EXCEPT ![c] = @ + 1]
                  /\ UNCHANGED ioErr
               \/ Failed(c, "update") /\ SetRecovered(c, "open") /\ UNCHANGED backoff
               \/ Failed(c, "update") /\ UNCHANGED <<record, backoff>>
    /\ UNCHANGED <<deliverCmd, requests, timers, wire, replies, rx, conn, sends, answered,
                   unpublished>>

(* The function given to time.AfterFunc, once per call of it.              *)
Due(c) == backoff[c] > 0

Resend(c) ==
    /\ Due(c)
    /\ backoff' = [backoff EXCEPT ![c] = @ - 1]
    /\ Register(c, msg[c].DeliverID, "retry")
    /\ LET id == FreshID(msg[c].DeliverID) IN Published(c, id) \/ Unpublished(id)
    /\ UNCHANGED <<msg, deliverErrs, replies, rx, record, conn, answered, ioErr>>

(* run returns once closeCh is closed, and its deferred natsConn.Close     *)
(* ends publishing and receiving.                                          *)
CloseConn ==
    /\ conn
    /\ conn' = FALSE
    /\ UNCHANGED <<deliverCmd, msg, requests, timers, deliverErrs, backoff, wire, replies,
                   rx, record, sends, answered, unpublished, ioErr>>

Next ==
    \/ \E c \in Cmds : \/ Send(c) \/ DropFailure(c) \/ FirstRetry(c)
                       \/ FirstRetryFault(c) \/ LaterRetry(c) \/ Resend(c)
    \/ \E m \in wire : ClientReplies(m)
    \/ \E r \in replies : ReadRequest(r)
    \/ HandleReply
    \/ \E t \in timers : TimerFires(t) \/ TimerCalls(t) \/ TimerLeaves(t)
    \/ CloseConn

Spec == Init /\ [][Next]_vars

(* Every goroutine that can take a step takes it: a started timer expires, *)
(* callbacks and the CBQueue are dispatched, time.AfterFunc fires.  Nothing *)
(* makes a client answer or the network deliver.                           *)
Fairness ==
    /\ WF_vars(\E c \in Cmds : \/ DropFailure(c) \/ FirstRetry(c)
                              \/ FirstRetryFault(c) \/ LaterRetry(c))
    /\ WF_vars(\E c \in Cmds : Resend(c))
    /\ WF_vars(HandleReply)
    /\ WF_vars(\E t \in timers : TimerFires(t) \/ TimerCalls(t) \/ TimerLeaves(t))

FairSpec == Spec /\ Fairness

-----------------------------------------------------------------------------
(* The state of the worker and of its failure records is well formed: a    *)
(* DeliverID is a number drawn from deliverCmd, a row is absent, open or   *)
(* recovered, a timer goroutine is at one of deliverAsync's three places.  *)
TypeOK ==
    /\ deliverCmd \in Nat
    /\ msg \in [Cmds -> Msg]
    /\ requests \subseteq Request
    /\ timers \subseteq Timer
    /\ deliverErrs \in Seq(Failure)
    /\ backoff \in [Cmds -> Nat]
    /\ wire \subseteq Envelope
    /\ replies \subseteq Reply
    /\ rx \in Handling
    /\ record \in [Cmds -> {"none", "open", "recovered"}]
    /\ conn \in BOOLEAN
    /\ sends \in [Cmds -> Nat]
    /\ answered \subseteq Cmds
    /\ unpublished \subseteq Nat
    /\ ioErr \in [Cmds -> SUBSET {"send", "query", "insert", "update"}]

(* However replies, timeouts and retries interleave, a command is          *)
(* published at most once more than handleRetryDeliver's limit, even when  *)
(* a reply and a timeout both report the same attempt as failed.           *)
SendsBounded == \A c \in Cmds : sends[c] + backoff[c] <= RetryLimit + 1

(* A registered callback is never left behind: as long as a DeliverID is in *)
(* requests, a goroutine of deliverAsync that will delete it is still      *)
(* running, unless a publish under that DeliverID failed.                  *)
RequestsWatched ==
    \A r \in requests : r.id \in unpublished \/ \E t \in timers : t.id = r.id

(* A record is marked recovered only on behalf of a reply: no timeout or   *)
(* retry alone hides a failed delivery from Recover.                       *)
RecoveredWasAnswered ==
    \A c \in Cmds : record[c] = "recovered" => c \in answered

(* Nothing of the delivery of c is pending in the worker.                  *)
AtRest(c) ==
    /\ \A t \in timers : t.cmd # c
    /\ \A i \in 1..Len(deliverErrs) : deliverErrs[i].cmd # c
    /\ backoff[c] = 0
    /\ \A r \in rx.found : r.cmd # c

(* A delivery that ended without an answer has left an open record for     *)
(* Recover, except for triggers, which retryDeliver does not retry, and    *)
(* for the commands whose publish or record failed.                        *)
NoSilentLoss ==
    \A c \in Cmds :
        /\ msg[c].Attempt > 0 /\ AtRest(c)
        /\ Kind[c] # "Trigger" /\ c \notin answered /\ ioErr[c] \subseteq {"update"}
        => record[c] = "open"

(* Again and again, no delivery is under way: what was sent comes to rest. *)
DeliveryEnds == []<>(\A c \in Cmds : msg[c].Attempt > 0 => AtRest(c))
====
