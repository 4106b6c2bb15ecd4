--------------------------------- MODULE Writer ---------------------------------
(***************************************************************************)
(* The per-connection writer of the deliverer (src/server/deliverer/       *)
(* writer.go) with the part of Client.close that shuts it down             *)
(* (src/server/deliverer/client.go).                                       *)
(*                                                                         *)
(* Goroutines: one sender per message (transportEnqueue), the writer's run *)
(* loop, and the goroutines `go c.close(reason)`, of which the first to    *)
(* find the client open does the work.  w.mu is held across a whole batch  *)
(* (Remove, ..., Write) and across close; the queue has a mutex of its own *)
(* and each of its operations is one step, taken from FIFOQueue (RingQueue *)
(* is shown to implement it).  Sizes are counted in messages.              *)
(*                                                                         *)
(* The websocket connection is external (gorilla/websocket): a write that  *)
(* fails leaves the connection failing for good.                           *)
(***************************************************************************)
EXTENDS Integers, FiniteSets, SequencesExt

CONSTANTS
    Msg,                 \* messages to push to the client, all different
    Push,                \* the disconnect push Client.close enqueues
    MaxQueueSize,        \* ClientQueueMaxSize; 0: no limit
    maxMessagesInFrame,  \* 1: no batching; -1: no limit
    writeDelay           \* is there a delay before each batch

ASSUME PushAssumption == Push \notin Msg
ASSUME MaxQueueSizeAssumption == MaxQueueSize \in Nat
ASSUME FrameAssumption == maxMessagesInFrame \in (Nat \ {0}) \cup {-1}
ASSUME DelayAssumption == writeDelay \in BOOLEAN

Item == Msg \cup {Push}

VARIABLES
    messages, qclosed, ok, out,  \* w.messages and what its last operation returned
    accepted,   \* what Add has taken so far, in order
    sent,       \* what the connection has taken so far, in order
    sender,     \* where the goroutine that enqueues each message is
    run,        \* where the run loop is
    batch,      \* messages and msg of waitSendMessage: removed, not yet written
    left,       \* messageCount of waitSendMessage
    mu,         \* who holds w.mu
    status,     \* has a Client.close set statusClosed
    closing,    \* the reasons of the go c.close(reason) that have been started
    reason,     \* the reason of the one that closes
    closer,     \* where that one is
    remaining,  \* what it has taken from the queue to flush
    closeCh,    \* is w.closeCh closed
    broken,     \* has a write failed
    tclosed     \* is the transport closed

qvars == <<messages, qclosed, ok, out>>
runvars == <<run, batch, left>>
closevars == <<status, reason, closer, remaining, closeCh, tclosed>>
vars == <<qvars, accepted, sent, sender, runvars, mu, closing, closevars, broken>>

Queue == INSTANCE FIFOQueue
    WITH items <- messages, closed <- qclosed, MaxLen <- Cardinality(Item) + 1

Reason == {"connectionClosed", "slow", "writeError", "other"}

Init ==
    /\ Queue!Init
    /\ accepted = <<>> /\ sent = <<>>
    /\ sender = [m \in Item |-> "new"]
    /\ run = "wait" /\ batch = <<>> /\ left = 0
    /\ mu = "free"
    /\ status = "open" /\ closing = {} /\ reason = "other" /\ closer = "none"
    /\ remaining = <<>>
    /\ closeCh = FALSE /\ broken = FALSE /\ tclosed = FALSE

-----------------------------------------------------------------------------
(* A mutant of Woken: the waiter is only woken when there is something.    *)
Woken_ifQueued == IF run = "asleep" /\ messages' # <<>> THEN "delay" ELSE run

(* cond.Signal of Add, cond.Broadcast of Close and CloseRemaining: Wait    *)
(* returns true, whatever woke it.                                         *)
Woken == IF run = "asleep" THEN "delay" ELSE run

(* The goroutine of a push, and Client.close for the disconnect push.      *)
MaySend(m) == m # Push \/ closer = "push"

(* enqueue, first half: messages.Add.  A refused message closes the client *)
(* (transportEnqueue).                                                     *)
Enqueue(m) ==
    /\ sender[m] = "new" /\ MaySend(m)
    /\ Queue!Add(m)
    /\ IF ok'
       THEN /\ accepted' = Append(accepted, m)
            /\ sender' = [sender EXCEPT ![m] = "added"]
            /\ run' = Woken
            /\ UNCHANGED closing
       ELSE /\ sender' = [sender EXCEPT ![m] = "done"]
            /\ closing' = closing \cup {"connectionClosed"}
            /\ UNCHANGED <<accepted, run>>
    /\ UNCHANGED <<sent, batch, left, mu, closevars, broken>>

(* enqueue, second half: the size is read after Add released the queue.    *)
CheckSize(m) ==
    /\ sender[m] = "added"
    /\ sender' = [sender EXCEPT ![m] = "done"]
    /\ closing' = IF MaxQueueSize > 0 /\ Len(messages) > MaxQueueSize
                  THEN closing \cup {"slow"} ELSE closing
    /\ UNCHANGED <<qvars, accepted, sent, runvars, mu, closevars, broken>>

-----------------------------------------------------------------------------
(* WriteFn and WriteManyFn on ms; good says whether the write succeeded.   *)
(* A closed transport takes everything and sends nothing.                  *)
Transmit(ms, good) ==
    /\ good => (tclosed \/ ~broken)
    /\ ~good => ~tclosed
    /\ sent' = IF good /\ ~tclosed THEN sent \o ms ELSE sent
    /\ broken' = (broken \/ ~good)
    /\ closing' = IF good THEN closing ELSE closing \cup {"writeError"}

(* A mutant of Wait: it sleeps without looking at the queue first.         *)
Wait_unchecked ==
    /\ run = "wait"
    /\ run' = IF qclosed THEN "stopped" ELSE "asleep"
    /\ UNCHANGED <<qvars, accepted, sent, sender, batch, left, mu, closing, closevars, broken>>

(* waitSendMessage: messages.Wait().                                       *)
Wait ==
    /\ run = "wait"
    /\ run' = CASE qclosed -> "stopped"
                [] ~qclosed /\ messages # <<>> -> "delay"
                [] OTHER -> "asleep"
    /\ UNCHANGED <<qvars, accepted, sent, sender, batch, left, mu, closing, closevars, broken>>

(* The delay before a batch: the timer fires ...                           *)
DelayPasses ==
    /\ run = "delay"
    /\ run' = "lock"
    /\ UNCHANGED <<qvars, accepted, sent, sender, batch, left, mu, closing, closevars, broken>>

(* ... or the writer is closed meanwhile.                                  *)
DelayCut ==
    /\ run = "delay" /\ writeDelay /\ closeCh
    /\ run' = "stopped"
    /\ UNCHANGED <<qvars, accepted, sent, sender, batch, left, mu, closing, closevars, broken>>

(* w.mu.Lock() of waitSendMessage.                                         *)
LockSend ==
    /\ run = "lock" /\ mu = "free"
    /\ run' = "take" /\ mu' = "run"
    /\ UNCHANGED <<qvars, accepted, sent, sender, batch, left, closing, closevars, broken>>

(* The first Remove; when the queue is empty, the loop goes on unless it   *)
(* is closed.                                                              *)
Take ==
    /\ run = "take"
    /\ Queue!Remove
    /\ batch' = out'
    /\ IF ok'
       THEN run' = "count" /\ UNCHANGED mu
       ELSE run' = (IF qclosed THEN "stopped" ELSE "wait") /\ mu' = "free"
    /\ UNCHANGED <<accepted, sent, sender, left, closing, closevars, broken>>

(* messageCount := w.messages.Len().                                       *)
Count ==
    /\ run = "count"
    /\ left' = Len(messages)
    /\ run' = IF maxMessagesInFrame # 1 /\ Len(messages) > 0 THEN "more" ELSE "write"
    /\ UNCHANGED <<qvars, accepted, sent, sender, batch, mu, closing, closevars, broken>>

(* The loop that fills the batch.                                          *)
BatchFull == left = 0 \/ (maxMessagesInFrame > -1 /\ Len(batch) >= maxMessagesInFrame)

More ==
    /\ run = "more" /\ ~BatchFull
    /\ left' = left - 1
    /\ Queue!Remove
    /\ batch' = IF ~ok' /\ qclosed THEN <<>> ELSE batch \o out'
    /\ IF ~ok' /\ qclosed
       THEN run' = "stopped" /\ mu' = "free"
       ELSE run' = (IF ok' THEN "more" ELSE "write") /\ UNCHANGED mu
    /\ UNCHANGED <<accepted, sent, sender, closing, closevars, broken>>

BatchReady ==
    /\ run = "more" /\ BatchFull
    /\ run' = "write"
    /\ UNCHANGED <<qvars, accepted, sent, sender, batch, left, mu, closing, closevars, broken>>

(* The write of the batch; an error ends the run loop.                     *)
Write ==
    /\ run = "write"
    /\ \E good \in BOOLEAN : Transmit(batch, good) /\ run' = IF good THEN "wait" ELSE "stopped"
    /\ batch' = <<>> /\ mu' = "free"
    /\ UNCHANGED <<qvars, accepted, sender, left, closevars>>

-----------------------------------------------------------------------------
(* Someone outside closes the client: the reader of the connection, the    *)
(* hub at shutdown, a handler.                                             *)
Disconnect(r) ==
    /\ r \notin closing
    /\ closing' = closing \cup {r}
    /\ UNCHANGED <<qvars, accepted, sent, sender, runvars, mu, closevars, broken>>

(* Client.close up to the writer: the first one sets statusClosed, later   *)
(* ones return.  Every reason but "connection closed" is pushed to the     *)
(* client first.                                                           *)
BeginClose(r) ==
    /\ r \in closing /\ status = "open"
    /\ status' = "closed" /\ reason' = r
    /\ closer' = IF r = "connectionClosed" THEN "lock" ELSE "push"
    /\ UNCHANGED <<qvars, accepted, sent, sender, runvars, mu, closing, remaining, closeCh, broken, tclosed>>

Pushed ==
    /\ closer = "push" /\ sender[Push] = "done"
    /\ closer' = "lock"
    /\ UNCHANGED <<qvars, accepted, sent, sender, runvars, mu, closing, status, reason, remaining, closeCh, broken, tclosed>>

(* A mutant of LockClose: close does not wait for the batch being written. *)
LockClose_unlocked ==
    /\ closer = "lock"
    /\ closer' = "shut"
    /\ UNCHANGED <<qvars, accepted, sent, sender, runvars, mu, closing, status, reason, remaining, closeCh, broken, tclosed>>

(* writer.close: w.mu.Lock().  w.closed needs no variable: statusClosed    *)
(* lets only one close through.                                            *)
LockClose ==
    /\ closer = "lock" /\ mu = "free"
    /\ closer' = "shut" /\ mu' = "closer"
    /\ UNCHANGED <<qvars, accepted, sent, sender, runvars, closing, status, reason, remaining, closeCh, broken, tclosed>>

(* The argument flushRemaining of writer.close.                            *)
Flushes(r) == r \notin {"connectionClosed", "slow"}

(* A mutant of Shut: the two ways to close are swapped.                    *)
Shut_swapped ==
    /\ closer = "shut"
    /\ IF Flushes(reason) THEN Queue!Close ELSE Queue!CloseRemaining
    /\ remaining' = out'
    /\ closer' = IF out' # <<>> THEN "flush" ELSE "signal"
    /\ run' = Woken
    /\ UNCHANGED <<accepted, sent, sender, batch, left, mu, closing, status, reason, closeCh, broken, tclosed>>

(* writer.close: the queue is closed; what it still held is kept for the   *)
(* flush.                                                                  *)
Shut ==
    /\ closer = "shut"
    /\ IF Flushes(reason) THEN Queue!CloseRemaining ELSE Queue!Close
    /\ remaining' = out'
    /\ closer' = IF out' # <<>> THEN "flush" ELSE "signal"
    /\ run' = Woken
    /\ UNCHANGED <<accepted, sent, sender, batch, left, mu, closing, status, reason, closeCh, broken, tclosed>>

(* writer.close: WriteManyFn(remaining...), its error ignored.             *)
Flush ==
    /\ closer = "flush"
    /\ \E good \in BOOLEAN : Transmit(remaining, good)
    /\ closer' = "signal" /\ remaining' = <<>>
    /\ UNCHANGED <<qvars, accepted, sender, runvars, mu, status, reason, closeCh, tclosed>>

(* writer.close: close(w.closeCh) and unlock.                              *)
Signal ==
    /\ closer = "signal"
    /\ closeCh' = TRUE /\ mu' = "free"
    /\ closer' = "transport"
    /\ UNCHANGED <<qvars, accepted, sent, sender, runvars, closing, status, reason, remaining, broken, tclosed>>

(* transport.Close, the last thing Client.close does with the connection.  *)
CloseTransport ==
    /\ closer = "transport"
    /\ tclosed' = TRUE
    /\ closer' = "done"
    /\ UNCHANGED <<qvars, accepted, sent, sender, runvars, mu, closing, status, reason, remaining, closeCh, broken>>

-----------------------------------------------------------------------------
RunLoop == Wait \/ DelayPasses \/ DelayCut \/ LockSend \/ Take \/ Count \/ More \/ BatchReady \/ Write

Closer == Pushed \/ LockClose \/ Shut \/ Flush \/ Signal \/ CloseTransport

Next ==
    \/ \E m \in Item : Enqueue(m) \/ CheckSize(m)
    \/ RunLoop
    \/ \E r \in {"connectionClosed", "other"} : Disconnect(r)
    \/ \E r \in Reason : BeginClose(r)
    \/ Closer

Spec == Init /\ [][Next]_vars

(* Goroutines that can run do; a Go mutex does not starve a waiter; a      *)
(* write returns (the transport sets a write deadline).  Nothing obliges   *)
(* the environment to send a message or to disconnect.                     *)
Fairness ==
    /\ WF_vars(RunLoop)
    /\ WF_vars(Closer) /\ SF_vars(LockClose)
    /\ WF_vars(Enqueue(Push))
    /\ \A m \in Item : WF_vars(CheckSize(m))
    /\ \A r \in Reason : WF_vars(BeginClose(r))

FairSpec == Spec /\ Fairness

-----------------------------------------------------------------------------
(* The state of the writer, of its queue and of Client.close is well       *)
(* formed; waitSendMessage's message count stays a number of messages.     *)
TypeOK ==
    /\ messages \in Seq(Item) /\ qclosed \in BOOLEAN /\ ok \in BOOLEAN /\ out \in Seq(Item)
    /\ accepted \in Seq(Item) /\ sent \in Seq(Item) /\ batch \in Seq(Item) /\ left \in Nat
    /\ sender \in [Item -> {"new", "added", "done"}]
    /\ run \in {"wait", "asleep", "delay", "lock", "take", "count", "more", "write", "stopped"}
    /\ mu \in {"free", "run", "closer"}
    /\ status \in {"open", "closed"} /\ closing \subseteq Reason /\ reason \in Reason
    /\ closer \in {"none", "push", "lock", "shut", "flush", "signal", "transport", "done"}
    /\ remaining \in Seq(Item)
    /\ closeCh \in BOOLEAN /\ broken \in BOOLEAN /\ tclosed \in BOOLEAN

(* What reaches the connection is what was enqueued, in that order, with   *)
(* no gap and nothing twice: the client sees a prefix of the accepted      *)
(* messages, whatever the batches, the write errors and the moment of the  *)
(* close.                                                                  *)
SentInOrder == IsPrefix(sent, accepted)

(* A close that flushes loses nothing: when writer.close returns and no    *)
(* write has failed, everything that was ever accepted has been sent, the  *)
(* disconnect push and the messages accepted while closing included.       *)
FlushLosesNothing ==
    closer \in {"transport", "done"} /\ Flushes(reason) /\ ~broken => sent = accepted

(* A client that starts to close ends closed: the run loop, asleep in      *)
(* Wait, in its delay or waiting for the lock, stops, and the transport is *)
(* closed.  No goroutine is left behind.                                   *)
CloseCompletes == status = "closed" ~> run = "stopped" /\ tclosed

(* No accepted message is forgotten in the queue: it is sent, unless the   *)
(* client is closed.                                                       *)
AcceptedIsSent ==
    \A m \in Msg : m \in Range(accepted) ~> m \in Range(sent) \/ status = "closed"
====
