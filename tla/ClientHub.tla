------------------------------- MODULE ClientHub -------------------------------
(***************************************************************************)
(* The connections of the deliverer (src/server/deliverer): each client    *)
(* connects, is given its channels, subscribes to more and is closed       *)
(* (client.go), while the hub (hub.go) records who is connected and        *)
(* subscribed and the node (node.go) keeps the broker subscribed to the    *)
(* channels somebody listens to, leaving a channel through a job of the    *)
(* dissolver some time after its last subscriber.                          *)
(*                                                                         *)
(* A client is served by the goroutine that reads its connection (pc).     *)
(* Its stale timer, its writer and the reader itself may each start        *)
(* close(), which runs beside the reader; of several only the first does   *)
(* anything.  addSubscription, removeSubscription and a job hold the       *)
(* channel's subLock and are one step each.                                *)
(***************************************************************************)
EXTENDS Integers, Sequences, FiniteSets

CONSTANTS
    Clients,
    Bases,      \* channels: b stands for "<b>-<id of b>"
    Subs,       \* parts of a channel, asked for as "<b>:<s>"
    Grants,     \* the bases OnConnecting gives each client
    MaxPath,    \* bound on the length of a channel's name
    MaxOps,     \* bound on the subscribe and unsubscribe commands of each client
    MaxErrs     \* bound on the calls of the Broker interface that fail

ASSUME HubAssumption ==
    /\ Grants \in [Clients -> SUBSET Bases]
    /\ MaxOps \in [Clients -> Nat]
    /\ MaxPath \in Nat \ {0, 1} /\ MaxErrs \in Nat

(* "b-7:s:t" is the channel <<b, s, t>>, and "b:s" is what a client asks   *)
(* for, which subscribeCmd turns into a channel; both are keys of          *)
(* c.channels.                                                             *)
Channel(path) == [channel |-> TRUE, path |-> path]
Ask(b, s) == [channel |-> FALSE, path |-> <<b, s>>]
Paths == UNION {{p \in [1 .. k -> Bases \cup Subs] :
                    p[1] \in Bases /\ \A i \in 2 .. k : p[i] \in Subs} : k \in 1 .. MaxPath}
Asks == {Ask(b, s) : b \in Bases, s \in Subs}
Names == {Channel(p) : p \in Paths} \cup Asks
Plain == {Channel(<<b>>) : b \in Bases}
None == [channel |-> FALSE, path |-> <<>>]

VARIABLES
    status,     \* c.status
    authenticated,
    unusable,
    held,       \* the keys of c.channels
    subscribed, \* those whose context has flagSubscribed
    stale,      \* is c.timer still the stale timer
    pc,         \* what the reader of the connection does
    req,        \* the channel it is subscribing to or unsubscribing from
    todo,       \* connectCmd: the goroutines that have yet to subscribe
    failed,     \* connectCmd: has one of them failed
    want,       \* is there a call of close() that has not taken c.mu yet
    closing,    \* close(): none, unsub (with snap, dropping), done
    snap,       \* close(): the channels it has yet to unsubscribe from
    dropping,   \* close(): the one it has deleted from c.channels
    wasConnected,   \* close(): prevStatus == statusConnected
    conns,      \* hub: the connections
    subs,       \* hub: <<channel, client>>
    broker,     \* the channels subscribed to on the broker
    jobs,       \* how many jobs of the dissolver wait for each channel
    told,       \* what NATS was told of the client: connect, disconnect
    ops, errs,  \* for the bounds
    raced       \* history: close() found a subscription half made

hub == <<conns, subs, broker, jobs>>
reader == <<pc, req, todo, failed>>
closer == <<closing, snap, dropping, wasConnected>>
vars == <<status, authenticated, unusable, held, subscribed, stale, reader, want, closer, hub,
          told, ops, errs, raced>>
----------------------------------------------------------------------------
(* hub.go and node.go                                                      *)

Subscribers(n) == {c \in Clients : <<n, c>> \in subs}

addSubscription(n, c) ==
    /\ subs' = subs \cup {<<n, c>>}
    /\ broker' = IF Subscribers(n) = {} THEN broker \cup {n} ELSE broker
    /\ UNCHANGED <<conns, jobs, errs>>

(* The first subscriber of a channel is taken out again when the broker    *)
(* refuses the channel.                                                    *)
addSubscriptionFails(n) == Subscribers(n) = {} /\ errs < MaxErrs /\ errs' = errs + 1

(* removeSub also answers "empty" when the client was not subscribed.      *)
removeSubscription(n, c) ==
    /\ subs' = subs \ {<<n, c>>}
    /\ jobs' = IF <<n, c>> \in subs /\ Subscribers(n) # {c}
               THEN jobs ELSE [jobs EXCEPT ![n] = @ + 1]
    /\ UNCHANGED <<conns, broker>>

(* Mutant: a job that fails is not queued again.                           *)
DissolverJobOnce(n) ==
    /\ jobs[n] > 0
    /\ jobs' = [jobs EXCEPT ![n] = @ - 1]
    /\ \/ broker' = (IF Subscribers(n) = {} THEN broker \ {n} ELSE broker) /\ UNCHANGED errs
       \/ Subscribers(n) = {} /\ errs < MaxErrs /\ errs' = errs + 1 /\ UNCHANGED broker
    /\ UNCHANGED <<status, authenticated, unusable, held, subscribed, stale, reader, want, closer,
                   conns, subs, told, ops, raced>>

(* A worker of the dissolver runs a job; one that fails is queued again.   *)
DissolverJob(n) ==
    /\ jobs[n] > 0
    /\ \/ /\ broker' = IF Subscribers(n) = {} THEN broker \ {n} ELSE broker
          /\ jobs' = [jobs EXCEPT ![n] = @ - 1]
          /\ UNCHANGED errs
       \/ Subscribers(n) = {} /\ errs < MaxErrs /\ errs' = errs + 1 /\ UNCHANGED <<broker, jobs>>
    /\ UNCHANGED <<status, authenticated, unusable, held, subscribed, stale, reader, want, closer,
                   conns, subs, told, ops, raced>>
----------------------------------------------------------------------------
(* client.go, the reader                                                   *)

Goto(c, at) == pc' = [pc EXCEPT ![c] = at]
GoClose(c) == want' = [want EXCEPT ![c] = TRUE]

(* connectCmd up to the call of OnConnecting.                              *)
HandleConnect(c) ==
    /\ pc[c] = "read" /\ status[c] # "closed" /\ ~authenticated[c]
    /\ Goto(c, "connecting")
    /\ UNCHANGED <<status, authenticated, unusable, held, subscribed, stale, req, todo, failed, want,
                   closer, hub, told, ops, errs, raced>>

(* A command answered with a Disconnect; the reader then only waits for    *)
(* the end of the connection.                                              *)
BadCommand(c) ==
    /\ pc[c] = "read" /\ status[c] # "closed"
    /\ Goto(c, "drain") /\ GoClose(c)
    /\ UNCHANGED <<status, authenticated, unusable, held, subscribed, stale, req, todo, failed,
                   closer, hub, told, ops, errs, raced>>

(* The connection ends: the deferred closeFn of the handler.               *)
ReaderExit(c) ==
    /\ pc[c] \in {"read", "drain"}
    /\ Goto(c, "exit") /\ GoClose(c)
    /\ UNCHANGED <<status, authenticated, unusable, held, subscribed, stale, req, todo, failed,
                   closer, hub, told, ops, errs, raced>>

(* OnConnecting refuses the token, gets no permissions or no channel.      *)
ConnectingError(c) ==
    /\ pc[c] = "connecting"
    /\ unusable' = [unusable EXCEPT ![c] = TRUE]
    /\ Goto(c, "drain")
    /\ UNCHANGED <<status, authenticated, held, subscribed, stale, req, todo, failed, want,
                   closer, hub, told, ops, errs, raced>>

(* Mutant: connectCmd does not look whether the client was closed.         *)
ConnectingReplyUnchecked(c) ==
    /\ pc[c] = "connecting"
    /\ Goto(c, "checked")
    /\ UNCHANGED <<status, authenticated, unusable, held, subscribed, stale, req, todo, failed, want,
                   closer, hub, told, ops, errs, raced>>

(* OnConnecting accepts and connectCmd looks again whether the client was  *)
(* closed meanwhile (or its user has too many connections).                *)
ConnectingReply(c) ==
    /\ pc[c] = "connecting"
    /\ \/ status[c] # "closed" /\ Goto(c, "checked") /\ UNCHANGED want
       \/ Goto(c, "drain") /\ GoClose(c)
    /\ UNCHANGED <<status, authenticated, unusable, held, subscribed, stale, req, todo, failed,
                   closer, hub, told, ops, errs, raced>>

Authenticate(c) ==
    /\ pc[c] = "checked"
    /\ authenticated' = [authenticated EXCEPT ![c] = TRUE]
    /\ Goto(c, "auth")
    /\ UNCHANGED <<status, unusable, held, subscribed, stale, req, todo, failed, want, closer, hub,
                   told, ops, errs, raced>>

AddClient(c) ==
    /\ pc[c] = "auth"
    /\ conns' = conns \cup {c}
    /\ todo' = [todo EXCEPT ![c] = {Channel(<<b>>) : b \in Grants[c]}]
    /\ Goto(c, "subs")
    /\ UNCHANGED <<status, authenticated, unusable, held, subscribed, stale, req, failed, want,
                   closer, subs, broker, jobs, told, ops, errs, raced>>

(* One of the goroutines of connectCmd that subscribe on the server side.  *)
ServerSubscribe(c, n) ==
    /\ pc[c] = "subs" /\ n \in todo[c]
    /\ todo' = [todo EXCEPT ![c] = @ \ {n}]
    /\ \/ addSubscription(n, c) /\ UNCHANGED failed
       \/ addSubscriptionFails(n) /\ failed' = [failed EXCEPT ![c] = TRUE] /\ UNCHANGED hub
    /\ UNCHANGED <<status, authenticated, unusable, held, subscribed, stale, pc, req, want, closer,
                   told, ops, raced>>

(* wg.Wait() returns.  After a failure onSubscribeError(channel), called   *)
(* for each channel, removes the subscriptions of the channels that are in *)
(* c.channels; none is, ConnectReply has yet to put them there.            *)
ServerSubscribed(c) ==
    /\ pc[c] = "subs" /\ todo[c] = {}
    /\ IF failed[c] THEN Goto(c, "drain") /\ GoClose(c)
                    ELSE Goto(c, "reply") /\ UNCHANGED want
    /\ UNCHANGED <<status, authenticated, unusable, held, subscribed, stale, req, todo, failed,
                   closer, hub, told, ops, errs, raced>>

(* The reply is queued, c.channels is set.                                 *)
ConnectReply(c) ==
    /\ pc[c] = "reply"
    /\ held' = [held EXCEPT ![c] = @ \cup {Channel(<<b>>) : b \in Grants[c]}]
    /\ subscribed' = [subscribed EXCEPT ![c] = @ \cup {Channel(<<b>>) : b \in Grants[c]}]
    /\ Goto(c, "trigger")
    /\ UNCHANGED <<status, authenticated, unusable, stale, req, todo, failed, want, closer, hub,
                   told, ops, errs, raced>>

(* triggerConnect waits for a close() in progress (connectMu);             *)
(* scheduleOnConnectTimers replaces the stale timer.                       *)
TriggerConnect(c) ==
    /\ pc[c] = "trigger" /\ closing[c] # "unsub"
    /\ IF status[c] = "connecting"
       THEN /\ told' = [told EXCEPT ![c] = "connect"]
            /\ status' = [status EXCEPT ![c] = "connected"]
            /\ stale' = [stale EXCEPT ![c] = FALSE]
       ELSE UNCHANGED <<told, status, stale>>
    /\ Goto(c, "read")
    /\ UNCHANGED <<authenticated, unusable, held, subscribed, req, todo, failed, want, closer, hub,
                   ops, errs, raced>>

(* What subscribeCmd makes of "b:s": it takes the first key of c.channels, *)
(* in the order of a Go map, that begins with "b-" and appends ":s".       *)
Prefixes(c, n) == {h \in held[c] : h.channel /\ h.path[1] = n.path[1]}
Resolve(c, n) ==
    IF n.channel THEN {n} ELSE {Channel(Append(k.path, n.path[2])) : k \in Prefixes(c, n)}

(* validateSubscribeRequest puts a placeholder into c.channels.            *)
HandleSubscribe(c, n) ==
    /\ pc[c] = "read" /\ status[c] # "closed" /\ authenticated[c]
    /\ ops[c] < MaxOps[c] /\ \A m \in Resolve(c, n) : Len(m.path) <= MaxPath
    /\ ops' = [ops EXCEPT ![c] = @ + 1]
    /\ IF n \in held[c]
       THEN UNCHANGED <<held, pc, req>>      \* ErrorAlreadySubscribed
       ELSE /\ held' = [held EXCEPT ![c] = @ \cup {n}]
            /\ req' = [req EXCEPT ![c] = n]
            /\ Goto(c, "subscribe")
    /\ UNCHANGED <<status, authenticated, unusable, subscribed, stale, todo, failed, want, closer,
                   hub, told, errs, raced>>

onSubscribeError(c, n) ==
    /\ held' = [held EXCEPT ![c] = @ \ {n}]
    /\ IF n \in held[c] THEN removeSubscription(n, c) ELSE UNCHANGED hub

SubscribeCmd(c) ==
    /\ pc[c] = "subscribe"
    /\ \/ \E n \in Resolve(c, req[c]) :
            /\ addSubscription(n, c)
            /\ req' = [req EXCEPT ![c] = n]
            /\ Goto(c, "subscribed")
            /\ UNCHANGED <<held, want>>
       \/ /\ \/ Resolve(c, req[c]) = {} /\ UNCHANGED errs
             \/ \E n \in Resolve(c, req[c]) : addSubscriptionFails(n)
          /\ onSubscribeError(c, req[c])
          /\ GoClose(c)
          /\ Goto(c, "read")
          /\ UNCHANGED req
    /\ UNCHANGED <<status, authenticated, unusable, subscribed, stale, todo, failed, closer, told,
                   ops, raced>>

(* The reply is queued and c.channels set under the channel's own name.    *)
SubscribeReply(c) ==
    /\ pc[c] = "subscribed"
    /\ held' = [held EXCEPT ![c] = @ \cup {req[c]}]
    /\ subscribed' = [subscribed EXCEPT ![c] = @ \cup {req[c]}]
    /\ req' = [req EXCEPT ![c] = None]
    /\ Goto(c, "read")
    /\ UNCHANGED <<status, authenticated, unusable, stale, todo, failed, want, closer, hub, told,
                   ops, errs, raced>>

HandleUnsubscribe(c, n) ==
    /\ pc[c] = "read" /\ status[c] # "closed" /\ authenticated[c]
    /\ ops[c] < MaxOps[c]
    /\ ops' = [ops EXCEPT ![c] = @ + 1]
    /\ n \in held[c]
    /\ held' = [held EXCEPT ![c] = @ \ {n}]
    /\ subscribed' = [subscribed EXCEPT ![c] = @ \ {n}]
    /\ req' = [req EXCEPT ![c] = n]
    /\ Goto(c, "unsubscribe")
    /\ UNCHANGED <<status, authenticated, unusable, stale, todo, failed, want, closer, hub, told,
                   errs, raced>>

Unsubscribe(c) ==
    /\ pc[c] = "unsubscribe"
    /\ removeSubscription(req[c], c)
    /\ req' = [req EXCEPT ![c] = None]
    /\ Goto(c, "read")
    /\ UNCHANGED <<status, authenticated, unusable, held, subscribed, stale, todo, failed, want,
                   closer, told, ops, errs, raced>>
----------------------------------------------------------------------------
(* client.go, close() and who calls it                                     *)

(* onTimerOp and closeStale: what they read may be out of date by the time *)
(* close() runs.                                                           *)
CloseStale(c) ==
    /\ stale[c] /\ status[c] # "closed"
    /\ stale' = [stale EXCEPT ![c] = FALSE]
    /\ IF ~authenticated[c] \/ unusable[c] THEN GoClose(c) ELSE UNCHANGED want
    /\ UNCHANGED <<status, authenticated, unusable, held, subscribed, reader, closer, hub, told, ops,
                   errs, raced>>

(* The writer, started by connectCmd, cannot write or its queue is full.   *)
WriteError(c) ==
    /\ pc[c] \notin {"read", "connecting"} \/ authenticated[c]
    /\ status[c] # "closed"
    /\ GoClose(c)
    /\ UNCHANGED <<status, authenticated, unusable, held, subscribed, stale, reader, closer, hub,
                   told, ops, errs, raced>>

HalfMade(c) ==
    pc[c] \in {"checked", "auth", "subs", "reply", "subscribe", "subscribed"}

CloseBegin(c) ==
    /\ want[c]
    /\ want' = [want EXCEPT ![c] = FALSE]
    /\ IF status[c] = "closed"
       THEN UNCHANGED <<status, stale, closer, raced>>
       ELSE /\ status' = [status EXCEPT ![c] = "closed"]
            /\ stale' = [stale EXCEPT ![c] = FALSE]
            /\ closing' = [closing EXCEPT ![c] = "unsub"]
            /\ snap' = [snap EXCEPT ![c] = held[c]]
            /\ wasConnected' = [wasConnected EXCEPT ![c] = status[c] = "connected"]
            /\ raced' = [raced EXCEPT ![c] = HalfMade(c)]
            /\ UNCHANGED dropping
    /\ UNCHANGED <<authenticated, unusable, held, subscribed, reader, hub, told, ops, errs>>

(* close() unsubscribes from a channel of its snapshot: first it deletes   *)
(* the channel from c.channels, then it removes the subscription.          *)
CloseDelete(c, n) ==
    /\ closing[c] = "unsub" /\ dropping[c] = None /\ n \in snap[c]
    /\ snap' = [snap EXCEPT ![c] = @ \ {n}]
    /\ dropping' = [dropping EXCEPT ![c] = IF n \in held[c] THEN n ELSE None]
    /\ held' = [held EXCEPT ![c] = @ \ {n}]
    /\ subscribed' = [subscribed EXCEPT ![c] = @ \ {n}]
    /\ UNCHANGED <<status, authenticated, unusable, stale, reader, want, closing, wasConnected, hub,
                   told, ops, errs, raced>>

CloseRemove(c) ==
    /\ closing[c] = "unsub" /\ dropping[c] # None
    /\ removeSubscription(dropping[c], c)
    /\ dropping' = [dropping EXCEPT ![c] = None]
    /\ UNCHANGED <<status, authenticated, unusable, held, subscribed, stale, reader, want, closing,
                   snap, wasConnected, told, ops, errs, raced>>

(* Mutant: only a client that was connected is taken out of the hub.       *)
CloseEndConnected(c) ==
    /\ closing[c] = "unsub" /\ dropping[c] = None /\ snap[c] = {}
    /\ closing' = [closing EXCEPT ![c] = "done"]
    /\ conns' = IF wasConnected[c] THEN conns \ {c} ELSE conns
    /\ told' = IF wasConnected[c] THEN [told EXCEPT ![c] = "disconnect"] ELSE told
    /\ UNCHANGED <<status, authenticated, unusable, held, subscribed, stale, reader, want, snap,
                   dropping, wasConnected, subs, broker, jobs, ops, errs, raced>>

(* The rest of close(): out of the hub, writer and transport closed,       *)
(* OnDisconnect for a client that OnConnect was called for.                *)
CloseEnd(c) ==
    /\ closing[c] = "unsub" /\ dropping[c] = None /\ snap[c] = {}
    /\ closing' = [closing EXCEPT ![c] = "done"]
    /\ conns' = IF authenticated[c] THEN conns \ {c} ELSE conns
    /\ told' = IF wasConnected[c] THEN [told EXCEPT ![c] = "disconnect"] ELSE told
    /\ UNCHANGED <<status, authenticated, unusable, held, subscribed, stale, reader, want, snap,
                   dropping, wasConnected, subs, broker, jobs, ops, errs, raced>>
----------------------------------------------------------------------------
Init ==
    /\ status = [c \in Clients |-> "connecting"]
    /\ authenticated = [c \in Clients |-> FALSE]
    /\ unusable = [c \in Clients |-> FALSE]
    /\ held = [c \in Clients |-> {}]
    /\ subscribed = [c \in Clients |-> {}]
    /\ stale = [c \in Clients |-> TRUE]
    /\ pc = [c \in Clients |-> "read"]
    /\ req = [c \in Clients |-> None]
    /\ todo = [c \in Clients |-> {}]
    /\ failed = [c \in Clients |-> FALSE]
    /\ want = [c \in Clients |-> FALSE]
    /\ closing = [c \in Clients |-> "none"]
    /\ snap = [c \in Clients |-> {}]
    /\ dropping = [c \in Clients |-> None]
    /\ wasConnected = [c \in Clients |-> FALSE]
    /\ conns = {} /\ subs = {} /\ broker = {}
    /\ jobs = [n \in Names |-> 0]
    /\ told = [c \in Clients |-> "nothing"]
    /\ ops = [c \in Clients |-> 0]
    /\ errs = 0
    /\ raced = [c \in Clients |-> FALSE]

(* What the reader does on its own once it has read a command, or the      *)
(* connection has ended.                                                   *)
Serve(c) ==
    \/ ConnectingError(c) \/ ConnectingReply(c) \/ Authenticate(c) \/ AddClient(c)
    \/ \E n \in Names : ServerSubscribe(c, n)
    \/ ServerSubscribed(c) \/ ConnectReply(c) \/ TriggerConnect(c)
    \/ SubscribeCmd(c) \/ SubscribeReply(c) \/ Unsubscribe(c)
    \/ (pc[c] = "drain" \/ status[c] = "closed") /\ ReaderExit(c)

Close(c) ==
    \/ CloseBegin(c) \/ \E n \in Names : CloseDelete(c, n)
    \/ CloseRemove(c) \/ CloseEnd(c)

Command(c) ==
    \/ HandleConnect(c) \/ BadCommand(c) \/ ReaderExit(c)
    \/ \E n \in Plain \cup Asks : HandleSubscribe(c, n)
    \/ \E n \in Names : HandleUnsubscribe(c, n)

Next ==
    \/ \E c \in Clients :
         \/ Command(c) \/ Serve(c) \/ CloseStale(c) \/ WriteError(c) \/ Close(c)
    \/ \E n \in Names : DissolverJob(n)

(* The goroutines of the program run; what the peer sends, timers and      *)
(* errors may come or not.                                                 *)
Fairness ==
    /\ \A c \in Clients : WF_vars(Serve(c)) /\ WF_vars(Close(c))
    /\ \A n \in Names : WF_vars(DissolverJob(n))

Spec == Init /\ [][Next]_vars
FairSpec == Spec /\ Fairness
----------------------------------------------------------------------------
(* A channel with a subscriber in the hub is subscribed to on the broker,  *)
(* and one that is subscribed to without a subscriber has a job of the     *)
(* dissolver that will look at it, whatever order clients come and go in   *)
(* and however often the broker fails (addSubscription,                    *)
(* removeSubscription).                                                    *)
InterestKept ==
    \A n \in Names :
        /\ Subscribers(n) # {} => n \in broker
        /\ n \in broker => Subscribers(n) # {} \/ jobs[n] > 0

(* Between two commands of an open connection the hub sends a client       *)
(* exactly the channels the client's own table says it is subscribed to:   *)
(* what is neither half made nor half removed agrees (c.channels against   *)
(* hub.subs).                                                              *)
HubAgrees ==
    \A c \in Clients : pc[c] = "read" /\ status[c] # "closed" =>
        /\ subscribed[c] = {n \in Names : <<n, c>> \in subs}
        /\ c \in conns <=> authenticated[c]

(* Once close() and the reader have ended, nothing of the client is left   *)
(* in the hub, except when close() began while the reader was between its  *)
(* last look at c.status and the write to c.channels (connectCmd,          *)
(* subscribeCmd), or when a channel of connectCmd had been refused: then   *)
(* onSubscribeError and close() find nothing to remove and the entries     *)
(* stay for ever.                                                          *)
GhostOnlyIfRaced ==
    \A c \in Clients :
        closing[c] = "done" /\ pc[c] = "exit" /\ (c \in conns \/ \E n \in Names : <<n, c>> \in subs)
            => raced[c] \/ failed[c]

(* The workers are told "disconnect" of exactly the clients they were told *)
(* "connect" of, also when close() overtakes the end of connectCmd         *)
(* (triggerConnect, connectMu and prevStatus).                             *)
NewsPaired == \A c \in Clients : closing[c] = "done" => told[c] # "connect"

Registry == INSTANCE ChannelRegistry WITH members <- subs, interest <- broker

(* The node keeps the promise of ChannelRegistry: it is subscribed to a    *)
(* channel as long as there are subscribers and not for ever after.        *)
KeepsRegistry == Registry!FairSpec

(* A connection that is being closed is out of the hub in the end, with    *)
(* the same exceptions: close() cannot be stuck behind connectMu or a      *)
(* channel's lock.                                                         *)
ClosedLeaves ==
    \A c \in Clients :
        status[c] = "closed" ~>
            (raced[c] \/ failed[c] \/ (c \notin conns /\ \A n \in Names : <<n, c>> \notin subs))
====
