----------------------------- MODULE PubSubClient ------------------------------
(***************************************************************************)
(* How a daemon keeps its connection to the deliverer                      *)
(* (src/kairos-local/kairosdeamon/pubsub/client.go): it dials, sends a     *)
(* connect command, and after a failure dials again when a timer fires.    *)
(* What goes on at the same time: attempts to connect, the goroutine that  *)
(* reads each connection, the goroutine that watches each request, the     *)
(* callbacks of connect requests (run by the reader, by the watcher or,    *)
(* when the connected state is cleared, by a goroutine of their own), the  *)
(* calls of handleDisconnect, and the program's Connect and Disconnect.  A *)
(* section under c.mu is one step.                                         *)
(***************************************************************************)
EXTENDS Integers, FiniteSets

CONSTANTS
    N,          \* bound on the attempts to connect
    MaxFaults,  \* bound on what goes wrong: the network, the deliverer, late goroutines
    MaxCalls    \* bound on the calls of Connect and Disconnect

ASSUME PubSubAssumption == N \in Nat \ {0} /\ MaxFaults \in Nat /\ MaxCalls \in Nat

Slots == 1 .. N

(* dial: startReconnecting between its two sections ("refresh" when it has *)
(* read refreshRequired); open, session: the connection, and the server's  *)
(* session on it; reader, ping: do reader and waitServerPing run; request, *)
(* watched: is the connect request in c.requests, has it a watcher; reply: *)
(* what became of the connect command.                                     *)
Fresh == [dial |-> "no", open |-> FALSE, session |-> FALSE, reader |-> FALSE, final |-> FALSE,
          ping |-> FALSE, request |-> FALSE, watched |-> FALSE, reply |-> "none"]

VARIABLES
    state,      \* c.state
    transport,  \* c.transport, 0 for nil
    closeCh,    \* is c.closeCh not nil
    refreshRequired,
    timer,      \* is the timer in c.reconnectTimer pending
    stray,      \* timers it held before that are pending
    starting,   \* is there a call of startReconnecting by Connect to come
    con,        \* the connections
    dialed,     \* how many there are
    calls,      \* the callbacks of connect requests that run
    drops,      \* calls of handleDisconnect to come, by d.Reconnect
    movers,     \* calls of moveToConnecting between their two sections
    faults, made,   \* for the bounds
    leftover,   \* history: the callback of a connect request ran twice, or because
                \* the request was still there when requests were cleared
    again       \* history: Connect was called again

link == <<state, transport, closeCh, refreshRequired>>
timers == <<timer, stray>>
tally == <<dialed, made, starting, again>>
counts == <<tally, faults, leftover>>
vars == <<link, timers, con, calls, drops, movers, counts>>

Fault == faults < MaxFaults /\ faults' = faults + 1

Call(k, who, res) == [slot |-> k, who |-> who, res |-> res, at |-> "start"]
Reading(k) == \E c \in calls : c.slot = k /\ c.who = "reader"
Running(k) == \E c \in calls : c.slot = k
----------------------------------------------------------------------------
(* c.reconnectTimer is overwritten; a timer it held before still fires.    *)
SetTimer == timer' = TRUE /\ stray' = IF timer THEN stray + 1 ELSE stray

Shut(f, k) == [f EXCEPT ![k].open = FALSE, ![k].session = FALSE]

(* Mutant: the connection is not closed.                                   *)
MoveToOpen(s, f, running) ==
    /\ state' = s
    /\ transport' = 0 /\ timer' = FALSE /\ closeCh' = FALSE
    /\ calls' = running \cup {Call(k, "clear", "error") : k \in {j \in Slots : f[j].request}}
    /\ con' = [k \in Slots |-> [f[k] EXCEPT !.request = FALSE, !.watched = FALSE]]
    /\ leftover' = (leftover \/ \E k \in Slots : f[k].request)

(* The first part of moveToDisconnected and moveToConnecting, with         *)
(* clearConnectedState and resolveConnectFutures: the callbacks of all     *)
(* requests are run with ErrClientDisconnected, once more by the watchers  *)
(* that see closeCh closed before the requests are gone.                   *)
MoveTo(s, f, running) ==
    /\ state' = s
    /\ transport' = 0 /\ timer' = FALSE /\ closeCh' = FALSE
    /\ \E woken \in SUBSET {k \in Slots : f[k].request /\ f[k].watched /\ closeCh} :
         calls' = running \cup {Call(k, "clear", "error") : k \in {j \in Slots : f[j].request}}
                          \cup {Call(k, "watcher", "error") : k \in woken}
    /\ con' = [k \in Slots |->
                 [(IF k = transport THEN Shut(f, k) ELSE f)[k]
                      EXCEPT !.request = FALSE, !.watched = FALSE]]
    /\ leftover' = (leftover \/ \E k \in Slots : f[k].request)

moveToDisconnected(f, running) ==
    IF state \in {"connecting", "connected"}
    THEN MoveTo("disconnected", f, running)
    ELSE con' = f /\ calls' = running /\ UNCHANGED <<state, transport, timer, closeCh, leftover>>
----------------------------------------------------------------------------
(* A timer takes so long that a goroutine started before it has run, or    *)
(* that goroutine is late.                                                 *)
OnTime == IF \A r \in BOOLEAN : drops[r] = 0 THEN UNCHANGED faults ELSE Fault

(* startReconnecting: the first section.                                   *)
Begin ==
    /\ \/ timer /\ timer' = FALSE /\ OnTime /\ UNCHANGED <<stray, starting>>
       \/ stray > 0 /\ stray' = stray - 1 /\ OnTime /\ UNCHANGED <<timer, starting>>
       \/ starting /\ starting' = FALSE /\ UNCHANGED <<timers, faults>>
    /\ IF state # "connecting"
       THEN UNCHANGED <<con, dialed>>
       ELSE /\ dialed < N /\ dialed' = dialed + 1
            /\ con' = [con EXCEPT ![dialed'].dial = IF refreshRequired THEN "refresh" ELSE "plain"]
    /\ UNCHANGED <<link, calls, drops, movers, made, leftover, again>>

DialFails(k) ==
    /\ con[k].dial # "no"
    /\ Fault
    /\ con' = [con EXCEPT ![k] = Fresh]
    /\ IF state = "connecting" THEN SetTimer ELSE UNCHANGED timers
    /\ UNCHANGED <<link, calls, drops, movers, leftover, tally>>

(* refreshToken: no GetToken is configured.                                *)
Unauthorized(k) ==
    /\ con[k].dial = "refresh"
    /\ moveToDisconnected([con EXCEPT ![k] = Fresh], calls)
    /\ UNCHANGED <<refreshRequired, stray, drops, movers, faults, tally>>

(* Mutant: no timer is set when the connect command cannot be written.     *)
DialedNoTimer(k) ==
    /\ con[k].dial = "plain"
    /\ transport' = k /\ refreshRequired' = FALSE
    /\ Fault
    /\ con' = [con EXCEPT ![k] = [Fresh EXCEPT !.reader = TRUE, !.request = TRUE]]
    /\ drops' = [drops EXCEPT ![TRUE] = @ + 1]
    /\ UNCHANGED <<timers, state, closeCh, calls, movers, leftover, tally>>

(* Mutant: the state is not looked at again after the dial.                *)
DialedUnchecked(k) ==
    /\ con[k].dial = "plain"
    /\ transport' = k /\ refreshRequired' = FALSE
    /\ con' = [con EXCEPT ![k] = [Fresh EXCEPT !.open = TRUE, !.reader = TRUE, !.request = TRUE,
                                               !.watched = TRUE, !.session = TRUE, !.reply = "ok"]]
    /\ UNCHANGED <<timers, state, closeCh, drops, faults, calls, movers, leftover, tally>>

(* The second section: the reader is started and the connect command sent. *)
(* A command that cannot be written leaves its request behind, which       *)
(* nothing watches.                                                        *)
Dialed(k) ==
    /\ con[k].dial = "plain"
    /\ IF state # "connecting"
       THEN con' = [con EXCEPT ![k] = Fresh]
            /\ UNCHANGED <<timers, transport, refreshRequired, drops, faults>>
       ELSE /\ transport' = k /\ refreshRequired' = FALSE
            /\ \/ /\ \E r \in {"ok", "expired", "refused", "none"} :
                       con' = [con EXCEPT ![k] = [Fresh EXCEPT !.open = TRUE, !.reader = TRUE,
                                 !.request = TRUE, !.watched = TRUE, !.session = (r = "ok"),
                                 !.reply = r]]
                         /\ IF r = "ok" THEN UNCHANGED faults ELSE Fault
                  /\ UNCHANGED <<timers, drops>>
               \/ /\ Fault
                  /\ con' = [con EXCEPT ![k] = [Fresh EXCEPT !.reader = TRUE, !.request = TRUE]]
                  /\ SetTimer
                  /\ drops' = [drops EXCEPT ![TRUE] = @ + 1]
    /\ UNCHANGED <<state, closeCh, calls, movers, leftover, tally>>
----------------------------------------------------------------------------
(* The deliverer and the network                                           *)

(* The connection breaks, or the deliverer closes it, perhaps with a code  *)
(* that says not to come back.                                             *)
Breaks(k) ==
    /\ con[k].open
    /\ Fault
    /\ \E final \in BOOLEAN : con' = [Shut(con, k) EXCEPT ![k].final = final]
    /\ UNCHANGED <<link, timers, calls, drops, movers, leftover, tally>>

(* waitServerPing has waited too long, or a command cannot be written.     *)
Suspect(k) ==
    /\ \/ con[k].ping /\ con[k].reader
       \/ transport = k /\ state = "connected"
    /\ Fault
    /\ drops' = [drops EXCEPT ![TRUE] = @ + 1]
    /\ UNCHANGED <<link, timers, con, calls, movers, leftover, tally>>
----------------------------------------------------------------------------
(* The reader and the watcher of a connection                              *)

Read(k) ==
    /\ con[k].reader /\ ~Reading(k)
    /\ con[k].reply \in {"ok", "expired", "refused"}
    /\ con' = [con EXCEPT ![k].reply = "read"]
    /\ calls' = IF con[k].request
                THEN calls \cup {Call(k, "reader", con[k].reply)} ELSE calls
    /\ leftover' = (leftover \/ (con[k].request /\ Running(k)))
    /\ UNCHANGED <<link, timers, drops, movers, faults, tally>>

ReadEnd(k) ==
    /\ con[k].reader /\ ~Reading(k) /\ ~con[k].open
    /\ con' = [con EXCEPT ![k] = [Fresh EXCEPT !.request = con[k].request,
                                               !.watched = con[k].watched]]
    /\ drops' = [drops EXCEPT ![~con[k].final] = @ + 1]
    /\ UNCHANGED <<link, timers, calls, movers, counts>>

Timeout(k) ==
    /\ con[k].watched
    /\ IF con[k].open /\ con[k].reply # "none" THEN Fault ELSE UNCHANGED faults
    /\ con' = [con EXCEPT ![k].watched = FALSE]
    /\ calls' = calls \cup {Call(k, "watcher", "error")}
    /\ leftover' = (leftover \/ Running(k))
    /\ UNCHANGED <<link, timers, drops, movers, tally>>
----------------------------------------------------------------------------
(* The callback of a connect request, section by section                   *)

Ended(f, c) ==
    IF c.who = "clear" THEN f ELSE [f EXCEPT ![c.slot].request = FALSE, ![c.slot].watched = FALSE]

CallStart(c) ==
    /\ c.at = "start"
    /\ IF state # "connecting"
       THEN calls' = calls \ {c} /\ con' = Ended(con, c)
       ELSE /\ calls' = (calls \ {c}) \cup {[c EXCEPT !.at = "then"]}
            /\ con' = IF c.res = "ok" THEN con ELSE Shut(con, c.slot)
    /\ UNCHANGED <<link, timers, drops, movers, counts>>

Connected(c) ==
    /\ c.at = "then" /\ c.res = "ok"
    /\ IF state # "connecting"
       THEN /\ calls' = calls \ {c} /\ con' = Ended(Shut(con, c.slot), c)
            /\ UNCHANGED state
       ELSE /\ state' = "connected"
            /\ calls' = (calls \ {c}) \cup {[c EXCEPT !.at = "after"]}
            /\ UNCHANGED con
    /\ UNCHANGED <<timers, transport, closeCh, refreshRequired, drops, movers, counts>>

(* Mutant: only an expired token makes the client try again.               *)
ConnectAgainExpired(c) ==
    /\ c.at = "then" /\ c.res \in {"error", "expired"}
    /\ calls' = calls \ {c} /\ con' = Ended(con, c)
    /\ IF state = "connecting" /\ c.res = "expired"
       THEN SetTimer /\ refreshRequired' = TRUE
       ELSE UNCHANGED <<timers, refreshRequired>>
    /\ UNCHANGED <<state, transport, closeCh, drops, movers, counts>>

ConnectAgain(c) ==
    /\ c.at = "then" /\ c.res \in {"error", "expired"}
    /\ calls' = calls \ {c} /\ con' = Ended(con, c)
    /\ IF state = "connecting"
       THEN SetTimer /\ refreshRequired' = (refreshRequired \/ c.res = "expired")
       ELSE UNCHANGED <<timers, refreshRequired>>
    /\ UNCHANGED <<state, transport, closeCh, drops, movers, counts>>

Refused(c) ==
    /\ c.at = "then" /\ c.res = "refused"
    /\ IF state \in {"connecting", "connected"}
       THEN MoveTo("disconnected", con, calls \ {c})
       ELSE /\ calls' = calls \ {c} /\ con' = Ended(con, c)
            /\ UNCHANGED <<state, transport, timer, closeCh, leftover>>
    /\ UNCHANGED <<refreshRequired, stray, drops, movers, faults, tally>>

CallAfter(c) ==
    /\ c.at = "after"
    /\ calls' = calls \ {c}
    /\ con' = [Ended(con, c) EXCEPT ![c.slot].ping = (state = "connected")]
    /\ UNCHANGED <<link, timers, drops, movers, counts>>
----------------------------------------------------------------------------
(* A call of handleDisconnect, which is not told the connection it is      *)
(* about.                                                                  *)
handleDisconnect(reconnect) ==
    /\ drops[reconnect] > 0
    /\ drops' = [drops EXCEPT ![reconnect] = @ - 1]
    /\ \/ /\ reconnect /\ state = "connected"
          /\ MoveTo("connecting", con, calls) /\ movers' = movers + 1
       \/ reconnect /\ state # "connected"
          /\ UNCHANGED <<state, transport, timer, closeCh, con, calls, leftover, movers>>
       \/ ~reconnect /\ moveToDisconnected(con, calls) /\ UNCHANGED movers
    /\ UNCHANGED <<refreshRequired, stray, faults, tally>>

(* moveToConnecting: the second section.                                   *)
moveToConnecting ==
    /\ movers > 0 /\ movers' = movers - 1
    /\ IF state = "connecting" THEN SetTimer ELSE UNCHANGED timers
    /\ UNCHANGED <<link, con, calls, drops, counts>>
----------------------------------------------------------------------------
(* The program                                                             *)

Called == made < MaxCalls /\ made' = made + 1

Connect ==
    /\ Called
    /\ state = "disconnected"
    /\ state' = "connecting" /\ closeCh' = TRUE
    /\ starting' = TRUE
    /\ again' = (made > 0)
    /\ UNCHANGED <<timers, transport, refreshRequired, con, dialed, calls, drops, movers, faults,
                   leftover>>

Disconnect ==
    /\ Called
    /\ moveToDisconnected(con, calls)
    /\ UNCHANGED <<refreshRequired, stray, starting, dialed, drops, movers, faults, again>>
----------------------------------------------------------------------------
Init ==
    /\ state = "disconnected" /\ transport = 0
    /\ closeCh = FALSE /\ refreshRequired = FALSE
    /\ timer = FALSE /\ stray = 0 /\ starting = FALSE
    /\ con = [k \in Slots |-> Fresh] /\ dialed = 0
    /\ calls = {} /\ drops = [r \in BOOLEAN |-> 0] /\ movers = 0
    /\ faults = 0 /\ made = 0
    /\ leftover = FALSE /\ again = FALSE

Callback(c) == CallStart(c) \/ Connected(c) \/ ConnectAgain(c) \/ Refused(c) \/ CallAfter(c)
Reconnect == Begin \/ moveToConnecting
Attempt(k) == Dialed(k) \/ Unauthorized(k)
Serve(k) == Read(k) \/ ReadEnd(k)

Next ==
    \/ Connect \/ Disconnect \/ Reconnect
    \/ \E k \in Slots :
         Attempt(k) \/ DialFails(k) \/ Breaks(k) \/ Suspect(k) \/ Serve(k) \/ Timeout(k)
    \/ \E c \in calls : Callback(c)
    \/ \E r \in BOOLEAN : handleDisconnect(r)

(* Goroutines run and timers fire.                                         *)
Fairness ==
    /\ WF_vars(Reconnect)
    /\ \A k \in Slots : WF_vars(Attempt(k)) /\ WF_vars(Serve(k)) /\ WF_vars(Timeout(k))
    /\ WF_vars(\E c \in calls : Callback(c))
    /\ WF_vars(\E r \in BOOLEAN : handleDisconnect(r))

Spec == Init /\ [][Next]_vars /\ Fairness
----------------------------------------------------------------------------
(* A client that is connecting always has something that will go on with   *)
(* it: a timer or call of startReconnecting, a dial, a request that is     *)
(* watched, a callback or the rest of moveToConnecting.                    *)
NeverStranded ==
    state = "connecting" =>
        \/ timer \/ stray > 0 \/ starting \/ movers > 0 \/ calls # {}
        \/ \E k \in Slots : con[k].dial # "no" \/ con[k].watched

(* The deliverer sends each publication of the daemon's channel to every   *)
(* session: the client has one connection, so that a command is run once,  *)
(* except after the callback of a connect request has run twice, or has    *)
(* run because the request was still in c.requests when they were cleared  *)
(* (either sets a second timer beside the one that is set anyway), or      *)
(* after the program has called Connect again.                             *)
Live(k) == con[k].session /\ con[k].reader
OneSession ==
    (\E j, k \in Slots : j # k /\ Live(j) /\ Live(k)) => leftover \/ again

(* A client that was told to disconnect, or refused, has no connection     *)
(* open whatever was going on when it was, so that no command reaches a    *)
(* daemon that is logged out (with the same exceptions).                   *)
LoggedOut ==
    state = "disconnected" /\ ~leftover /\ ~again => \A k \in Slots : ~con[k].open

(* A client that lost its connection gets another or is disconnected, once *)
(* nothing goes wrong any more (or there are more attempts than N).        *)
Reconnects == state = "connecting" ~> state # "connecting" \/ dialed = N
====
